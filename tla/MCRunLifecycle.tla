--------------------------- MODULE MCRunLifecycle ---------------------------
(* Instances of RunLifecycle for TLC.                                      *)
EXTENDS RunLifecycle, TLC

NoFaults == [k \in FaultKinds |-> 0]
WorkerFaults == [k \in FaultKinds |-> CASE k = "escape" -> MaxRetries + 1
                                       [] k = "api" -> 0
                                       [] OTHER -> 1]
OneApi == [NoFaults EXCEPT !["api"] = 1]
OneEscape == [NoFaults EXCEPT !["escape"] = 1]

Symmetry == Permutations(Requests) \cup Permutations(Readers)
=============================================================================
