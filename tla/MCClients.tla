----------------------------- MODULE MCClients ------------------------------
(* Instances of FleetClaims, and so of Clients, for TLC.                     *)
EXTENDS FleetClaims

ThreeRuns == 1 .. 3
SecondUrgent == <<8, 1, 5>>
TwoCases == <<1, 2>>
SmallCompanies == {{"eval"}, {"user", "metrics"}}
EvalOnly == {{"eval"}}
=============================================================================
