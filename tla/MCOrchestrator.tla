--------------------------- MODULE MCOrchestrator ---------------------------
(* Instances of Orchestrator for TLC.                                       *)
EXTENDS Orchestrator

SmallPlans == {<<2>>, <<1, 2>>}
=============================================================================
