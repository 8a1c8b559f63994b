------------------------ MODULE SemanticCacheClaims ------------------------
(* What the documentation says about the cache, stated over SemanticCache. *)
EXTENDS SemanticCache

(* cache_service.py:5-9: "If a new input is semantically similar [...] to  *)
(* a previously completed run, the cached output is returned immediately". *)
(* So while no call fails and nobody else fills the cache, a run that is   *)
(* executed, and was not sent past the cache, has nothing similar in it.   *)
SimilarInputIsServed ==
    \A w \in Workers :
        /\ At(w, "work") /\ ~worker[w].skip
        /\ faults = MaxFaults /\ Workers = {w}
        => \A k \in DOMAIN index : Similarity[worker[w].run][index[k]] < Threshold
=============================================================================
