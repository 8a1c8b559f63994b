-------------------------- MODULE MCSemanticCache --------------------------
(* Instances of SemanticCacheClaims, and so of SemanticCache, for TLC.     *)
EXTENDS SemanticCacheClaims, TLC

CONSTANTS a, b, c

(* b's input is similar to those of a and c, which are not similar to each *)
(* other.                                                                  *)
Chain == [p \in Runs |-> [q \in Runs |->
    CASE p = q -> 2000
      [] {p, q} = {a, b} -> 1900
      [] {p, q} = {b, c} -> 1850
      [] OTHER -> 1000]]

Symmetry == Permutations(Workers)
=============================================================================
