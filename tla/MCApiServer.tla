---------------------------- MODULE MCApiServer ----------------------------
(* ApiServer with two connections and few numbers: concurrent cache misses, *)
(* a retry of a timed-out POST, and windows that end while both run.        *)
EXTENDS ApiServer, TLC

DepthsOf == 0..Cardinality(Numbers)

Symmetry == Permutations(Clients) \cup Permutations(Callers) \cup Permutations(Numbers)
=============================================================================
