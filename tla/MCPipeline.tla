----------------------------- MODULE MCPipeline -----------------------------
(* Values of the constants of Pipeline for the model checker.              *)
EXTENDS Pipeline, TLC

CONSTANTS n1, n2, n3, x, v1, c1

NoRequest == {}
OneRequest == {[client |-> c1, id |-> 1, key |-> x, value |-> v1]}

\* n2 and n3 do not differ where neither campaigns.
Followers == Permutations({n2, n3})
=============================================================================
