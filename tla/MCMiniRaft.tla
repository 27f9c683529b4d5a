----------------------------- MODULE MCMiniRaft -----------------------------
(* Values of the constants of MiniRaft for the model checker.              *)
EXTENDS MiniRaft, TLC

CONSTANTS n1, n2, n3, x, y, v1, v2, v3

\* Two writes of one key from two clients, and a third to another key.
SetX1 == [client |-> 1, id |-> 1, key |-> x, value |-> v1]
SetX2 == [client |-> 2, id |-> 1, key |-> x, value |-> v2]
SetY == [client |-> 1, id |-> 2, key |-> y, value |-> v3]

NoRequest == {}
OneRequest == {SetX1}
TwoRequests == {SetX1, SetX2}
ThreeRequests == {SetX1, SetX2, SetY}

NoLinks == {}
Mesh == Link

\* One direction, or both, of the connection between n1 and n2.
OneWay == {<<n1, n2>>}
BothWays == {<<n1, n2>>, <<n2, n1>>}
RestOfMesh == Link \ BothWays

\* Nodes that may all campaign are interchangeable.
Symmetry == Permutations(Server)
=============================================================================
