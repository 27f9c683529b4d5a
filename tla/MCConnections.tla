--------------------------- MODULE MCConnections ----------------------------
(* Values of the constants of Connections for the model checker.           *)
EXTENDS Connections

\* The Hellos between 1 and 3 may be slow, the connection of 2 and 3 may fail.
SlowOne == {<<1, 3>>}
FragileOne == {<<2, 3>>, <<3, 2>>}
=============================================================================
