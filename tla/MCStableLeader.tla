--------------------------- MODULE MCStableLeader ---------------------------
(* The values of MCMiniRaft, for StableLeader.                             *)
EXTENDS StableLeader, MCMiniRaft
=============================================================================
