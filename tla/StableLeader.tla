---------------------------- MODULE StableLeader ----------------------------
(***************************************************************************)
(* MiniRaft when the election timeouts are staggered so that one node      *)
(* campaigns long before the others would (tests/cluster.rs, lines 95-110, *)
(* starts its nodes that way): Chief is the only electable node. Links may *)
(* still be late, break and lose messages, and nodes may panic.            *)
(***************************************************************************)
EXTENDS MiniRaft

CONSTANT Chief

ASSUME ChiefAssumption == Chief \in Server /\ Electable = {Chief}

Abstract == INSTANCE ReplicatedLog WITH
    Node <- Server,
    Terms <- 1 .. MaxTerm,
    Command <- Request,
    EmptyStore <- InitialNode.store,
    history <- node[Chief].log,
    replica <- [s \in Server |->
        [log |-> node[s].log, committed |-> node[s].commit_index + 1,
         applied |-> node[s].last_applied + 1, store |-> node[s].store]]

\* As long as one node leads, the logs, commits, applications and stores of
\* all nodes, dead ones included, follow one history, in spite of duplicated
\* broadcasts, wrong previous indices, retries, rejections and losses: no node
\* commits an entry before the leader, applies one it has not committed, or
\* goes back.
ImplementsReplicatedLog == Abstract!Spec

\* A client hears SetSuccess only when the leader has committed and applied
\* its entry.
AnsweredIsApplied ==
    \A a \in answered : \E i \in 0 .. node[Chief].last_applied :
        /\ i <= node[Chief].commit_index
        /\ a = <<At(node[Chief].log, i).request.client,
                 At(node[Chief].log, i).request.id>>

\* The leader never panics: next_index stays within its log whatever refusals
\* and doubtful successes arrive, so log[next_index] of a retry and log[prev]
\* of a broadcast exist. (A follower does panic here: a success that no node
\* should have sent makes the leader skip the entries it still lacks.)
LeaderNeverPanics == node[Chief].role # "Dead"

Submitted(r) == r \in submitted
Answered(r) == <<r.client, r.id>> \in answered
Stored(s, r) == node[s].store[r.key] = r.value

\* A leader is elected; a request it has taken is answered, and every state
\* machine gets to hold its value (tests/cluster.rs, lines 215 and 241).
LeaderElected == <>(node[Chief].role = "Leader")
RequestAnswered == \A r \in Request : Submitted(r) ~> Answered(r)
StoresConverge ==
    \A r \in Request : Submitted(r) ~> [](\A s \in Server : Stored(s, r))

=============================================================================
