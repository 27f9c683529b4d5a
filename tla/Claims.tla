------------------------------- MODULE Claims -------------------------------
(***************************************************************************)
(* What the documentation, the comments, the log messages and the tests of *)
(* the repository say of the core, and the code does not do: each of these *)
(* properties is violated by MiniRaft (README.md explains each trace).     *)
(***************************************************************************)
EXTENDS MiniRaft

\* src/server.rs:629: "denying vote: already voted for another candidate or log
\* is less up-to-date", and tests/cluster.rs:142, of the nodes that send
\* heartbeats: "Exactly one node should be sending them." Two leaders of one
\* term: a voter does not record its vote, so it grants every candidate, and
\* each of them twice.
OneLeaderPerTerm ==
    \A s, t \in Server :
        /\ node[s].role = "Leader" /\ node[t].role = "Leader"
        /\ node[s].current_term = node[t].current_term
        => s = t

\* README.md:23: "advance `commit_index` on majority ack". An acknowledgement
\* of an old entry is taken for the last entry sent.
CommittedByMajority ==
    \A s \in Server : node[s].role = "Leader" =>
        \A i \in 0 .. node[s].commit_index :
            2 * Cardinality({p \in Server :
                    /\ Has(node[p].log, i)
                    /\ At(node[p].log, i) = At(node[s].log, i)}) > TotalNodes

\* tests/cluster.rs:215: "Leader must eventually respond SetSuccess (majority
\* replication)". Of two requests, one can stay unanswered for ever.
EveryRequestAnswered ==
    \A r \in Request : r \in submitted ~> <<r.client, r.id>> \in answered

=============================================================================
