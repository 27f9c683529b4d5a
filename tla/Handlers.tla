------------------------------ MODULE Handlers ------------------------------
(***************************************************************************)
(* What the handlers of src/src/server.rs do to the node they run on and   *)
(* what they send, as operators on one node: MiniRaft runs them in one     *)
(* step each, Pipeline as tasks that wait for room in a channel.           *)
(***************************************************************************)
EXTENDS LogOps

CONSTANTS
    Server,        \* node ids; config.total_nodes is their number
    Request,       \* client Set commands, each submitted at most once
    None,          \* voted_for = None
    NoValue        \* the store has no value for the key

Key == {r.key : r \in Request}
Value == {r.value : r \in Request}
Link == {p \in Server \X Server : p[1] # p[2]}
TotalNodes == Cardinality(Server)
Peers(s) == Server \ {s}

ASSUME ServerAssumption == IsFiniteSet(Server) /\ Cardinality(Server) >= 2
ASSUME NoneAssumption == None \notin Server

-----------------------------------------------------------------------------
(* Messages                                                                *)

RequestVote(s, n) ==
    [kind |-> "RequestVote", term |-> n.current_term, candidate_id |-> s,
     last_log_index |-> IF n.log = <<>> THEN 0 ELSE LastIndex(n.log),
     last_log_term |-> LastLogTerm(n.log)]

RequestVoteResponse(n, granted) ==
    [kind |-> "RequestVoteResponse", term |-> n.current_term,
     vote_granted |-> granted]

AppendEntries(n, prev_index, prev_term, entries) ==
    [kind |-> "AppendEntries", term |-> n.current_term,
     prev_log_index |-> prev_index, prev_log_term |-> prev_term,
     entries |-> entries, leader_commit |-> n.commit_index]

AppendEntriesResponse(n, success) ==
    [kind |-> "AppendEntriesResponse", term |-> n.current_term,
     success |-> success]

Heartbeat(n) == AppendEntries(n, LastIndex(n.log), LastLogTerm(n.log), <<>>)

-----------------------------------------------------------------------------
(* State changes of one node                                               *)

InitialNode ==
    [role |-> "Follower", votes_received |-> 0, current_term |-> 0,
     voted_for |-> None, log |-> <<>>, commit_index |-> -1,
     last_applied |-> -1, match_index |-> [p \in Server |-> -1],
     next_index |-> [p \in Server |-> 0],
     last_sent_index |-> [p \in Server |-> 0],
     store |-> [k \in Key |-> NoValue]]

Panicked(n) == [n EXCEPT !.role = "Dead"]

\* Mutant: the vote of the previous term is kept.
BecomeFollowerKeepingVote(n, term) ==
    [n EXCEPT !.role = "Follower", !.current_term = term,
              !.votes_received = 0,
              !.match_index = InitialNode.match_index,
              !.next_index = InitialNode.next_index]

\* The indices of RaftState::Leader and the votes of RaftState::Candidate
\* disappear with the variant.
BecomeFollower(n, term) ==
    [n EXCEPT !.role = "Follower", !.current_term = term,
              !.voted_for = None, !.votes_received = 0,
              !.match_index = InitialNode.match_index,
              !.next_index = InitialNode.next_index]

BecomeCandidate(s, n) ==
    [n EXCEPT !.role = "Candidate", !.votes_received = 0,
              !.current_term = @ + 1, !.voted_for = s]

BecomeLeader(n) ==
    [n EXCEPT !.role = "Leader", !.votes_received = 0,
              !.match_index = [p \in Server |-> -1],
              !.next_index = [p \in Server |->
                                 IF n.last_applied < 0 THEN 0
                                                       ELSE n.last_applied + 1]]

\* Mutant: commit_index is not clamped to the end of the log.
ApplyUnclamped(n, leader_commit) ==
    LET commit == IF leader_commit > n.commit_index /\ n.log # <<>>
                  THEN leader_commit ELSE n.commit_index
        applied == Max({n.last_applied, Min({commit, LastIndex(n.log)})})
    IN  [n EXCEPT !.commit_index = commit,
                  !.last_applied = applied,
                  !.store = Replay(@, n.log, n.last_applied + 1, applied)]

\* Mutant: the loop stops before the entry at commit_index.
ApplyAllButLast(n, leader_commit) ==
    LET commit == IF leader_commit > n.commit_index /\ n.log # <<>>
                  THEN Min({leader_commit, LastIndex(n.log)})
                  ELSE n.commit_index
        applied == Max({n.last_applied, Min({commit - 1, LastIndex(n.log)})})
    IN  [n EXCEPT !.commit_index = commit,
                  !.last_applied = applied,
                  !.store = Replay(@, n.log, n.last_applied + 1, applied)]

\* apply_latest_commited_logs
ApplyLatestCommitedLogs(n, leader_commit) ==
    LET commit == IF leader_commit > n.commit_index /\ n.log # <<>>
                  THEN Min({leader_commit, LastIndex(n.log)})
                  ELSE n.commit_index
        applied == Max({n.last_applied, Min({commit, LastIndex(n.log)})})
    IN  [n EXCEPT !.commit_index = commit,
                  !.last_applied = applied,
                  !.store = Replay(@, n.log, n.last_applied + 1, applied)]

\* Mutant: follower() does not apply when it is entered again.
ResumeWithoutApplying(n) == n

\* What the loop does with the node before it waits for the next event:
\* follower() applies the committed entries each time it is entered.
Resume(n) ==
    IF n.role = "Follower" THEN ApplyLatestCommitedLogs(n, n.commit_index)
                           ELSE n

-----------------------------------------------------------------------------
(* handle_append_entries, in the order of its early returns                *)

Rejects(n, m) ==
    \/ m.term < n.current_term
    \/ ~ PrevLogMatches(n.log, m.prev_log_index, m.prev_log_term)

\* Mutant: a leader or candidate also yields to its own term.
StepsDownInSameTerm(n, m) == m.term >= n.current_term /\ n.role # "Follower"

StepsDown(n, m) == m.term > n.current_term /\ n.role # "Follower"

Accepts(n, m) == ~ Rejects(n, m) /\ ~ StepsDown(n, m)

\* A follower takes the term of the message; every node then applies what
\* leader_commit allows, from the log it had before the message.
Observe(n, m) ==
    ApplyLatestCommitedLogs([n EXCEPT !.current_term = m.term], m.leader_commit)

\* The new entries of m, and commit_index = min(leader_commit, last new one).
Store(n, m) ==
    [n EXCEPT !.log = AppendNewEntries(@, m.entries),
              !.commit_index =
                  IF m.leader_commit > @
                  THEN Min({m.leader_commit, m.entries[Len(m.entries)].index})
                  ELSE @]

-----------------------------------------------------------------------------
(* handle_request_vote_rpc and handle_request_vote_response_rpc            *)

DeniesVote(n, m) ==
    \/ m.term < n.current_term
    \/ /\ n.voted_for # None
       /\ \/ n.voted_for # m.candidate_id
          \/ m.last_log_index < LastIndex(n.log)
          \/ m.last_log_term # LastLogTerm(n.log)

\* Mutant: the count is set instead of increased.
CountedOnce(n) == [n EXCEPT !.votes_received = 1]

Counted(n) == [n EXCEPT !.votes_received = @ + 1]
Wins(n) == n.votes_received >= TotalNodes \div 2 + 1

\* leader() up to its loop: apply, then heartbeat.
TakeOffice(n) == BecomeLeader(ApplyLatestCommitedLogs(n, n.commit_index))

-----------------------------------------------------------------------------
(* handle_append_entries_response                                          *)

\* The reply does not say what it acknowledges: the leader takes it for the
\* last entry it has sent.
Acknowledged(n, src) ==
    [n EXCEPT !.match_index[src] = n.last_sent_index[src],
              !.next_index[src] = n.last_sent_index[src] + 1]

\* Mutant: next_index is decremented without the check against 0.
BackedOffUnchecked(n, src) == [n EXCEPT !.next_index[src] = @ - 1]

BackedOff(n, src) == [n EXCEPT !.next_index[src] = Max({@ - 1, 0})]

\* The retry names the entry at next_index itself as the previous one.
Retry(n, src) ==
    LET i == n.next_index[src] IN
    AppendEntries(n, i, At(n.log, i).term, SubSeq(n.log, i + 1, Len(n.log)))

Holders(n, i) == {p \in Server : n.match_index[p] >= i}

\* Mutant: the scan starts one entry too late.
CommittableFromNext(n) ==
    {i \in n.commit_index + 2 .. LastIndex(n.log) :
        /\ At(n.log, i).term = n.current_term
        /\ Cardinality(Holders(n, i)) > TotalNodes \div 2 - 1}

Committable(n) ==
    {i \in n.commit_index + 1 .. LastIndex(n.log) :
        /\ At(n.log, i).term = n.current_term
        /\ Cardinality(Holders(n, i)) > TotalNodes \div 2 - 1}

\* The scan stops at the first entry that can be committed.
AdvanceCommit(n) ==
    IF Committable(n) = {} THEN n
    ELSE [n EXCEPT !.commit_index = Min(Committable(n))]

\* Mutant: the leader leaves the application to a later round.
ApplyOwnLater(s, n) == [n EXCEPT !.match_index[s] = n.commit_index]

\* After a success that advanced commit_index the leader applies up to it and
\* counts itself among the holders.
ApplyOwn(s, n) ==
    [ApplyLatestCommitedLogs(n, n.commit_index) EXCEPT
        !.last_applied = n.commit_index, !.match_index[s] = n.commit_index]

\* Mutant: the client of the last entry is told of success.
ClientOfLast(n) ==
    LET r == At(n.log, LastIndex(n.log)).request IN <<r.client, r.id>>

\* SetSuccess goes to the client of the entry at commit_index only.
ClientOf(n) == LET r == At(n.log, n.commit_index).request IN <<r.client, r.id>>

-----------------------------------------------------------------------------
(* handle_set_command                                                      *)

NewEntry(n, r) ==
    [term |-> n.current_term, index |-> Len(n.log), request |-> r]

\* The last entry of n, sent with the previous entry peer is believed to have.
Announcement(n, peer) ==
    LET prev == n.next_index[peer] - 1 IN
    AppendEntries(n, prev, IF prev = -1 THEN 0 ELSE At(n.log, prev).term,
                  <<At(n.log, LastIndex(n.log))>>)

Announceable(n, peer) == n.next_index[peer] <= Len(n.log)

\* log[prev] panics at the first peer of the visiting order that is not
\* announceable: k peers are reached before.
Reaches(n, order, k) ==
    /\ \A i \in 1 .. k : Announceable(n, order[i])
    /\ k < Len(order) => ~ Announceable(n, order[k + 1])

MarkSent(s, n) ==
    [n EXCEPT !.last_sent_index =
        [p \in Server |-> IF p \in Peers(s) THEN LastIndex(n.log) ELSE @[p]]]

-----------------------------------------------------------------------------
(* Types                                                                   *)

Index == Nat \union {-1}

Entry == [term : Nat, index : Nat, request : Request]

Message ==
    [kind : {"RequestVote"}, term : Nat, candidate_id : Server,
     last_log_index : Nat, last_log_term : Nat]
    \union
    [kind : {"RequestVoteResponse"}, term : Nat, vote_granted : BOOLEAN]
    \union
    [kind : {"AppendEntries"}, term : Nat, prev_log_index : Index,
     prev_log_term : Nat, entries : Seq(Entry), leader_commit : Index]
    \union
    [kind : {"AppendEntriesResponse"}, term : Nat, success : BOOLEAN]

NodeState ==
    [role : {"Follower", "Candidate", "Leader", "Dead"},
     votes_received : Nat, current_term : Nat,
     voted_for : Server \union {None}, log : Seq(Entry),
     commit_index : Index, last_applied : Index,
     match_index : [Server -> Index], next_index : [Server -> Nat],
     last_sent_index : [Server -> Nat],
     store : [Key -> Value \union {NoValue}]]

=============================================================================
