------------------------------ MODULE MiniRaft ------------------------------
(***************************************************************************)
(* The Raft core of mini_raft (src/src/server.rs): every node runs         *)
(* Server::run, which loops over follower(), candidate() and leader().     *)
(* One action is one iteration of such a loop: the arm of tokio::select!   *)
(* that fires (a timer, or recieve_rpc with one message) together with     *)
(* what the loop does before it waits again: a follower applies what is    *)
(* committed, a candidate broadcasts RequestVote again, a new leader       *)
(* broadcasts a heartbeat.                                                 *)
(*                                                                         *)
(* The network (src/src/network.rs) is one FIFO queue per ordered pair of  *)
(* nodes. A message is dropped when the sender's registry has no working   *)
(* writer for the destination. A panic ends the node's server task and     *)
(* nothing restarts it: role "Dead".                                       *)
(***************************************************************************)
EXTENDS Handlers

CONSTANTS
    Electable,     \* nodes whose election timer is short enough to fire
    InitialLinks,  \* ordered pairs connected before the servers start
    LateLinks,     \* ordered pairs that may be connected later
    Breakable,     \* ordered pairs whose TCP connection may fail
    MaxTerm,       \* bound: no election is started beyond this term
    Capacity,      \* bound: messages in flight on one link
    Backlog        \* bound: a timer fires only if at most this many
                   \* messages wait on each link out of the node

ASSUME ElectableAssumption == Electable \subseteq Server
ASSUME LinkAssumption == (InitialLinks \union LateLinks \union Breakable) \subseteq Link
ASSUME BoundAssumption == MaxTerm \in Nat /\ Capacity \in Nat /\ Backlog \in Nat

VARIABLES
    node,       \* node[s]: the fields of Server and ServerState
    wire,       \* wire[<<a, b>>]: messages from a that b has not handled
    link,       \* link[<<a, b>>]: does a's registry have a writer for b
    submitted,  \* requests that have reached a leader
    answered    \* <<client, id>> of the SetSuccess replies sent

vars == <<node, wire, link, submitted, answered>>

-----------------------------------------------------------------------------
(* Sending and receiving                                                   *)

\* What a step sends: for each destination, the messages put on its link.
Silence == [d \in Server |-> <<>>]
Broadcast(m) == [d \in Server |-> <<m>>]
SendTo(dest, m) == [d \in Server |-> IF d = dest THEN <<m>> ELSE <<>>]
Then(a, b) == [d \in Server |-> a[d] \o b[d]]

\* dispatch_server_msg and framed_writer: a message for a peer with no
\* working writer is logged and dropped. What is written to a node whose
\* server task is gone is never handled, so it is dropped here as well.
Carries(p) == link[p] = "open" /\ node[p[2]].role # "Dead"

HasRoom(s, out) ==
    \A d \in Peers(s) : Carries(<<s, d>>)
        => Len(wire[<<s, d>>]) + Len(out[d]) <= Capacity

Posted(s, out, p) ==
    IF p[1] = s /\ Carries(p) THEN wire[p] \o out[p[2]] ELSE wire[p]

Send(s, out) ==
    /\ HasRoom(s, out)
    /\ wire' = [p \in Link |-> Posted(s, out, p)]

\* Take the message at the head of the link from src to s, then send.
Exchange(src, s, out) ==
    /\ HasRoom(s, out)
    /\ wire' = [p \in Link |-> IF p = <<src, s>> THEN Tail(wire[p])
                                                 ELSE Posted(s, out, p)]

\* s reads from src only after its own handshake registered src.
Receives(s, src, kind) ==
    /\ node[s].role # "Dead"
    /\ link[<<s, src>>] # "absent"
    /\ wire[<<src, s>>] # <<>>
    /\ Head(wire[<<src, s>>]).kind = kind

Incoming(s, src) == Head(wire[<<src, s>>])

-----------------------------------------------------------------------------
(* The end of a handler                                                    *)

\* What a loop sends before it waits: candidate() asks for votes after every message.
Resend(s, n) ==
    IF n.role = "Candidate" THEN Broadcast(RequestVote(s, n)) ELSE Silence

\* The end of a handler of s for a message from src: n is the node the
\* handler leaves, out what it sent.
Finish(src, s, n, out) ==
    /\ node' = [node EXCEPT ![s] = Resume(n)]
    /\ Exchange(src, s, Then(out, Resend(s, n)))
    /\ UNCHANGED <<link, submitted>>

-----------------------------------------------------------------------------
(* Timers                                                                  *)

TimerMayFire(s) ==
    \A d \in Peers(s) : Carries(<<s, d>>) => Len(wire[<<s, d>>]) <= Backlog

\* follower() to candidate(): the first RequestVote goes out at once.
ElectionTimeout(s) ==
    LET n == BecomeCandidate(s, node[s]) IN
    /\ node[s].role = "Follower" /\ s \in Electable /\ n.current_term <= MaxTerm
    /\ TimerMayFire(s)
    /\ node' = [node EXCEPT ![s] = n]
    /\ Send(s, Broadcast(RequestVote(s, n)))
    /\ UNCHANGED <<link, submitted, answered>>

\* A candidate asks again in the same term. It does the same when a client
\* request, which it ignores, makes its loop go round.
CandidateTimeout(s) ==
    /\ node[s].role = "Candidate"
    /\ TimerMayFire(s)
    /\ Send(s, Broadcast(RequestVote(s, node[s])))
    /\ UNCHANGED <<node, link, submitted, answered>>

HeartbeatTimeout(s) ==
    /\ node[s].role = "Leader"
    /\ TimerMayFire(s)
    /\ Send(s, Broadcast(Heartbeat(node[s])))
    /\ UNCHANGED <<node, link, submitted, answered>>

-----------------------------------------------------------------------------
(* handle_append_entries, in the order of its early returns                *)

RejectAppendEntries(s, src) ==
    LET n == node[s]
        m == Incoming(s, src) IN
    /\ Receives(s, src, "AppendEntries") /\ Rejects(n, m)
    /\ Finish(src, s, n, SendTo(src, AppendEntriesResponse(n, FALSE)))
    /\ UNCHANGED answered

StepDownOnAppendEntries(s, src) ==
    LET n == node[s]
        m == Incoming(s, src) IN
    /\ Receives(s, src, "AppendEntries") /\ ~ Rejects(n, m) /\ StepsDown(n, m)
    /\ Finish(src, s, BecomeFollower(n, m.term), Silence)
    /\ UNCHANGED answered

AcceptHeartbeat(s, src) ==
    LET m == Incoming(s, src) IN
    /\ Receives(s, src, "AppendEntries") /\ Accepts(node[s], m)
    /\ m.entries = <<>>
    /\ Finish(src, s, Observe(node[s], m), Silence)
    /\ UNCHANGED answered

AcceptNewEntries(s, src) ==
    LET m == Incoming(s, src)
        n == Store(Observe(node[s], m), m) IN
    /\ Receives(s, src, "AppendEntries") /\ Accepts(node[s], m)
    /\ m.entries # <<>> /\ ~ LeavesGap(node[s].log, m.entries)
    /\ Finish(src, s, n, SendTo(src, AppendEntriesResponse(n, TRUE)))
    /\ UNCHANGED answered

\* Vec::insert panics: the message starts beyond the end of the log.
PanicOnGap(s, src) ==
    LET m == Incoming(s, src) IN
    /\ Receives(s, src, "AppendEntries") /\ Accepts(node[s], m)
    /\ m.entries # <<>> /\ LeavesGap(node[s].log, m.entries)
    /\ Finish(src, s, Panicked(Observe(node[s], m)), Silence)
    /\ UNCHANGED answered

-----------------------------------------------------------------------------
(* handle_request_vote_rpc and handle_request_vote_response_rpc            *)

HandleRequestVote(s, src) ==
    LET n == node[s]
        m == Incoming(s, src) IN
    /\ Receives(s, src, "RequestVote")
    /\ Finish(src, s, n, SendTo(m.candidate_id,
                                RequestVoteResponse(n, ~ DeniesVote(n, m))))
    /\ UNCHANGED answered

\* A response that changes nothing: the node is not a candidate, or the vote
\* is denied in a term that is not higher.
IgnoreVoteResponse(s, src) ==
    LET n == node[s]
        m == Incoming(s, src) IN
    /\ Receives(s, src, "RequestVoteResponse")
    /\ n.role # "Candidate" \/ (m.term <= n.current_term /\ ~ m.vote_granted)
    /\ Finish(src, s, n, Silence)
    /\ UNCHANGED answered

\* Mutant: a denial in the candidate's own term makes it step down.
StepDownOnOwnTerm(s, src) ==
    LET n == node[s]
        m == Incoming(s, src) IN
    /\ Receives(s, src, "RequestVoteResponse")
    /\ n.role = "Candidate" /\ m.term >= n.current_term
    /\ Finish(src, s, BecomeFollower(n, m.term), Silence)
    /\ UNCHANGED answered

StepDownOnVoteResponse(s, src) ==
    LET n == node[s]
        m == Incoming(s, src) IN
    /\ Receives(s, src, "RequestVoteResponse")
    /\ n.role = "Candidate" /\ m.term > n.current_term
    /\ Finish(src, s, BecomeFollower(n, m.term), Silence)
    /\ UNCHANGED answered

CountVote(s, src) ==
    LET n == Counted(node[s])
        m == Incoming(s, src) IN
    /\ Receives(s, src, "RequestVoteResponse")
    /\ n.role = "Candidate" /\ m.term <= n.current_term /\ m.vote_granted
    /\ ~ Wins(n)
    /\ Finish(src, s, n, Silence)
    /\ UNCHANGED answered

WinElection(s, src) ==
    LET n == Counted(node[s])
        m == Incoming(s, src) IN
    /\ Receives(s, src, "RequestVoteResponse")
    /\ n.role = "Candidate" /\ m.term <= n.current_term /\ m.vote_granted
    /\ Wins(n)
    /\ Finish(src, s, TakeOffice(n), Broadcast(Heartbeat(TakeOffice(n))))
    /\ UNCHANGED answered

-----------------------------------------------------------------------------
(* handle_append_entries_response                                          *)

IgnoreAppendEntriesResponse(s, src) ==
    /\ Receives(s, src, "AppendEntriesResponse")
    /\ node[s].role # "Leader"
    /\ Finish(src, s, node[s], Silence)
    /\ UNCHANGED answered

StepDownOnAppendEntriesResponse(s, src) ==
    LET m == Incoming(s, src) IN
    /\ Receives(s, src, "AppendEntriesResponse")
    /\ node[s].role = "Leader" /\ m.term > node[s].current_term
    /\ Finish(src, s, BecomeFollower(node[s], m.term), Silence)
    /\ UNCHANGED answered

\* A response that a leader takes into account, with the given outcome.
Counts(s, src, success) ==
    /\ Receives(s, src, "AppendEntriesResponse")
    /\ node[s].role = "Leader"
    /\ Incoming(s, src).term <= node[s].current_term
    /\ Incoming(s, src).success = success

RecordSuccess(s, src) ==
    LET n == Acknowledged(node[s], src) IN
    /\ Counts(s, src, TRUE) /\ Committable(n) = {}
    /\ Finish(src, s, n, Silence)
    /\ UNCHANGED answered

CommitAndAnswer(s, src) ==
    LET n == AdvanceCommit(Acknowledged(node[s], src)) IN
    /\ Counts(s, src, TRUE) /\ Committable(Acknowledged(node[s], src)) # {}
    /\ Finish(src, s, ApplyOwn(s, n), Silence)
    /\ answered' = answered \union {ClientOf(n)}

\* A failure ends in the same scan, but nothing is applied or answered there.
RetryAfterFailure(s, src) ==
    LET n == BackedOff(node[s], src) IN
    /\ Counts(s, src, FALSE) /\ Has(n.log, n.next_index[src])
    /\ Finish(src, s, AdvanceCommit(n), SendTo(src, Retry(n, src)))
    /\ UNCHANGED answered

\* log[next_index] panics when the leader has no entry there.
PanicOnFailure(s, src) ==
    LET n == BackedOff(node[s], src) IN
    /\ Counts(s, src, FALSE) /\ ~ Has(n.log, n.next_index[src])
    /\ Finish(src, s, Panicked(n), Silence)
    /\ UNCHANGED answered

-----------------------------------------------------------------------------
(* handle_client_request and handle_set_command                            *)

\* One broadcast to every peer for each of the first k peers.
Announcements(n, order, k) ==
    [d \in Server |-> [i \in 1 .. k |-> Announcement(n, order[i])]]

ClientSet(s, r) ==
    LET n == [node[s] EXCEPT !.log = Append(@, NewEntry(node[s], r))] IN
    /\ node[s].role = "Leader" /\ r \notin submitted
    /\ submitted' = submitted \union {r}
    /\ \E order \in SetToSeqs(Peers(s)), k \in 0 .. Cardinality(Peers(s)) :
          /\ Reaches(n, order, k)
          /\ node' = [node EXCEPT ![s] = IF k = Len(order) THEN MarkSent(s, n)
                                                          ELSE Panicked(n)]
          /\ Send(s, Announcements(n, order, k))
    /\ UNCHANGED <<link, answered>>

-----------------------------------------------------------------------------
(* Connections, as far as the core sees them                               *)

\* A handshake at p[1] ends: a writer and a reader for p[2] are spawned. The
\* two ends of a connection finish at different times.
Register(p) ==
    /\ p \in LateLinks /\ link[p] = "absent"
    /\ link' = [link EXCEPT ![p] = "open"]
    /\ UNCHANGED <<node, wire, submitted, answered>>

\* A connection breaks: what was still in the sockets is lost in both
\* directions, the registries keep the dead writers and nobody redials.
BreakLink(p) ==
    LET q == <<p[2], p[1]>> IN
    /\ p \in Breakable /\ link[p] = "open" /\ link[q] = "open"
    /\ link' = [link EXCEPT ![p] = "broken", ![q] = "broken"]
    /\ \E i \in 0 .. Len(wire[p]), j \in 0 .. Len(wire[q]) :
          wire' = [wire EXCEPT ![p] = SubSeq(@, 1, i), ![q] = SubSeq(@, 1, j)]
    /\ UNCHANGED <<node, submitted, answered>>

-----------------------------------------------------------------------------
(* Specification                                                           *)

Init ==
    /\ node = [s \in Server |-> InitialNode]
    /\ wire = [p \in Link |-> <<>>]
    /\ link = [p \in Link |-> IF p \in InitialLinks THEN "open" ELSE "absent"]
    /\ submitted = {}
    /\ answered = {}

Timers(s) == ElectionTimeout(s) \/ CandidateTimeout(s) \/ HeartbeatTimeout(s)

HandleMessage(s, src) ==
    \/ RejectAppendEntries(s, src)
    \/ StepDownOnAppendEntries(s, src)
    \/ AcceptHeartbeat(s, src)
    \/ AcceptNewEntries(s, src)
    \/ PanicOnGap(s, src)
    \/ HandleRequestVote(s, src)
    \/ IgnoreVoteResponse(s, src)
    \/ StepDownOnVoteResponse(s, src)
    \/ CountVote(s, src)
    \/ WinElection(s, src)
    \/ IgnoreAppendEntriesResponse(s, src)
    \/ StepDownOnAppendEntriesResponse(s, src)
    \/ RecordSuccess(s, src)
    \/ CommitAndAnswer(s, src)
    \/ RetryAfterFailure(s, src)
    \/ PanicOnFailure(s, src)

Next ==
    \/ \E s \in Server : Timers(s)
    \/ \E s \in Server : \E src \in Peers(s) : HandleMessage(s, src)
    \/ \E s \in Server, r \in Request : ClientSet(s, r)
    \/ \E p \in Link : Register(p) \/ BreakLink(p)

Spec == Init /\ [][Next]_vars

\* Every message is handled in the end. The timers are created anew after
\* every message, so they are only sure to fire while none is waiting.
Quiet(s) == \A src \in Peers(s) : wire[<<src, s>>] = <<>>

FairSpec ==
    /\ Spec
    /\ \A s \in Server : \A src \in Peers(s) : WF_vars(HandleMessage(s, src))
    /\ \A s \in Server : WF_vars(Quiet(s) /\ Timers(s))

-----------------------------------------------------------------------------
(* Type invariant                                                          *)

\* Every field keeps the type it has in Server, ServerState and the messages;
\* the indices never go below their initial values.
TypeOK ==
    /\ node \in [Server -> NodeState]
    /\ wire \in [Link -> Seq(Message)]
    /\ link \in [Link -> {"absent", "open", "broken"}]
    /\ submitted \subseteq Request
    /\ answered \subseteq {<<r.client, r.id>> : r \in Request}

-----------------------------------------------------------------------------
(* What holds in every run: any node may campaign, links may be late,      *)
(* one-sided or break, messages in flight may be lost, nodes may panic     *)

\* voted_for is None at a follower and the node itself otherwise: neither a
\* granted vote nor a step-down leaves a vote behind.
VoteBookkeeping ==
    \A s \in Server :
        /\ node[s].role = "Follower" => node[s].voted_for = None
        /\ node[s].role \in {"Candidate", "Leader"} => node[s].voted_for = s

\* Entries carry their own position and terms that never decrease.
Ordered(es, first) ==
    /\ \A i \in 1 .. Len(es) : es[i].index = first + i - 1
    /\ \A i, j \in 1 .. Len(es) : i <= j => es[i].term <= es[j].term

\* The entries of an AppendEntries: the last entry of a leader's log, written
\* in the term of the message, or a retry, which starts with the entry that it
\* names as the previous one.
EntriesWellFormed(m) ==
    m.entries # <<>> =>
        /\ Ordered(m.entries, m.entries[1].index)
        /\ \A i \in 1 .. Len(m.entries) : m.entries[i].term <= m.term
        /\ \/ Len(m.entries) = 1 /\ m.entries[1].term = m.term
           \/ /\ m.entries[1].index = m.prev_log_index
              /\ m.entries[1].term = m.prev_log_term

\* delete_conflicting_and_append_new_entries trusts entry.index, truncates and
\* inserts: no order of elections, retries and losses leaves an entry at a
\* position that is not its own, or an older term above a newer one. Only a
\* node that has a log is told of success: the scan for a committable entry,
\* which looks at log[0] of an empty log, never does.
LogWellFormed ==
    /\ \A s \in Server :
          /\ Ordered(node[s].log, 0)
          /\ \A i \in 1 .. Len(node[s].log) :
                node[s].log[i].term <= node[s].current_term
    /\ \A p \in Link : \A i \in 1 .. Len(wire[p]) :
          /\ wire[p][i].kind = "AppendEntries" => EntriesWellFormed(wire[p][i])
          /\ wire[p][i].kind = "AppendEntriesResponse" /\ wire[p][i].success
                => node[p[2]].log # <<>>

\* No message carries a term its sender has not reached, and a node learns
\* terms from messages only: once a term has been started, some node that is
\* not a follower holds the highest one, whatever is lost. (A node that could
\* step down in its own term would break it.)
CampaignNeverForgotten ==
    /\ \A p \in Link : \A i \in 1 .. Len(wire[p]) :
          wire[p][i].term <= node[p[1]].current_term
    /\ \A s \in Server : node[s].current_term > 0 =>
          \E t \in Server : /\ node[t].current_term >= node[s].current_term
                            /\ node[t].role # "Follower"

\* Each time a follower waits, it has applied what is committed and present.
FollowerCaughtUp ==
    \A s \in Server : node[s].role = "Follower" =>
        \/ node[s].last_applied >= node[s].commit_index
        \/ node[s].last_applied >= LastIndex(node[s].log)

\* Terms never decrease; a node becomes a follower only by learning a higher
\* term, a candidate only from follower with the next term, a leader only from
\* candidate in that term: at most once per term. A dead node stays as it is.
RoleChange(old, new) ==
    /\ new.current_term >= old.current_term
    /\ new.role = "Follower" /\ old.role # "Follower"
          => new.current_term > old.current_term
    /\ new.role = "Candidate" /\ old.role # "Candidate"
          => old.role = "Follower" /\ new.current_term = old.current_term + 1
    /\ new.role = "Leader" /\ old.role # "Leader"
          => old.role = "Candidate" /\ new.current_term = old.current_term
    /\ old.role = "Dead" => new = old

RoleChanges == [][\A s \in Server : RoleChange(node[s], node'[s])]_vars

=============================================================================
