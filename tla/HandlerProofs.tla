---------------------------- MODULE HandlerProofs ----------------------------
(***************************************************************************)
(* What the handlers keep of a node, of the messages they send and of the  *)
(* history the leader writes, for every node and message: what the proofs  *)
(* about MiniRaft and about Pipeline have in common.                       *)
(***************************************************************************)
EXTENDS Handlers, LogOpsProofs, FiniteSetTheorems

-----------------------------------------------------------------------------
(* The operators on one node keep its type                                 *)

LEMMA EntryValue == \A e \in Entry : e.request.value \in Value \union {NoValue}
BY DEF Entry, Value

LEMMA LastIndexType ==
    ASSUME NEW E, NEW l \in Seq(E)
    PROVE  LastIndex(l) \in Index /\ (l # <<>> => LastIndex(l) \in Nat)
BY DEF LastIndex, Index

LEMMA InitialNodeType == InitialNode \in NodeState
BY DEF InitialNode, NodeState, Index

LEMMA PanickedType ==
    ASSUME NEW n \in NodeState
    PROVE  Panicked(n) \in NodeState
BY DEF Panicked, NodeState

LEMMA BecomeFollowerType ==
    ASSUME NEW n \in NodeState, NEW term \in Nat
    PROVE  BecomeFollower(n, term) \in NodeState
BY DEF BecomeFollower, NodeState, InitialNode, Index

LEMMA BecomeCandidateType ==
    ASSUME NEW s \in Server, NEW n \in NodeState
    PROVE  BecomeCandidate(s, n) \in NodeState
<1>1. n.current_term \in Nat /\ n.current_term + 1 \in Nat
  BY DEF NodeState
<1> QED
  BY <1>1 DEF BecomeCandidate, NodeState

LEMMA BecomeLeaderType ==
    ASSUME NEW n \in NodeState
    PROVE  BecomeLeader(n) \in NodeState
<1>1. (IF n.last_applied < 0 THEN 0 ELSE n.last_applied + 1) \in Nat
  BY DEF NodeState, Index
<1> QED
  BY <1>1 DEF BecomeLeader, NodeState, Index

LEMMA ApplyType ==
    ASSUME NEW n \in NodeState, NEW leader_commit \in Index
    PROVE  ApplyLatestCommitedLogs(n, leader_commit) \in NodeState
<1> DEFINE commit == IF leader_commit > n.commit_index /\ n.log # <<>>
                     THEN Min({leader_commit, LastIndex(n.log)})
                     ELSE n.commit_index
           applied == Max({n.last_applied, Min({commit, LastIndex(n.log)})})
           store == Replay(n.store, n.log, n.last_applied + 1, applied)
<1>1. /\ n.log \in Seq(Entry) /\ n.commit_index \in Index
      /\ n.last_applied \in Index /\ n.store \in [Key -> Value \union {NoValue}]
  BY DEF NodeState
<1>2. LastIndex(n.log) \in Index
  BY <1>1, LastIndexType
<1>3. commit \in Index
  <2>1. /\ leader_commit \in Int
        /\ LastIndex(n.log) \in Int
    BY <1>2 DEF Index
  <2>2. Min({leader_commit, LastIndex(n.log)}) \in {leader_commit, LastIndex(n.log)}
    BY <2>1, MinOfPair
  <2> QED
    BY <1>1, <1>2, <2>2
<1>4. Min({commit, LastIndex(n.log)}) \in Index
      /\ Min({commit, LastIndex(n.log)}) <= LastIndex(n.log)
  <2> HIDE DEF commit
  <2>1. commit \in Int /\ LastIndex(n.log) \in Int
    BY <1>2, <1>3 DEF Index
  <2> QED
    BY <1>2, <1>3, <2>1, MinOfPair
<1>5. applied \in Index /\ (applied = n.last_applied \/ applied <= LastIndex(n.log))
  <2> DEFINE m == Min({commit, LastIndex(n.log)})
  <2> HIDE DEF m
  <2>1. m \in Index /\ m <= LastIndex(n.log)
    BY <1>4 DEF m
  <2>2. m \in Int /\ n.last_applied \in Int
    BY <1>1, <2>1 DEF Index
  <2>3. Max({n.last_applied, m}) \in {n.last_applied, m}
    BY <2>2, MinOfPair
  <2> QED
    BY <1>1, <2>1, <2>3 DEF m
<1>6. store \in [Key -> Value \union {NoValue}]
  <2> HIDE DEF commit, applied
  <2>1. n.last_applied + 1 \in Nat /\ applied \in Int
    BY <1>1, <1>5 DEF Index
  <2>2. CASE applied = n.last_applied
    <3>1. (n.last_applied + 1) .. applied = {}
      BY <2>1, <2>2
    <3>2. \A k \in Key : store[k] = n.store[k]
      BY <1>1, <3>1 DEF Replay
    <3>3. store = [k \in Key |-> store[k]]
      BY <1>1 DEF Replay
    <3> QED
      BY <1>1, <3>2, <3>3
  <2>3. CASE applied <= LastIndex(n.log)
    BY <1>1, <2>1, <2>3, EntryValue, ReplayType
  <2> QED
    BY <1>5, <2>2, <2>3
<1>7. ApplyLatestCommitedLogs(n, leader_commit)
        = [n EXCEPT !.commit_index = commit, !.last_applied = applied,
                    !.store = store]
  BY DEF ApplyLatestCommitedLogs
<1> HIDE DEF commit, applied, store
<1> QED
  BY <1>3, <1>5, <1>6, <1>7 DEF NodeState

LEMMA ResumeType ==
    ASSUME NEW n \in NodeState
    PROVE  Resume(n) \in NodeState
BY ApplyType DEF Resume, NodeState

LEMMA CountedType ==
    ASSUME NEW n \in NodeState
    PROVE  Counted(n) \in NodeState
<1>1. n.votes_received \in Nat /\ n.votes_received + 1 \in Nat
  BY DEF NodeState
<1> QED
  BY <1>1 DEF Counted, NodeState

LEMMA TakeOfficeType ==
    ASSUME NEW n \in NodeState
    PROVE  TakeOffice(n) \in NodeState
<1>1. ApplyLatestCommitedLogs(n, n.commit_index) \in NodeState
  BY ApplyType DEF NodeState
<1> QED
  BY <1>1, BecomeLeaderType DEF TakeOffice

LEMMA AcknowledgedType ==
    ASSUME NEW n \in NodeState, NEW src \in Server
    PROVE  Acknowledged(n, src) \in NodeState
<1> DEFINE match == [n.match_index EXCEPT ![src] = n.last_sent_index[src]]
           next == [n.next_index EXCEPT ![src] = n.last_sent_index[src] + 1]
<1>1. n.last_sent_index[src] \in Nat /\ n.last_sent_index[src] + 1 \in Nat
  BY DEF NodeState
<1>2. match \in [Server -> Index] /\ next \in [Server -> Nat]
  BY <1>1 DEF NodeState, Index
<1>3. Acknowledged(n, src) = [n EXCEPT !.match_index = match, !.next_index = next]
  BY DEF Acknowledged, NodeState
<1> HIDE DEF match, next
<1> QED
  BY <1>2, <1>3 DEF NodeState

LEMMA BackedOffType ==
    ASSUME NEW n \in NodeState, NEW src \in Server
    PROVE  BackedOff(n, src) \in NodeState
<1>1. n.next_index[src] - 1 \in Int /\ 0 \in Int
  BY DEF NodeState
<1>2. Max({n.next_index[src] - 1, 0}) \in Nat
  <2> DEFINE a == n.next_index[src] - 1
  <2>1. a \in Int
    BY <1>1
  <2> HIDE DEF a
  <2>2. Max({a, 0}) = IF a >= 0 THEN a ELSE 0
    BY <2>1, MinOfPair
  <2>3. Max({a, 0}) \in Nat
    BY <2>1, <2>2
  <2> QED
    BY <2>3 DEF a
<1> QED
  BY <1>2 DEF BackedOff, NodeState

LEMMA CommittableRange ==
    ASSUME NEW n \in NodeState, Committable(n) # {}
    PROVE  Min(Committable(n)) \in Nat /\ Min(Committable(n)) \in 0 .. LastIndex(n.log)
<1>1. n.commit_index \in Index /\ LastIndex(n.log) \in Int
  BY DEF NodeState, LastIndex
<1>2. Committable(n) \in SUBSET Nat
  BY <1>1 DEF Committable, Index
<1>3. Committable(n) \subseteq 0 .. LastIndex(n.log)
  BY <1>1 DEF Committable, Index
<1>4. Min(Committable(n)) \in Committable(n)
  BY <1>2, MinOfNats
<1> QED
  BY <1>2, <1>3, <1>4

LEMMA AdvanceCommitType ==
    ASSUME NEW n \in NodeState
    PROVE  AdvanceCommit(n) \in NodeState
<1>1. CASE Committable(n) = {}
  BY <1>1 DEF AdvanceCommit
<1>2. CASE Committable(n) # {}
  <2>1. Min(Committable(n)) \in Index
    BY <1>2, CommittableRange DEF Index
  <2> QED
    BY <1>2, <2>1 DEF AdvanceCommit, NodeState
<1> QED
  BY <1>1, <1>2

LEMMA ApplyOwnType ==
    ASSUME NEW s \in Server, NEW n \in NodeState
    PROVE  ApplyOwn(s, n) \in NodeState
<1> DEFINE a == ApplyLatestCommitedLogs(n, n.commit_index)
           match == [a.match_index EXCEPT ![s] = n.commit_index]
<1>1. n.commit_index \in Index
  BY DEF NodeState
<1>2. a \in NodeState
  BY <1>1, ApplyType
<1>3. match \in [Server -> Index]
  <2> HIDE DEF a
  <2> QED BY <1>1, <1>2 DEF NodeState
<1>4. ApplyOwn(s, n)
        = [a EXCEPT !.last_applied = n.commit_index, !.match_index = match]
  <2>1. ApplyOwn(s, n) = [a EXCEPT !.last_applied = n.commit_index,
                                   !.match_index[s] = n.commit_index]
    BY DEF ApplyOwn
  <2> HIDE DEF a
  <2> QED BY <1>2, <2>1 DEF NodeState
<1> HIDE DEF a, match
<1> QED
  BY <1>1, <1>2, <1>3, <1>4 DEF NodeState

-----------------------------------------------------------------------------
(* The messages a node sends are typed, and what it makes of one           *)

LEMMA LogEnd ==
    ASSUME NEW n \in NodeState
    PROVE  /\ n.log \in Seq(Entry)
           /\ LastLogTerm(n.log) \in Nat
           /\ LastIndex(n.log) \in Index
           /\ n.log # <<>> => LastIndex(n.log) \in Nat
<1>1. n.log \in Seq(Entry)
  BY DEF NodeState
<1>2. CASE n.log = <<>>
  BY <1>1, <1>2, LastIndexType DEF LastLogTerm
<1>3. CASE n.log # <<>>
  <2>1. At(n.log, LastIndex(n.log)) \in Entry
    BY <1>1, <1>3, AtType, LastIndexType DEF LastIndex
  <2> QED
    BY <1>1, <1>3, <2>1, LastIndexType DEF LastLogTerm, Entry
<1> QED
  BY <1>2, <1>3

LEMMA RequestVoteType ==
    ASSUME NEW s \in Server, NEW n \in NodeState
    PROVE  RequestVote(s, n) \in Message
<1>1. (IF n.log = <<>> THEN 0 ELSE LastIndex(n.log)) \in Nat
  BY LogEnd
<1>2. n.current_term \in Nat
  BY DEF NodeState
<1> QED
  BY <1>1, <1>2, LogEnd DEF RequestVote, Message

LEMMA ResponseTypes ==
    ASSUME NEW n \in NodeState, NEW b \in BOOLEAN
    PROVE  RequestVoteResponse(n, b) \in Message
           /\ AppendEntriesResponse(n, b) \in Message
<1>1. n.current_term \in Nat
  BY DEF NodeState
<1> QED
  BY <1>1 DEF RequestVoteResponse, AppendEntriesResponse, Message

LEMMA AppendEntriesType ==
    ASSUME NEW n \in NodeState, NEW i \in Index, NEW t \in Nat,
           NEW es \in Seq(Entry)
    PROVE  AppendEntries(n, i, t, es) \in Message
<1>1. n.current_term \in Nat /\ n.commit_index \in Index
  BY DEF NodeState
<1> QED
  BY <1>1 DEF AppendEntries, Message

LEMMA HeartbeatType ==
    ASSUME NEW n \in NodeState
    PROVE  Heartbeat(n) \in Message
<1>1. <<>> \in Seq(Entry)
  OBVIOUS
<1> QED
  BY <1>1, LogEnd, AppendEntriesType DEF Heartbeat

LEMMA RetryType ==
    ASSUME NEW n \in NodeState, NEW src \in Server,
           Has(n.log, n.next_index[src])
    PROVE  Retry(n, src) \in Message
<1> DEFINE i == n.next_index[src]
<1>1. n.log \in Seq(Entry) /\ i \in Nat /\ i \in 0 .. LastIndex(n.log)
  BY DEF NodeState, Has
<1>2. At(n.log, i) \in Entry
  BY <1>1, AtType
<1>3. At(n.log, i).term \in Nat
  BY <1>2 DEF Entry
<1>4. SubSeq(n.log, i + 1, Len(n.log)) \in Seq(Entry)
  BY <1>1
<1> QED
  BY <1>1, <1>3, <1>4, AppendEntriesType DEF Retry, Index

LEMMA AnnouncementType ==
    ASSUME NEW n \in NodeState, NEW peer \in Server, n.log # <<>>,
           Announceable(n, peer)
    PROVE  Announcement(n, peer) \in Message
<1> DEFINE prev == n.next_index[peer] - 1
           t == IF prev = -1 THEN 0 ELSE At(n.log, prev).term
<1>1. n.log \in Seq(Entry) /\ n.next_index[peer] \in Nat
      /\ n.next_index[peer] <= Len(n.log)
  BY DEF NodeState, Announceable
<1>2. prev \in Index /\ (prev = -1 \/ prev \in 0 .. LastIndex(n.log))
  BY <1>1 DEF Index, LastIndex
<1>3. t \in Nat
  <2>1. CASE prev = -1
    BY <2>1
  <2>2. CASE prev \in 0 .. LastIndex(n.log)
    <3> HIDE DEF prev
    <3>1. At(n.log, prev) \in Entry
      BY <1>1, <2>2, AtType
    <3> QED
      BY <3>1 DEF Entry
  <2> QED
    BY <1>2, <2>1, <2>2
<1>4. At(n.log, LastIndex(n.log)) \in Entry
  BY <1>1, LogEnd, AtType DEF LastIndex
<1>5. <<At(n.log, LastIndex(n.log))>> \in Seq(Entry)
  BY <1>4
<1>6. Announcement(n, peer)
        = AppendEntries(n, prev, t, <<At(n.log, LastIndex(n.log))>>)
  BY DEF Announcement
<1> HIDE DEF prev, t
<1> QED
  BY <1>2, <1>3, <1>5, <1>6, AppendEntriesType

LEMMA MessageFields ==
    ASSUME NEW m \in Message
    PROVE  /\ m.term \in Nat
           /\ m.kind = "AppendEntries" =>
                /\ m.prev_log_index \in Index /\ m.prev_log_term \in Nat
                /\ m.entries \in Seq(Entry) /\ m.leader_commit \in Index
           /\ m.kind = "RequestVote" => m.candidate_id \in Server
BY DEF Message

LEMMA ObserveType ==
    ASSUME NEW n \in NodeState, NEW m \in Message, m.kind = "AppendEntries"
    PROVE  Observe(n, m) \in NodeState
<1>1. [n EXCEPT !.current_term = m.term] \in NodeState
  BY MessageFields DEF NodeState
<1> QED
  BY <1>1, MessageFields, ApplyType DEF Observe

\* Observing a message leaves the log alone.
LEMMA ObserveLog ==
    ASSUME NEW n \in NodeState, NEW m
    PROVE  Observe(n, m).log = n.log
BY DEF Observe, ApplyLatestCommitedLogs, NodeState

LEMMA StoreType ==
    ASSUME NEW n \in NodeState, NEW m \in Message, m.kind = "AppendEntries",
           m.entries # <<>>, ~ LeavesGap(n.log, m.entries)
    PROVE  Store(n, m) \in NodeState
<1> DEFINE last == m.entries[Len(m.entries)].index
           commit == IF m.leader_commit > n.commit_index
                     THEN Min({m.leader_commit, last}) ELSE n.commit_index
           log == AppendNewEntries(n.log, m.entries)
<1>1. /\ n.commit_index \in Index /\ n.log \in Seq(Entry)
      /\ m.leader_commit \in Index /\ m.entries \in Seq(Entry)
  BY MessageFields DEF NodeState
<1>2. last \in Nat
  <2>1. m.entries[Len(m.entries)] \in Entry
    BY <1>1
  <2> QED BY <2>1 DEF Entry
<1>3. Min({m.leader_commit, last}) \in Index
  <2> HIDE DEF last
  <2>1. m.leader_commit \in Int /\ last \in Int /\ last \in Index
    BY <1>1, <1>2 DEF Index
  <2>2. Min({m.leader_commit, last}) \in {m.leader_commit, last}
    BY <2>1, MinOfPair
  <2> QED
    BY <1>1, <2>1, <2>2
<1>4. commit \in Index
  BY <1>1, <1>3
<1>5. log \in Seq(Entry)
  <2>1. \A e \in Entry : e.index \in Nat
    BY DEF Entry
  <2> QED
    BY <1>1, <2>1, AppendNewEntriesType
<1>6. Store(n, m) = [n EXCEPT !.log = log, !.commit_index = commit]
  BY DEF Store, NodeState
<1> HIDE DEF commit, log
<1> QED
  BY <1>4, <1>5, <1>6 DEF NodeState

-----------------------------------------------------------------------------
(* The operators that leave the office of a node alone                     *)

\* The part of a node that elections are about.
Office(n) == <<n.role, n.voted_for, n.current_term>>

LEMMA ApplyOffice ==
    ASSUME NEW n \in NodeState, NEW c
    PROVE  Office(ApplyLatestCommitedLogs(n, c)) = Office(n)
BY DEF Office, ApplyLatestCommitedLogs, NodeState

LEMMA ResumeOffice ==
    ASSUME NEW n \in NodeState
    PROVE  Office(Resume(n)) = Office(n)
BY ApplyOffice DEF Resume

LEMMA LeaderUpdatesOffice ==
    ASSUME NEW n \in NodeState, NEW p \in Server
    PROVE  /\ Office(Acknowledged(n, p)) = Office(n)
           /\ Office(BackedOff(n, p)) = Office(n)
           /\ Office(AdvanceCommit(n)) = Office(n)
           /\ Office(MarkSent(p, n)) = Office(n)
           /\ Office(Counted(n)) = Office(n)
           /\ \A log : Office([n EXCEPT !.log = log]) = Office(n)
<1>1. Office(Acknowledged(n, p)) = Office(n)
  BY DEF Office, Acknowledged, NodeState
<1>2. Office(BackedOff(n, p)) = Office(n)
  BY DEF Office, BackedOff, NodeState
<1>3. Office(AdvanceCommit(n)) = Office(n)
  BY DEF Office, AdvanceCommit, NodeState
<1>4. Office(MarkSent(p, n)) = Office(n)
  BY DEF Office, MarkSent, NodeState
<1>5. Office(Counted(n)) = Office(n)
  BY DEF Office, Counted, NodeState
<1>6. \A log : Office([n EXCEPT !.log = log]) = Office(n)
  BY DEF Office, NodeState
<1> QED
  BY <1>1, <1>2, <1>3, <1>4, <1>5, <1>6

LEMMA ApplyOwnOffice ==
    ASSUME NEW s \in Server, NEW n \in NodeState
    PROVE  Office(ApplyOwn(s, n)) = Office(n)
<1> DEFINE a == ApplyLatestCommitedLogs(n, n.commit_index)
<1>1. a \in NodeState /\ Office(a) = Office(n)
  BY ApplyType, ApplyOffice DEF NodeState
<1>2. ApplyOwn(s, n) = [a EXCEPT !.last_applied = n.commit_index,
                                 !.match_index[s] = n.commit_index]
  BY DEF ApplyOwn
<1> HIDE DEF a
<1> QED
  BY <1>1, <1>2 DEF Office, NodeState

LEMMA ObserveOffice ==
    ASSUME NEW n \in NodeState, NEW m \in Message
    PROVE  Office(Observe(n, m)) = <<n.role, n.voted_for, m.term>>
<1>1. [n EXCEPT !.current_term = m.term] \in NodeState
  BY MessageFields DEF NodeState
<1>2. Office([n EXCEPT !.current_term = m.term]) = <<n.role, n.voted_for, m.term>>
  BY DEF Office, NodeState
<1> QED
  BY <1>1, <1>2, ApplyOffice DEF Observe

LEMMA StoreOffice ==
    ASSUME NEW n \in NodeState, NEW m
    PROVE  Office(Store(n, m)) = Office(n)
BY DEF Office, Store, NodeState

LEMMA TakeOfficeOffice ==
    ASSUME NEW n \in NodeState
    PROVE  Office(TakeOffice(n)) = <<"Leader", n.voted_for, n.current_term>>
<1> DEFINE a == ApplyLatestCommitedLogs(n, n.commit_index)
<1>1. a \in NodeState /\ Office(a) = Office(n)
  BY ApplyType, ApplyOffice DEF NodeState
<1>2. TakeOffice(n) = BecomeLeader(a)
  BY DEF TakeOffice
<1> HIDE DEF a
<1>3. Office(BecomeLeader(a)) = <<"Leader", a.voted_for, a.current_term>>
  BY <1>1 DEF Office, BecomeLeader, NodeState
<1> QED
  BY <1>1, <1>2, <1>3 DEF Office

LEMMA BecomeFollowerOffice ==
    ASSUME NEW n \in NodeState, NEW term
    PROVE  Office(BecomeFollower(n, term)) = <<"Follower", None, term>>
BY DEF Office, BecomeFollower, NodeState

LEMMA PanickedOffice ==
    ASSUME NEW n \in NodeState
    PROVE  Office(Panicked(n)) = <<"Dead", n.voted_for, n.current_term>>
BY DEF Office, Panicked, NodeState

-----------------------------------------------------------------------------
(* Client requests                                                         *)

\* A visiting order has a peer at each of its positions.
LEMMA VisitingOrder ==
    ASSUME NEW s \in Server, NEW order \in SetToSeqs(Peers(s)),
           NEW k \in 0 .. Cardinality(Peers(s))
    PROVE  k \in Nat /\ \A i \in 1 .. k : order[i] \in Peers(s)
<1>1. IsFiniteSet(Peers(s))
  BY ServerAssumption, FS_Subset DEF Peers
<1>2. Cardinality(Peers(s)) \in Nat
  BY <1>1, FS_CardinalityType
<1>3. order \in [1 .. Cardinality(Peers(s)) -> Peers(s)]
  BY DEF SetToSeqs
<1> QED
  BY <1>2, <1>3

\* The log of a leader after push.
LEMMA PushType ==
    ASSUME NEW n \in NodeState, NEW r \in Request
    PROVE  /\ [n EXCEPT !.log = Append(@, NewEntry(n, r))] \in NodeState
           /\ [n EXCEPT !.log = Append(@, NewEntry(n, r))].log # <<>>
<1>1. n.log \in Seq(Entry) /\ n.current_term \in Nat
  BY DEF NodeState
<1>2. NewEntry(n, r) \in Entry
  BY <1>1 DEF NewEntry, Entry
<1>3. Append(n.log, NewEntry(n, r)) \in Seq(Entry)
      /\ Append(n.log, NewEntry(n, r)) # <<>>
  BY <1>1, <1>2
<1>4. [n EXCEPT !.log = Append(@, NewEntry(n, r))].log
        = Append(n.log, NewEntry(n, r))
  BY DEF NodeState
<1> QED
  BY <1>3, <1>4 DEF NodeState

LEMMA MarkSentType ==
    ASSUME NEW s \in Server, NEW n \in NodeState, n.log # <<>>
    PROVE  MarkSent(s, n) \in NodeState
<1> DEFINE sent == [p \in Server |-> IF p \in Peers(s) THEN LastIndex(n.log)
                                     ELSE n.last_sent_index[p]]
<1>1. LastIndex(n.log) \in Nat /\ n.last_sent_index \in [Server -> Nat]
  BY LogEnd DEF NodeState
<1>2. sent \in [Server -> Nat]
  BY <1>1
<1>3. MarkSent(s, n) = [n EXCEPT !.last_sent_index = sent]
  BY DEF MarkSent, NodeState
<1> HIDE DEF sent
<1> QED
  BY <1>2, <1>3 DEF NodeState

-----------------------------------------------------------------------------
(* One history: what is sound of nodes and messages under one leader       *)

Prefix(l, k) == Len(l) <= Len(k) /\ \A i \in 1 .. Len(l) : l[i] = k[i]

\* Each of es stands in l at the position it carries, one after the other.
Excerpt(es, l) ==
    \A i \in 1 .. Len(es) : /\ es[i].index = es[1].index + i - 1
                            /\ Has(l, es[i].index) /\ es[i] = At(l, es[i].index)

\* The index of the last of es.
Newest(es) == es[Len(es)].index

\* A node has committed entries it holds, applied entries it has committed,
\* and its store is what they produce.
Consistent(n) ==
    /\ n.commit_index < Len(n.log)
    /\ n.last_applied <= n.commit_index
    /\ n.store = Replay(InitialNode.store, n.log, 0, n.last_applied)

\* next_index and last_sent_index, which decide what the leader looks up with
\* log[..], stay within its log.
IndicesInside(c) ==
    \A p \in Server :
        /\ c.next_index[p] <= Len(c.log)
        /\ c.last_sent_index[p] = 0 \/ c.last_sent_index[p] < Len(c.log)

\* The leader's log is written in one term; it is empty before the election.
ChiefSound(c) ==
    /\ c.role \in {"Follower", "Candidate", "Leader"}
    /\ c.role # "Leader" => c.log = <<>>
    /\ c.role # "Follower" => c.current_term >= 1
    /\ \A i \in 1 .. Len(c.log) : /\ c.log[i].index = i - 1
                                  /\ c.log[i].term = c.current_term
    /\ Consistent(c) /\ IndicesInside(c)

\* Any other node is behind the leader in every respect.
FollowerSound(n, c) ==
    /\ n.role \in {"Follower", "Dead"}
    /\ n.current_term <= c.current_term
    /\ Prefix(n.log, c.log)
    /\ n.commit_index <= c.commit_index
    /\ Consistent(n)

\* A message of a node whose log is l: what it says of the leader c holds, and
\* entries reach up to the end of the leader's log and so beyond its
\* commit_index; a response to entries comes from a node that has some.
Truthful(m, l, c) ==
    /\ c.role # "Follower" /\ m.term <= c.current_term
    /\ m.kind = "AppendEntries" =>
          /\ m.term = c.current_term /\ m.leader_commit <= c.commit_index
          /\ Excerpt(m.entries, c.log)
          /\ m.entries # <<>> => m.leader_commit <= Newest(m.entries)
    /\ m.kind = "AppendEntriesResponse" => l # <<>>

HasApplied(c, a) ==
    \E i \in 0 .. c.last_applied :
        /\ i <= c.commit_index
        /\ a = <<At(c.log, i).request.client, At(c.log, i).request.id>>

-----------------------------------------------------------------------------
(* What the operators on one node do to what it has committed and applied  *)

\* n.k stays what it is in every field but those of the log and the store.
SameOffice(n, k) ==
    /\ k.role = n.role /\ k.current_term = n.current_term
    /\ k.next_index = n.next_index /\ k.last_sent_index = n.last_sent_index

\* apply_latest_commited_logs catches up with what it commits, within the log.
LEMMA ApplyAdvances ==
    ASSUME NEW n \in NodeState, NEW c \in Index, Consistent(n)
    PROVE  LET k == ApplyLatestCommitedLogs(n, c)
           IN  /\ k \in NodeState /\ k.log = n.log /\ SameOffice(n, k)
               /\ Consistent(k) /\ k.last_applied = k.commit_index
               /\ k.commit_index >= n.commit_index
               /\ k.last_applied >= n.last_applied
               /\ k.commit_index = n.commit_index \/ k.commit_index <= c
<1> DEFINE last == LastIndex(n.log)
           commit == IF c > n.commit_index /\ n.log # <<>>
                     THEN Min({c, last}) ELSE n.commit_index
           applied == Max({n.last_applied, Min({commit, last})})
           k == ApplyLatestCommitedLogs(n, c)
<1>1. /\ n.log \in Seq(Entry) /\ Len(n.log) \in Nat /\ last = Len(n.log) - 1
      /\ n.commit_index \in Int /\ n.last_applied \in Int /\ -1 <= n.last_applied
      /\ c \in Int /\ last \in Int
  BY DEF NodeState, Index, LastIndex
<1>2. /\ k.commit_index = commit /\ k.last_applied = applied /\ k.log = n.log
      /\ k.store = Replay(n.store, n.log, n.last_applied + 1, applied)
      /\ SameOffice(n, k)
  BY DEF ApplyLatestCommitedLogs, NodeState, SameOffice
<1>3. k \in NodeState
  BY ApplyType
<1>4. /\ n.commit_index <= last /\ n.last_applied <= n.commit_index
      /\ n.store = Replay(InitialNode.store, n.log, 0, n.last_applied)
  BY <1>1 DEF Consistent
<1> HIDE DEF k, last
<1>5. /\ commit \in Int /\ n.commit_index <= commit /\ commit <= last
      /\ commit = n.commit_index \/ commit <= c
  <2>1. Min({c, last}) = IF c <= last THEN c ELSE last
    BY <1>1, MinOfPair
  <2> QED
    BY <1>1, <1>4, <2>1
<1> HIDE DEF commit
<1>6. Min({commit, last}) = commit
  BY <1>1, <1>5, MinOfPair
<1>7. applied = commit
  <2>1. Max({n.last_applied, commit})
          = IF n.last_applied >= commit THEN n.last_applied ELSE commit
    BY <1>1, <1>5, MinOfPair
  <2>2. applied = Max({n.last_applied, commit})
    BY <1>6
  <2>3. n.last_applied <= commit /\ n.last_applied \in Int /\ commit \in Int
    BY <1>1, <1>4, <1>5
  <2> QED
    BY <2>1, <2>2, <2>3
<1> HIDE DEF applied
<1>8. k.store = Replay(InitialNode.store, n.log, 0, applied)
  BY <1>1, <1>2, <1>4, <1>5, <1>7, ReplayExtend
<1>9. Consistent(k)
  <2>1. commit < Len(n.log)
    BY <1>1, <1>5 DEF last
  <2> QED
    BY <1>2, <1>5, <1>7, <1>8, <2>1 DEF Consistent
<1>10. n.last_applied <= commit
  BY <1>1, <1>4, <1>5
<1> QED
  BY <1>1, <1>2, <1>3, <1>5, <1>7, <1>9, <1>10 DEF k

LEMMA ResumeAdvances ==
    ASSUME NEW n \in NodeState, Consistent(n)
    PROVE  LET k == Resume(n)
           IN  /\ k \in NodeState /\ k.log = n.log /\ SameOffice(n, k)
               /\ Consistent(k)
               /\ k.commit_index = n.commit_index
               /\ k.last_applied >= n.last_applied
<1>1. n.commit_index \in Index /\ n.last_applied \in Int /\ n.commit_index \in Int
  BY DEF NodeState, Index
<1>2. CASE n.role = "Follower"
  <2> DEFINE k == ApplyLatestCommitedLogs(n, n.commit_index)
  <2>1. /\ k \in NodeState /\ k.log = n.log /\ SameOffice(n, k)
        /\ Consistent(k)
        /\ k.commit_index >= n.commit_index
        /\ k.last_applied >= n.last_applied
        /\ k.commit_index = n.commit_index \/ k.commit_index <= n.commit_index
    BY <1>1, ApplyAdvances
  <2>2. k.commit_index \in Int
    BY <2>1 DEF NodeState, Index
  <2>3. Resume(n) = k
    BY <1>2 DEF Resume
  <2> HIDE DEF k
  <2> QED
    BY <1>1, <2>1, <2>2, <2>3
<1>3. CASE n.role # "Follower"
  BY <1>1, <1>3 DEF Resume, SameOffice
<1> QED
  BY <1>2, <1>3

-----------------------------------------------------------------------------
(* Logs that are prefixes of the leader's                                  *)

LEMMA PrefixFacts ==
    ASSUME NEW a \in Seq(Entry), NEW b \in Seq(Entry), NEW c \in Seq(Entry),
           Prefix(a, b), Prefix(b, c)
    PROVE  Prefix(a, c) /\ (a # <<>> => b # <<>>)
<1>1. Len(a) \in Nat /\ Len(b) \in Nat /\ Len(c) \in Nat
  OBVIOUS
<1>2. a # <<>> => b # <<>>
  BY <1>1 DEF Prefix
<1>3. \A i \in 1 .. Len(a) : i \in 1 .. Len(b)
  BY <1>1 DEF Prefix
<1> QED
  BY <1>1, <1>2, <1>3 DEF Prefix

\* What is applied of a log is applied of any log it is a prefix of.
LEMMA PrefixReplay ==
    ASSUME NEW l \in Seq(Entry), NEW k \in Seq(Entry), Prefix(l, k),
           NEW store, NEW last \in Int, last < Len(l)
    PROVE  Replay(store, l, 0, last) = Replay(store, k, 0, last)
<1>1. \A i \in 0 .. last : At(l, i) = At(k, i)
  <2> SUFFICES ASSUME NEW i \in 0 .. last PROVE At(l, i) = At(k, i)
    OBVIOUS
  <2>1. i + 1 \in 1 .. Len(l)
    OBVIOUS
  <2> QED
    BY <2>1 DEF At, Prefix
<1> QED
  BY <1>1, ReplaySame

\* Two prefixes of one log: the shorter is a prefix of the longer.
LEMMA PrefixesOfOne ==
    ASSUME NEW a \in Seq(Entry), NEW b \in Seq(Entry), NEW l \in Seq(Entry),
           Prefix(a, l), Prefix(b, l), Len(a) <= Len(b)
    PROVE  Prefix(a, b)
<1>1. \A i \in 1 .. Len(a) : i \in 1 .. Len(b)
  <2>1. Len(a) \in Nat /\ Len(b) \in Nat
    OBVIOUS
  <2> QED
    BY <2>1
<1> QED
  BY <1>1 DEF Prefix

LEMMA ExcerptExtended ==
    ASSUME NEW es \in Seq(Entry), NEW l \in Seq(Entry), NEW k \in Seq(Entry),
           Prefix(l, k), Excerpt(es, l)
    PROVE  Excerpt(es, k)
<1> SUFFICES ASSUME NEW i \in 1 .. Len(es)
             PROVE  Has(k, es[i].index) /\ es[i] = At(k, es[i].index)
  BY DEF Excerpt
<1>1. Has(l, es[i].index) /\ es[i] = At(l, es[i].index)
  BY DEF Excerpt
<1> DEFINE x == es[i].index
<1>2. x \in 0 .. Len(l) - 1 /\ Len(l) <= Len(k) /\ Len(l) \in Nat /\ Len(k) \in Nat
  BY <1>1 DEF Has, LastIndex, Prefix
<1> HIDE DEF x
<1>3. x \in 0 .. Len(k) - 1 /\ x + 1 \in 1 .. Len(l)
  BY <1>2
<1>4. l[x + 1] = k[x + 1]
  BY <1>3 DEF Prefix
<1> QED
  BY <1>1, <1>3, <1>4 DEF Has, LastIndex, At, x

\* What AppendNewEntries makes of a prefix and an excerpt of one log: a prefix
\* of it that is not shorter and holds the excerpt.
LEMMA AppendExcerpt ==
    ASSUME NEW l \in Seq(Entry), NEW es \in Seq(Entry), NEW whole \in Seq(Entry),
           Prefix(l, whole), Excerpt(es, whole), es # <<>>, ~ LeavesGap(l, es)
    PROVE  LET r == AppendNewEntries(l, es)
           IN  /\ r \in Seq(Entry) /\ Prefix(r, whole) /\ Prefix(l, r)
               /\ r # <<>> /\ es[Len(es)].index < Len(r)
<1> DEFINE r == AppendNewEntries(l, es)
           z == Len(es)
<1>1. \A e \in Entry : e.index \in Nat
  BY DEF Entry
<1>2. r \in Seq(Entry)
  BY <1>1, AppendNewEntriesType
<1>3. z \in 1 .. Len(es) /\ z \in Nat /\ Len(l) \in Nat /\ es[z] \in Entry
  OBVIOUS
<1>4. es[z].index = es[1].index + z - 1 /\ es[z].index \in Nat
      /\ es[1].index \in Nat
  <2>1. es[1] \in Entry
    OBVIOUS
  <2> QED
    BY <1>1, <1>3, <2>1 DEF Excerpt
<1>5. CASE NewPositions(l, es) = {}
  <2>1. r = l
    BY <1>5 DEF AppendNewEntries
  <2>2. Has(l, es[z].index)
    BY <1>3, <1>5 DEF NewPositions
  <2>3. es[z].index < Len(l) /\ l # <<>>
    BY <1>3, <2>2 DEF Has, LastIndex
  <2>4. Prefix(l, l)
    BY <1>3 DEF Prefix
  <2> QED
    BY <2>1, <2>3, <2>4
<1>6. CASE NewPositions(l, es) # {}
  <2> DEFINE j == Min(NewPositions(l, es))
             base == es[j].index
  <2>1. /\ j \in 1 .. Len(es) /\ base \in 0 .. Len(l)
        /\ Len(r) = base + (Len(es) - j + 1)
        /\ \A k \in 1 .. Len(r) :
              r[k] = IF k <= base THEN l[k] ELSE es[k - base + j - 1]
    BY <1>1, <1>6, AppendNewEntriesElements
  <2>2. j \in NewPositions(l, es)
    BY <1>6, FirstNewPosition
  <2> HIDE DEF j, r
  <2>3. base = es[1].index + j - 1 /\ Has(whole, base) /\ es[j] = At(whole, base)
    BY <2>1 DEF Excerpt
  <2>4. base = Len(l)
    <3>1. CASE Has(l, base)
      <4>1. base + 1 \in 1 .. Len(l)
        BY <1>3, <3>1 DEF Has, LastIndex
      <4>2. At(l, base) = At(whole, base)
        BY <4>1 DEF At, Prefix
      <4> QED
        BY <2>2, <2>3, <3>1, <4>2 DEF NewPositions
    <3>2. CASE ~ Has(l, base)
      BY <1>3, <2>1, <3>2 DEF Has, LastIndex
    <3> QED
      BY <3>1, <3>2
  <2>5. es[z].index = Len(r) - 1 /\ Len(r) \in Nat /\ Len(r) > Len(l)
    <3> DEFINE first == es[1].index
               last == es[z].index
    <3>1. /\ last = first + z - 1 /\ base = first + j - 1
          /\ first \in Nat /\ Len(r) = base + (z - j + 1) /\ base = Len(l)
          /\ j \in 1 .. z
      BY <1>4, <2>1, <2>3, <2>4
    <3> HIDE DEF first, last, base, z
    <3>2. last = Len(r) - 1 /\ Len(r) \in Nat /\ Len(r) > Len(l)
      BY <1>3, <3>1
    <3> QED
      BY <3>2 DEF last
  <2>6. ASSUME NEW k \in 1 .. Len(r)
        PROVE  r[k] = whole[k] /\ (k <= Len(l) => r[k] = l[k])
    <3>1. CASE k <= base
      <4>1. k \in 1 .. Len(l) /\ r[k] = l[k]
        BY <1>3, <2>1, <2>4, <3>1
      <4> QED
        BY <4>1 DEF Prefix
    <3>2. CASE k > base
      <4> DEFINE h == k - base + j - 1
                 first == es[1].index
      <4>1. h \in 1 .. Len(es) /\ r[k] = es[h]
        BY <2>1, <3>2
      <4>2. es[h].index = first + h - 1 /\ es[h] = At(whole, es[h].index)
        BY <4>1 DEF Excerpt
      <4>3. first + h - 1 = k - 1
        <5>1. base = first + j - 1 /\ first \in Nat /\ j \in Nat /\ base \in Nat
          BY <1>4, <2>1, <2>3
        <5> HIDE DEF first, base
        <5> QED
          BY <5>1
      <4>4. r[k] = whole[(k - 1) + 1]
        BY <4>1, <4>2, <4>3 DEF At
      <4> QED
        BY <2>4, <3>2, <4>4, <1>3
    <3> QED
      BY <2>1, <3>1, <3>2
  <2>7. Len(r) <= Len(whole)
    <3>1. Has(whole, es[z].index) /\ Len(whole) \in Nat
      BY <1>3 DEF Excerpt
    <3> QED
      BY <2>5, <3>1 DEF Has, LastIndex
  <2>8. Prefix(r, whole) /\ Prefix(l, r)
    <3>1. \A i \in 1 .. Len(l) : i \in 1 .. Len(r) /\ i <= Len(l)
      BY <1>3, <2>5
    <3> QED
      BY <1>3, <2>5, <2>6, <2>7, <3>1 DEF Prefix
  <2>9. r # <<>> /\ es[z].index < Len(r)
    BY <1>3, <2>5
  <2> QED
    BY <1>2, <2>8, <2>9 DEF r
<1> QED
  BY <1>5, <1>6

-----------------------------------------------------------------------------
(* What moves forward                                                      *)

\* From c to n a node takes back nothing of its log, its commits and what it
\* has applied.
Forward(c, n) ==
    /\ Len(n.log) >= Len(c.log)
    /\ n.commit_index >= c.commit_index /\ n.last_applied >= c.last_applied

\* The leader also keeps what it has written, and its term once it has one.
ChiefForward(c, n) ==
    /\ Forward(c, n) /\ Prefix(c.log, n.log)
    /\ n.current_term >= c.current_term
    /\ c.role # "Follower" => /\ n.role # "Follower"
                              /\ n.current_term = c.current_term

\* The leader adds an entry for one command and applies nothing.
Pushes(c, n) ==
    /\ c.role = "Leader"
    /\ \E r \in Request : n.log = Append(c.log, NewEntry(c, r))
    /\ n.commit_index = c.commit_index /\ n.last_applied = c.last_applied
    /\ n.store = c.store

LEMMA NumbersOf ==
    ASSUME NEW n \in NodeState
    PROVE  /\ n.commit_index \in Int /\ n.last_applied \in Int
           /\ -1 <= n.last_applied /\ -1 <= n.commit_index
           /\ n.current_term \in Nat
           /\ n.log \in Seq(Entry) /\ Len(n.log) \in Nat
BY DEF NodeState, Index

\* What was sound of followers, messages and answers stays so when the leader
\* goes forward.
LEMMA ChiefForwardKeeps ==
    ASSUME NEW c \in NodeState, NEW n \in NodeState, ChiefForward(c, n),
           Consistent(c)
    PROVE  /\ \A f \in NodeState : FollowerSound(f, c) => FollowerSound(f, n)
           /\ \A m \in Message : \A l :
                 Truthful(m, l, c) => Truthful(m, l, n)
           /\ \A a : HasApplied(c, a) => HasApplied(n, a)
<1>1. /\ c.commit_index \in Int /\ n.commit_index \in Int
      /\ c.last_applied \in Int /\ n.last_applied \in Int
      /\ c.current_term \in Nat /\ n.current_term \in Nat
      /\ c.log \in Seq(Entry) /\ n.log \in Seq(Entry)
      /\ Len(c.log) \in Nat /\ Len(n.log) \in Nat
  BY NumbersOf
<1>2. /\ c.commit_index <= n.commit_index /\ c.last_applied <= n.last_applied
      /\ c.current_term <= n.current_term /\ Prefix(c.log, n.log)
  BY <1>1 DEF ChiefForward, Forward
<1>3. ASSUME NEW f \in NodeState, FollowerSound(f, c)
      PROVE  FollowerSound(f, n)
  <2>1. /\ f.commit_index \in Int /\ f.current_term \in Nat
        /\ f.log \in Seq(Entry)
    BY NumbersOf
  <2>2. Prefix(f.log, n.log)
    BY <1>1, <1>2, <1>3, <2>1, PrefixFacts DEF FollowerSound
  <2>3. f.commit_index <= c.commit_index /\ f.current_term <= c.current_term
    BY <1>3 DEF FollowerSound
  <2>4. f.commit_index <= n.commit_index /\ f.current_term <= n.current_term
    BY <1>1, <1>2, <2>1, <2>3
  <2> QED
    BY <1>3, <2>2, <2>4 DEF FollowerSound
<1>4. ASSUME NEW m \in Message, NEW l, Truthful(m, l, c)
      PROVE  Truthful(m, l, n)
  <2>1. c.role # "Follower" /\ m.term <= c.current_term
    BY <1>4 DEF Truthful
  <2>2. n.role # "Follower" /\ n.current_term = c.current_term
    BY <2>1 DEF ChiefForward
  <2>3. CASE m.kind = "AppendEntries"
    <3>1. m.entries \in Seq(Entry) /\ m.leader_commit \in Int
      BY <2>3, MessageFields DEF Index
    <3>2. /\ m.term = c.current_term /\ m.leader_commit <= c.commit_index
          /\ Excerpt(m.entries, c.log)
      BY <1>4, <2>3 DEF Truthful
    <3>3. Excerpt(m.entries, n.log)
      BY <1>1, <1>2, <3>1, <3>2, ExcerptExtended
    <3>4. m.leader_commit <= n.commit_index
      BY <1>1, <1>2, <3>1, <3>2
    <3> QED
      BY <1>4, <2>1, <2>2, <2>3, <3>2, <3>3, <3>4 DEF Truthful
  <2>4. CASE m.kind # "AppendEntries"
    BY <1>4, <2>1, <2>2, <2>4 DEF Truthful
  <2> QED
    BY <2>3, <2>4
<1>5. ASSUME NEW a, HasApplied(c, a)
      PROVE  HasApplied(n, a)
  <2>1. PICK i \in 0 .. c.last_applied :
          /\ i <= c.commit_index
          /\ a = <<At(c.log, i).request.client, At(c.log, i).request.id>>
    BY <1>5 DEF HasApplied
  <2>2. i + 1 \in 1 .. Len(c.log) /\ i \in 0 .. n.last_applied
        /\ i <= n.commit_index
    BY <1>1, <1>2, <2>1 DEF Consistent
  <2>3. At(n.log, i) = At(c.log, i)
    BY <1>2, <2>2 DEF At, Prefix
  <2> QED
    BY <2>1, <2>2, <2>3 DEF HasApplied
<1> QED
  BY <1>3, <1>4, <1>5

LEMMA SoundKept ==
    ASSUME NEW m, NEW l \in Seq(Entry), NEW k \in Seq(Entry), NEW c,
           Truthful(m, l, c), Len(k) >= Len(l)
    PROVE  Truthful(m, k, c)
<1>1. l # <<>> => k # <<>>
  OBVIOUS
<1> QED
  BY <1>1 DEF Truthful

LEMMA ForwardStays ==
    ASSUME NEW n \in NodeState, NEW k, k.log = n.log,
           k.commit_index = n.commit_index, k.last_applied = n.last_applied
    PROVE  Forward(n, k)
BY NumbersOf DEF Forward

LEMMA ChiefForwardStays ==
    ASSUME NEW n \in NodeState
    PROVE  ChiefForward(n, n)
BY NumbersOf DEF ChiefForward, Forward, Prefix

\* The leader's node after an update of neither its log nor its state machine.
LEMMA ChiefKept ==
    ASSUME NEW c \in NodeState, NEW n \in NodeState, ChiefSound(c),
           n.role = c.role, n.current_term = c.current_term, n.log = c.log,
           Consistent(n), IndicesInside(n)
    PROVE  ChiefSound(n)
BY DEF ChiefSound

-----------------------------------------------------------------------------
(* The handlers of a follower                                              *)

\* What a follower makes of the leader's message before it stores entries.
LEMMA ObserveFollows ==
    ASSUME NEW n \in NodeState, NEW c \in NodeState, NEW m \in Message,
           m.kind = "AppendEntries", FollowerSound(n, c),
           m.term = c.current_term, m.leader_commit <= c.commit_index
    PROVE  LET o == Observe(n, m)
           IN  /\ o \in NodeState /\ o.log = n.log
               /\ FollowerSound(o, c) /\ Forward(n, o)
<1> DEFINE b == [n EXCEPT !.current_term = m.term]
           o == ApplyLatestCommitedLogs(b, m.leader_commit)
<1>1. m.term \in Nat /\ m.leader_commit \in Index /\ m.leader_commit \in Int
  BY MessageFields DEF Index
<1>2. /\ b \in NodeState /\ b.log = n.log /\ b.role = n.role
      /\ b.current_term = m.term /\ b.commit_index = n.commit_index
      /\ b.last_applied = n.last_applied /\ b.store = n.store
  BY <1>1 DEF NodeState
<1> HIDE DEF b
<1>3. Consistent(b)
  BY <1>2 DEF FollowerSound, Consistent
<1>4. /\ o \in NodeState /\ o.log = b.log /\ SameOffice(b, o) /\ Consistent(o)
      /\ o.commit_index >= b.commit_index /\ o.last_applied >= b.last_applied
      /\ o.commit_index = b.commit_index \/ o.commit_index <= m.leader_commit
  BY <1>1, <1>2, <1>3, ApplyAdvances
<1> HIDE DEF o
<1>5. /\ o.commit_index \in Int /\ c.commit_index \in Int
      /\ c.current_term \in Nat /\ Len(n.log) \in Nat
  BY <1>4, NumbersOf
<1>6. FollowerSound(o, c)
  <2>1. o.commit_index <= c.commit_index
    BY <1>1, <1>2, <1>4, <1>5 DEF FollowerSound
  <2> QED
    BY <1>2, <1>4, <1>5, <2>1 DEF FollowerSound, SameOffice
<1>7. Forward(n, o)
  BY <1>2, <1>4, <1>5 DEF Forward
<1>8. Observe(n, m) = o
  BY DEF Observe, b, o
<1> QED
  BY <1>2, <1>4, <1>6, <1>7, <1>8

\* The log a follower stores is the leader's, as far as it goes.
LEMMA StoreFollows ==
    ASSUME NEW n \in NodeState, NEW c \in NodeState, NEW m \in Message,
           m.kind = "AppendEntries", FollowerSound(n, c),
           m.leader_commit <= c.commit_index, Excerpt(m.entries, c.log),
           m.entries # <<>>, m.leader_commit <= Newest(m.entries),
           ~ LeavesGap(n.log, m.entries)
    PROVE  LET k == Store(n, m)
           IN  /\ k \in NodeState /\ k.log # <<>>
               /\ FollowerSound(k, c) /\ Forward(n, k)
<1> DEFINE es == m.entries
           newest == Newest(es)
           k == Store(n, m)
           commit == IF m.leader_commit > n.commit_index
                     THEN Min({m.leader_commit, newest}) ELSE n.commit_index
           log == AppendNewEntries(n.log, es)
<1>1. /\ n.log \in Seq(Entry) /\ c.log \in Seq(Entry) /\ es \in Seq(Entry)
      /\ m.leader_commit \in Int /\ newest \in Nat
      /\ n.commit_index \in Int /\ c.commit_index \in Int
      /\ n.last_applied \in Int /\ m.leader_commit <= newest
  <2>1. es \in Seq(Entry) /\ es # <<>> /\ m.leader_commit \in Int
    BY MessageFields DEF Index
  <2>2. es[Len(es)] \in Entry
    BY <2>1
  <2> QED
    BY <2>1, <2>2, NumbersOf DEF Entry, Newest
<1>2. /\ k.log = log /\ k.commit_index = commit
      /\ k.last_applied = n.last_applied /\ k.store = n.store
      /\ k.role = n.role /\ k.current_term = n.current_term
  BY DEF Store, NodeState, Newest
<1>3. k \in NodeState
  BY StoreType
<1>4. /\ log \in Seq(Entry) /\ Prefix(log, c.log) /\ Prefix(n.log, log)
      /\ log # <<>> /\ newest < Len(log)
  BY <1>1, AppendExcerpt DEF FollowerSound, Newest
<1> HIDE DEF es, newest, k, log
<1>5. Len(log) \in Nat /\ Len(n.log) \in Nat /\ Len(n.log) <= Len(log)
  BY <1>1, <1>4 DEF Prefix
<1>6. /\ n.commit_index < Len(n.log) /\ n.last_applied <= n.commit_index
      /\ n.store = Replay(InitialNode.store, n.log, 0, n.last_applied)
      /\ n.commit_index <= c.commit_index
  BY DEF FollowerSound, Consistent
<1>7. /\ commit \in Int /\ n.commit_index <= commit /\ commit < Len(log)
      /\ commit <= c.commit_index
  <2>1. Min({m.leader_commit, newest})
          = IF m.leader_commit <= newest THEN m.leader_commit ELSE newest
    BY <1>1, MinOfPair
  <2>2. CASE m.leader_commit > n.commit_index
    BY <1>1, <1>4, <1>5, <2>1, <2>2
  <2>3. CASE ~ (m.leader_commit > n.commit_index)
    BY <1>1, <1>5, <1>6, <2>3
  <2> QED
    BY <2>2, <2>3
<1> HIDE DEF commit
<1>8. n.store = Replay(InitialNode.store, log, 0, n.last_applied)
  <2>1. n.last_applied < Len(n.log)
    BY <1>1, <1>5, <1>6
  <2> QED
    BY <1>1, <1>4, <1>6, <2>1, PrefixReplay
<1>9. Consistent(k)
  <2>1. n.last_applied <= commit
    BY <1>1, <1>6, <1>7
  <2> QED
    BY <1>2, <1>7, <1>8, <2>1 DEF Consistent
<1>10. FollowerSound(k, c)
  BY <1>2, <1>4, <1>7, <1>9 DEF FollowerSound
<1>11. Forward(n, k)
  BY <1>1, <1>2, <1>5, <1>7 DEF Forward
<1> QED
  BY <1>2, <1>3, <1>4, <1>10, <1>11 DEF k

-----------------------------------------------------------------------------
(* The handlers of the leader                                              *)

\* What the scan for a committable entry does to a leader's node.
LEMMA CommitAdvances ==
    ASSUME NEW n \in NodeState, ChiefSound(n)
    PROVE  LET k == AdvanceCommit(n)
           IN  /\ k \in NodeState /\ ChiefSound(k) /\ Forward(n, k)
               /\ k.log = n.log /\ k.role = n.role
               /\ k.current_term = n.current_term
<1> DEFINE k == AdvanceCommit(n)
           commit == IF Committable(n) = {} THEN n.commit_index
                     ELSE Min(Committable(n))
<1>1. /\ k \in NodeState /\ k.log = n.log /\ k.role = n.role
      /\ k.current_term = n.current_term /\ k.commit_index = commit
      /\ k.last_applied = n.last_applied /\ k.store = n.store
      /\ k.next_index = n.next_index /\ k.last_sent_index = n.last_sent_index
  BY AdvanceCommitType DEF AdvanceCommit, NodeState
<1>2. /\ n.commit_index \in Int /\ n.last_applied \in Int /\ Len(n.log) \in Nat
      /\ Consistent(n)
  BY NumbersOf DEF ChiefSound
<1>3. commit \in Int /\ n.commit_index <= commit /\ commit < Len(n.log)
  <2>1. CASE Committable(n) # {}
    <3>1. Committable(n) \subseteq Int
      BY DEF Committable
    <3>2. commit \in Committable(n)
      <4>1. Committable(n) \in SUBSET Nat
        BY <1>2 DEF Committable, NodeState, Index
      <4> QED
        BY <2>1, <4>1, MinOfNats
    <3> QED
      BY <1>2, <3>2 DEF Committable, LastIndex
  <2>2. CASE Committable(n) = {}
    BY <1>2, <2>2 DEF Consistent
  <2> QED
    BY <2>1, <2>2
<1> HIDE DEF k, commit
<1>4. Consistent(k)
  BY <1>1, <1>2, <1>3 DEF Consistent
<1>5. IndicesInside(k)
  BY <1>1 DEF ChiefSound, IndicesInside
<1>6. ChiefSound(k)
  BY <1>1, <1>4, <1>5, ChiefKept
<1>7. Forward(n, k)
  BY <1>1, <1>2, <1>3 DEF Forward
<1> QED
  BY <1>1, <1>6, <1>7 DEF k

\* The leader's estimate of a peer's log stays inside its own: it has a log
\* before a peer can have one to answer from.
LEMMA EstimatesInside ==
    ASSUME NEW n \in NodeState, ChiefSound(n), n.log # <<>>, NEW p \in Server
    PROVE  /\ Acknowledged(n, p) \in NodeState /\ ChiefSound(Acknowledged(n, p))
           /\ BackedOff(n, p) \in NodeState /\ ChiefSound(BackedOff(n, p))
           /\ Has(n.log, BackedOff(n, p).next_index[p])
<1> DEFINE a == Acknowledged(n, p)
           b == BackedOff(n, p)
           back == Max({n.next_index[p] - 1, 0})
<1>1. /\ n.log \in Seq(Entry) /\ Len(n.log) \in Nat /\ Len(n.log) > 0
      /\ n.next_index \in [Server -> Nat] /\ n.last_sent_index \in [Server -> Nat]
  <2>1. n.log \in Seq(Entry) /\ Len(n.log) \in Nat
    BY NumbersOf
  <2> QED
    BY <2>1 DEF NodeState
<1>2. IndicesInside(n) /\ Consistent(n)
  BY DEF ChiefSound
<1>3. /\ a \in NodeState /\ a.log = n.log /\ a.role = n.role
      /\ a.current_term = n.current_term /\ a.commit_index = n.commit_index
      /\ a.last_applied = n.last_applied /\ a.store = n.store
      /\ a.next_index = [n.next_index EXCEPT ![p] = n.last_sent_index[p] + 1]
      /\ a.last_sent_index = n.last_sent_index
  BY AcknowledgedType DEF Acknowledged, NodeState
<1>4. /\ b \in NodeState /\ b.log = n.log /\ b.role = n.role
      /\ b.current_term = n.current_term /\ b.commit_index = n.commit_index
      /\ b.last_applied = n.last_applied /\ b.store = n.store
      /\ b.next_index = [n.next_index EXCEPT ![p] = back]
      /\ b.last_sent_index = n.last_sent_index
  BY BackedOffType DEF BackedOff, NodeState
<1> HIDE DEF a, b
<1>5. back \in Nat /\ back < Len(n.log)
  <2> DEFINE next == n.next_index[p]
  <2>1. next \in Nat /\ next <= Len(n.log)
    BY <1>1, <1>2 DEF IndicesInside
  <2> HIDE DEF next
  <2>2. Max({next - 1, 0}) = IF next - 1 >= 0 THEN next - 1 ELSE 0
    <3>1. next - 1 \in Int /\ 0 \in Int
      BY <2>1
    <3> QED
      BY <3>1, MinOfPair
  <2>3. back = Max({next - 1, 0})
    BY DEF next
  <2> QED
    BY <1>1, <2>1, <2>2, <2>3
<1> HIDE DEF back
<1>6. IndicesInside(b)
  <2> SUFFICES ASSUME NEW q \in Server
               PROVE  /\ b.next_index[q] <= Len(n.log)
                      /\ \/ b.last_sent_index[q] = 0
                         \/ b.last_sent_index[q] < Len(n.log)
    BY <1>4 DEF IndicesInside
  <2>1. b.next_index[q] = IF q = p THEN back ELSE n.next_index[q]
    BY <1>1, <1>4
  <2> QED
    BY <1>1, <1>2, <1>4, <1>5, <2>1 DEF IndicesInside
<1>7. IndicesInside(a)
  <2> SUFFICES ASSUME NEW q \in Server
               PROVE  /\ a.next_index[q] <= Len(n.log)
                      /\ \/ a.last_sent_index[q] = 0
                         \/ a.last_sent_index[q] < Len(n.log)
    BY <1>3 DEF IndicesInside
  <2> DEFINE sent == n.last_sent_index[p]
  <2>1. a.next_index[q] = IF q = p THEN sent + 1 ELSE n.next_index[q]
    BY <1>1, <1>3
  <2>2. sent \in Nat /\ (sent = 0 \/ sent < Len(n.log))
    BY <1>1, <1>2 DEF IndicesInside
  <2> HIDE DEF sent
  <2>3. sent + 1 <= Len(n.log)
    BY <1>1, <2>2
  <2> QED
    BY <1>2, <1>3, <2>1, <2>3 DEF IndicesInside
<1>8. Consistent(a) /\ Consistent(b)
  BY <1>2, <1>3, <1>4 DEF Consistent
<1>9. ChiefSound(a) /\ ChiefSound(b)
  BY <1>3, <1>4, <1>6, <1>7, <1>8, ChiefKept
<1>10. Has(n.log, b.next_index[p])
  <2>1. b.next_index[p] = back
    BY <1>1, <1>4
  <2> QED
    BY <1>1, <1>5, <2>1 DEF Has, LastIndex
<1> QED
  BY <1>3, <1>4, <1>9, <1>10 DEF a, b

\* What the leader takes over when it commits and applies on a success.
LEMMA OwnApplied ==
    ASSUME NEW n \in NodeState, ChiefSound(n), NEW s \in Server,
           n.commit_index \in Nat
    PROVE  LET k == ApplyOwn(s, n)
           IN  /\ k \in NodeState /\ ChiefSound(k) /\ Forward(n, k)
               /\ k.log = n.log /\ k.role = n.role
               /\ k.current_term = n.current_term
               /\ HasApplied(k, ClientOf(n))
<1> DEFINE a == ApplyLatestCommitedLogs(n, n.commit_index)
           k == ApplyOwn(s, n)
<1>1. /\ n.commit_index \in Index /\ n.commit_index \in Int
      /\ n.last_applied \in Int /\ Len(n.log) \in Nat
  BY NumbersOf DEF NodeState
<1>2. /\ a \in NodeState /\ a.log = n.log /\ SameOffice(n, a) /\ Consistent(a)
      /\ a.last_applied = a.commit_index
      /\ a.commit_index >= n.commit_index /\ a.last_applied >= n.last_applied
      /\ a.commit_index = n.commit_index \/ a.commit_index <= n.commit_index
  BY <1>1, ApplyAdvances DEF ChiefSound
<1>3. a.commit_index = n.commit_index /\ a.last_applied = n.commit_index
  <2>1. a.commit_index \in Int
    BY <1>2, NumbersOf
  <2> QED
    BY <1>1, <1>2, <2>1
<1>4. k = [a EXCEPT !.last_applied = n.commit_index,
                    !.match_index[s] = n.commit_index]
  BY DEF ApplyOwn
<1> HIDE DEF a
<1>5. /\ k \in NodeState /\ k.log = n.log /\ SameOffice(n, k)
      /\ k.last_applied = n.commit_index /\ k.commit_index = n.commit_index
      /\ k.store = a.store
  <2>1. k \in NodeState
    BY ApplyOwnType
  <2> QED
    BY <1>2, <1>3, <1>4, <2>1 DEF NodeState, SameOffice
<1> HIDE DEF k
<1>6. Consistent(k) /\ IndicesInside(k)
  BY <1>1, <1>2, <1>3, <1>5
     DEF Consistent, ChiefSound, IndicesInside, SameOffice
<1>7. ChiefSound(k)
  BY <1>5, <1>6, ChiefKept DEF SameOffice
<1>8. Forward(n, k)
  BY <1>1, <1>2, <1>3, <1>5 DEF Forward
<1>9. HasApplied(k, ClientOf(n))
  <2>1. n.commit_index \in 0 .. k.last_applied /\ n.commit_index <= k.commit_index
    BY <1>1, <1>5
  <2> QED
    BY <1>5, <2>1 DEF HasApplied, ClientOf
<1> QED
  BY <1>5, <1>7, <1>8, <1>9 DEF k, SameOffice

\* A retry and a heartbeat tell what the leader has.
LEMMA ChiefMessages ==
    ASSUME NEW n \in NodeState, ChiefSound(n), n.role # "Follower", NEW l
    PROVE  /\ Truthful(Heartbeat(n), l, n)
           /\ \A s : Truthful(RequestVote(s, n), l, n)
           /\ \A p \in Server : Has(n.log, n.next_index[p])
                 => Truthful(Retry(n, p), l, n)
<1>1. n.current_term \in Nat /\ n.commit_index \in Int /\ n.log \in Seq(Entry)
  BY NumbersOf
<1>2. \A s : Truthful(RequestVote(s, n), l, n)
  BY <1>1 DEF Truthful, RequestVote
<1>3. Truthful(Heartbeat(n), l, n)
  <2>1. /\ Heartbeat(n).kind = "AppendEntries" /\ Heartbeat(n).entries = <<>>
        /\ Heartbeat(n).term = n.current_term
        /\ Heartbeat(n).leader_commit = n.commit_index
    BY DEF Heartbeat, AppendEntries
  <2>2. Excerpt(<<>>, n.log)
    BY DEF Excerpt
  <2> QED
    BY <1>1, <2>1, <2>2 DEF Truthful
<1>4. ASSUME NEW p \in Server, Has(n.log, n.next_index[p])
      PROVE  Truthful(Retry(n, p), l, n)
  <2> DEFINE i == n.next_index[p]
             es == SubSeq(n.log, i + 1, Len(n.log))
  <2>1. /\ Retry(n, p).kind = "AppendEntries" /\ Retry(n, p).entries = es
        /\ Retry(n, p).term = n.current_term
        /\ Retry(n, p).leader_commit = n.commit_index
    BY DEF Retry, AppendEntries
  <2>2. i \in Nat /\ i + 1 \in 1 .. Len(n.log) /\ Len(n.log) \in Nat
    BY <1>1, <1>4 DEF Has, LastIndex
  <2> HIDE DEF i
  <2>3. /\ Len(es) = Len(n.log) - i
        /\ \A h \in 1 .. Len(es) : h + i \in 1 .. Len(n.log) /\ es[h] = n.log[h + i]
    BY <1>1, <2>2
  <2> HIDE DEF es
  <2>4. \A h \in 1 .. Len(es) : es[h].index = (h + i) - 1
    BY <2>3 DEF ChiefSound
  <2>5. 1 \in 1 .. Len(es) /\ Len(es) \in 1 .. Len(es) /\ Len(es) \in Nat
    BY <2>2, <2>3
  <2>6. Excerpt(es, n.log)
    <3> SUFFICES ASSUME NEW h \in 1 .. Len(es)
                 PROVE  /\ es[h].index = es[1].index + h - 1
                        /\ Has(n.log, es[h].index)
                        /\ es[h] = At(n.log, es[h].index)
      BY DEF Excerpt
    <3>1. es[h].index = (h + i) - 1 /\ es[1].index = (1 + i) - 1
      BY <2>4, <2>5
    <3>2. h + i \in 1 .. Len(n.log) /\ es[h] = n.log[h + i] /\ h \in Nat
      BY <2>3, <2>5
    <3>3. ((h + i) - 1) + 1 = h + i /\ (h + i) - 1 \in 0 .. Len(n.log) - 1
          /\ (h + i) - 1 = ((1 + i) - 1) + h - 1
      BY <2>2, <3>2
    <3> QED
      BY <3>1, <3>2, <3>3 DEF Has, LastIndex, At
  <2>7. Newest(es) = Len(n.log) - 1
    <3>1. Newest(es) = (Len(es) + i) - 1
      BY <2>4, <2>5 DEF Newest
    <3> QED
      BY <2>2, <2>3, <3>1
  <2>8. n.commit_index <= Newest(es)
    BY <1>1, <2>2, <2>7 DEF ChiefSound, Consistent
  <2> QED
    BY <1>1, <2>1, <2>6, <2>8 DEF Truthful
<1> QED
  BY <1>2, <1>3, <1>4

\* The leader's node after push: what it has committed and applied stays.
LEMMA PushSound ==
    ASSUME NEW c \in NodeState, ChiefSound(c), c.role = "Leader",
           NEW r \in Request
    PROVE  LET n == [c EXCEPT !.log = Append(@, NewEntry(c, r))]
           IN  /\ n \in NodeState /\ ChiefSound(n) /\ ChiefForward(c, n)
               /\ Pushes(c, n) /\ n.role = "Leader" /\ n.log # <<>>
               /\ \A p \in Server : n.next_index[p] <= LastIndex(n.log)
               /\ LastIndex(n.log) \in Nat
<1> DEFINE e == NewEntry(c, r)
           log == Append(c.log, e)
           n == [c EXCEPT !.log = Append(@, e)]
<1>1. n \in NodeState /\ n.log # <<>>
  BY PushType
<1>2. /\ n.log = log /\ n.role = "Leader" /\ n.current_term = c.current_term
      /\ n.commit_index = c.commit_index /\ n.last_applied = c.last_applied
      /\ n.store = c.store /\ n.next_index = c.next_index
      /\ n.last_sent_index = c.last_sent_index
  BY DEF NodeState
<1>3. /\ c.log \in Seq(Entry) /\ Len(c.log) \in Nat /\ c.current_term \in Nat
      /\ c.commit_index \in Int /\ c.last_applied \in Int
  BY NumbersOf
<1>4. e \in Entry /\ e.term = c.current_term /\ e.index = Len(c.log)
  BY <1>3 DEF NewEntry, Entry
<1>5. e = [term |-> c.current_term, index |-> Len(c.log), request |-> r]
  BY DEF NewEntry
<1> HIDE DEF e, n
<1>6. /\ log \in Seq(Entry) /\ Len(log) = Len(c.log) + 1
      /\ \A i \in 1 .. Len(c.log) : log[i] = c.log[i]
      /\ log[Len(c.log) + 1] = e
  BY <1>3, <1>4
<1> HIDE DEF log
<1>7. Prefix(c.log, log)
  BY <1>3, <1>6 DEF Prefix
<1>8. Consistent(n)
  <2>1. /\ c.commit_index < Len(c.log) /\ c.last_applied <= c.commit_index
        /\ c.store = Replay(InitialNode.store, c.log, 0, c.last_applied)
    BY DEF ChiefSound, Consistent
  <2>2. c.last_applied < Len(c.log) /\ c.commit_index < Len(log)
    BY <1>3, <1>6, <2>1
  <2>3. c.store = Replay(InitialNode.store, log, 0, c.last_applied)
    BY <1>3, <1>6, <1>7, <2>1, <2>2, PrefixReplay
  <2> QED
    BY <1>2, <2>1, <2>2, <2>3 DEF Consistent
<1>9. /\ LastIndex(log) = Len(c.log)
      /\ \A p \in Server : /\ c.next_index[p] \in Nat
                           /\ c.last_sent_index[p] \in Nat
                           /\ c.next_index[p] <= Len(c.log)
                           /\ \/ c.last_sent_index[p] = 0
                              \/ c.last_sent_index[p] < Len(c.log)
  BY <1>3, <1>6 DEF LastIndex, ChiefSound, IndicesInside, NodeState
<1>10. IndicesInside(n)
  BY <1>2, <1>3, <1>6, <1>9 DEF IndicesInside
<1>11. ASSUME NEW i \in 1 .. Len(log)
       PROVE  log[i].index = i - 1 /\ log[i].term = c.current_term
  <2>1. CASE i \in 1 .. Len(c.log)
    BY <1>6, <2>1 DEF ChiefSound
  <2>2. CASE i = Len(c.log) + 1
    BY <1>3, <1>4, <1>6, <2>2
  <2> QED
    BY <1>3, <1>6, <2>1, <2>2
<1>12. ChiefSound(n)
  <2>1. c.current_term >= 1
    BY DEF ChiefSound
  <2> QED
    BY <1>2, <1>8, <1>10, <1>11, <2>1 DEF ChiefSound
<1>13. ChiefForward(c, n)
  BY <1>2, <1>3, <1>6, <1>7 DEF ChiefForward, Forward
<1>14. Pushes(c, n)
  BY <1>2 DEF Pushes, log, e
<1> QED
  BY <1>1, <1>2, <1>3, <1>9, <1>12, <1>13, <1>14 DEF n, e

LEMMA AnnouncementTells ==
    ASSUME NEW n \in NodeState, ChiefSound(n), n.role = "Leader", n.log # <<>>,
           NEW peer, NEW l
    PROVE  Truthful(Announcement(n, peer), l, n)
<1> DEFINE last == LastIndex(n.log)
           e == At(n.log, last)
           m == Announcement(n, peer)
<1>1. /\ m.kind = "AppendEntries" /\ m.entries = <<e>>
      /\ m.term = n.current_term /\ m.leader_commit = n.commit_index
  BY DEF Announcement, AppendEntries
<1> HIDE DEF m
<1>2. /\ n.log \in Seq(Entry) /\ Len(n.log) \in Nat /\ n.current_term \in Nat
      /\ n.commit_index \in Int
  BY NumbersOf
<1>3. /\ last + 1 \in 1 .. Len(n.log) /\ last = Len(n.log) - 1
      /\ last \in 0 .. Len(n.log) - 1 /\ e = n.log[last + 1]
  BY <1>2 DEF LastIndex, At
<1>4. e.index = (last + 1) - 1
  BY <1>3 DEF ChiefSound
<1> HIDE DEF e
<1>5. e.index = last
  BY <1>3, <1>4
<1>6. Len(<<e>>) = 1 /\ <<e>>[1] = e
  OBVIOUS
<1>7. Excerpt(<<e>>, n.log)
  <2> SUFFICES ASSUME NEW i \in 1 .. 1
               PROVE  /\ e.index = e.index + i - 1
                      /\ Has(n.log, e.index) /\ e = At(n.log, e.index)
    BY <1>6 DEF Excerpt
  <2> QED
    BY <1>3, <1>5 DEF Has, LastIndex, At
<1>8. Newest(<<e>>) = last
  BY <1>5, <1>6 DEF Newest
<1>9. n.commit_index <= last
  BY <1>2, <1>3 DEF ChiefSound, Consistent
<1> QED
  BY <1>1, <1>2, <1>7, <1>8, <1>9 DEF Truthful, m

LEMMA OrderVisits ==
    ASSUME NEW s \in Server, NEW order \in SetToSeqs(Peers(s))
    PROVE  /\ Len(order) \in Nat /\ Len(order) = Cardinality(Peers(s))
           /\ \A i \in 1 .. Len(order) : order[i] \in Peers(s)
<1>1. IsFiniteSet(Peers(s))
  BY ServerAssumption, FS_Subset DEF Peers
<1>2. Cardinality(Peers(s)) \in Nat
  BY <1>1, FS_CardinalityType
<1>3. order \in [1 .. Cardinality(Peers(s)) -> Peers(s)]
  BY DEF SetToSeqs
<1> QED
  BY <1>2, <1>3

-----------------------------------------------------------------------------
(* The leader from its start to its office                                 *)

LEMMA InitialSound ==
    ChiefSound(InitialNode) /\ FollowerSound(InitialNode, InitialNode)
<1> DEFINE n == InitialNode
<1>1. Len(<<>>) = 0 /\ 1 .. 0 = {}
  OBVIOUS
<1>2. /\ n.role = "Follower" /\ n.log = <<>> /\ n.current_term = 0
      /\ n.commit_index = -1 /\ n.last_applied = -1
      /\ n.next_index = [p \in Server |-> 0]
      /\ n.last_sent_index = [p \in Server |-> 0]
  BY DEF InitialNode
<1>3. n.store = Replay(n.store, <<>>, 0, -1)
  <2> DEFINE store == n.store
  <2>1. store \in [Key -> {NoValue}]
    BY DEF InitialNode
  <2> HIDE DEF store
  <2>2. \A first \in Int : \A l : Replay(store, l, first, first - 1) = store
    BY <2>1, ReplayNothing
  <2>3. 0 \in Int /\ 0 - 1 = -1
    OBVIOUS
  <2>4. \A l : Replay(store, l, 0, -1) = store
    BY <2>2, <2>3, Zenon
  <2> QED
    BY <2>4 DEF store
<1> HIDE DEF n
<1>4. Consistent(n)
  BY <1>1, <1>2, <1>3 DEF Consistent, n
<1>5. ChiefSound(n)
  BY <1>1, <1>2, <1>4 DEF ChiefSound, IndicesInside
<1>6. FollowerSound(n, n)
  BY <1>1, <1>2, <1>4 DEF FollowerSound, Prefix
<1> QED
  BY <1>5, <1>6 DEF n

LEMMA CandidateSound ==
    ASSUME NEW n \in NodeState, ChiefSound(n), n.role = "Follower",
           NEW s \in Server
    PROVE  LET k == BecomeCandidate(s, n)
           IN  /\ k \in NodeState /\ ChiefSound(k) /\ ChiefForward(n, k)
               /\ k.role = "Candidate" /\ k.log = n.log
               /\ k.current_term = n.current_term + 1
<1> DEFINE k == BecomeCandidate(s, n)
<1>1. /\ k \in NodeState /\ k.role = "Candidate" /\ k.log = n.log
      /\ k.current_term = n.current_term + 1
      /\ k.commit_index = n.commit_index /\ k.last_applied = n.last_applied
      /\ k.store = n.store /\ k.next_index = n.next_index
      /\ k.last_sent_index = n.last_sent_index
  BY BecomeCandidateType DEF BecomeCandidate, NodeState
<1> HIDE DEF k
<1>2. n.current_term \in Nat
  BY NumbersOf
<1>3. ChiefSound(k)
  <2>1. Consistent(k) /\ IndicesInside(k)
    BY <1>1 DEF ChiefSound, Consistent, IndicesInside
  <2>2. k.log = <<>> /\ Len(<<>>) = 0
    BY <1>1 DEF ChiefSound
  <2>3. k.current_term >= 1
    BY <1>1, <1>2
  <2> QED
    BY <1>1, <2>1, <2>2, <2>3 DEF ChiefSound
<1>4. ChiefForward(n, k)
  BY <1>1, <1>2, NumbersOf DEF ChiefForward, Forward, Prefix
<1> QED
  BY <1>1, <1>3, <1>4 DEF k

LEMMA CountedSound ==
    ASSUME NEW n \in NodeState, ChiefSound(n)
    PROVE  LET v == Counted(n)
           IN  /\ v \in NodeState /\ ChiefSound(v) /\ Forward(n, v)
               /\ v.log = n.log /\ v.role = n.role
               /\ v.current_term = n.current_term
               /\ v.commit_index = n.commit_index
               /\ v.last_applied = n.last_applied
<1> DEFINE v == Counted(n)
<1>1. /\ v \in NodeState /\ v.log = n.log /\ v.role = n.role
      /\ v.current_term = n.current_term /\ v.commit_index = n.commit_index
      /\ v.last_applied = n.last_applied /\ v.store = n.store
      /\ v.next_index = n.next_index /\ v.last_sent_index = n.last_sent_index
  BY CountedType DEF Counted, NodeState
<1> HIDE DEF v
<1>2. Consistent(v) /\ IndicesInside(v)
  BY <1>1 DEF ChiefSound, Consistent, IndicesInside
<1> QED
  BY <1>1, <1>2, ChiefKept, ForwardStays DEF v

\* A candidate takes office with an empty log and with indices to match.
LEMMA OfficeSound ==
    ASSUME NEW v \in NodeState, ChiefSound(v), v.role = "Candidate"
    PROVE  LET k == TakeOffice(v)
           IN  /\ k \in NodeState /\ ChiefSound(k) /\ Forward(v, k)
               /\ k.role = "Leader" /\ k.log = v.log
               /\ k.current_term = v.current_term
<1> DEFINE a == ApplyLatestCommitedLogs(v, v.commit_index)
           k == BecomeLeader(a)
<1>1. v.log = <<>> /\ v.commit_index \in Index
  BY DEF ChiefSound, NodeState
<1>2. /\ a \in NodeState /\ a.log = v.log /\ SameOffice(v, a)
      /\ Consistent(a) /\ a.last_applied = a.commit_index
      /\ a.commit_index >= v.commit_index /\ a.last_applied >= v.last_applied
  BY <1>1, ApplyAdvances DEF ChiefSound
<1>3. TakeOffice(v) = k
  BY DEF TakeOffice
<1> HIDE DEF a
<1>4. a.last_applied = -1 /\ a.commit_index = -1
  <2>1. Len(a.log) = 0 /\ a.commit_index \in Int /\ -1 <= a.commit_index
    BY <1>1, <1>2, NumbersOf
  <2> QED
    BY <1>2, <2>1 DEF Consistent
<1>5. /\ k \in NodeState /\ k.log = a.log /\ k.role = "Leader"
      /\ k.current_term = a.current_term /\ k.commit_index = a.commit_index
      /\ k.last_applied = a.last_applied /\ k.store = a.store
      /\ k.next_index = [p \in Server |-> 0]
      /\ k.last_sent_index = a.last_sent_index
  <2>1. a.last_applied < 0
    BY <1>4
  <2> QED
    BY <1>2, <2>1, BecomeLeaderType DEF BecomeLeader, NodeState
<1> HIDE DEF k
<1>6. ChiefSound(k)
  <2>1. Consistent(k)
    BY <1>2, <1>5 DEF Consistent
  <2>2. k.log = <<>> /\ Len(k.log) = 0
    BY <1>1, <1>2, <1>5
  <2>3. IndicesInside(k)
    BY <1>1, <1>2, <1>5, <2>2 DEF ChiefSound, IndicesInside, SameOffice
  <2>4. k.current_term >= 1
    BY <1>2, <1>5 DEF ChiefSound, SameOffice
  <2> QED
    BY <1>5, <2>1, <2>2, <2>3, <2>4 DEF ChiefSound
<1>7. Forward(v, k) /\ k.log = v.log /\ k.current_term = v.current_term
  <2>1. /\ v.commit_index \in Int /\ v.last_applied \in Int
        /\ Len(v.log) \in Nat
    BY NumbersOf
  <2>2. k.log = v.log /\ k.current_term = v.current_term
    BY <1>2, <1>5 DEF SameOffice
  <2> QED
    BY <1>2, <1>4, <1>5, <2>1, <2>2 DEF Forward
<1> QED
  BY <1>3, <1>5, <1>6, <1>7

\* The leader reaches every peer: log[next_index - 1] exists for each.
LEMMA EveryPeerReached ==
    ASSUME NEW n \in NodeState, LastIndex(n.log) \in Nat,
           \A p \in Server : n.next_index[p] <= LastIndex(n.log),
           NEW s \in Server, NEW order \in SetToSeqs(Peers(s)),
           NEW k \in 0 .. Cardinality(Peers(s)), Reaches(n, order, k)
    PROVE  k = Len(order)
<1>1. /\ Len(order) \in Nat /\ Len(order) = Cardinality(Peers(s))
      /\ \A i \in 1 .. Len(order) : order[i] \in Peers(s)
  BY OrderVisits
<1>2. ASSUME k < Len(order) PROVE FALSE
  <2>1. ~ Announceable(n, order[k + 1])
    BY <1>2 DEF Reaches
  <2>2. order[k + 1] \in Server
    <3>1. k + 1 \in 1 .. Len(order)
      BY <1>1, <1>2
    <3> QED
      BY <1>1, <3>1 DEF Peers
  <2>3. n.next_index[order[k + 1]] <= LastIndex(n.log)
        /\ n.next_index[order[k + 1]] \in Nat /\ Len(n.log) \in Nat
    BY <2>2, NumbersOf DEF NodeState
  <2> QED
    BY <2>1, <2>3 DEF Announceable, LastIndex
<1> QED
  BY <1>1, <1>2

LEMMA ForwardOn ==
    ASSUME NEW a \in NodeState, NEW b \in NodeState, NEW c \in NodeState,
           Forward(a, b), Forward(b, c)
    PROVE  Forward(a, c)
<1>1. /\ a.commit_index \in Int /\ b.commit_index \in Int
      /\ c.commit_index \in Int /\ a.last_applied \in Int
      /\ b.last_applied \in Int /\ c.last_applied \in Int
      /\ Len(a.log) \in Nat /\ Len(b.log) \in Nat /\ Len(c.log) \in Nat
  BY NumbersOf
<1> QED
  BY <1>1 DEF Forward

LEMMA ChiefForwardOn ==
    ASSUME NEW a \in NodeState, NEW b \in NodeState, NEW c \in NodeState,
           ChiefForward(a, b), ChiefForward(b, c)
    PROVE  ChiefForward(a, c)
<1>1. /\ a.current_term \in Nat /\ b.current_term \in Nat
      /\ c.current_term \in Nat
      /\ a.log \in Seq(Entry) /\ b.log \in Seq(Entry) /\ c.log \in Seq(Entry)
  BY NumbersOf
<1>2. Forward(a, c)
  BY ForwardOn DEF ChiefForward
<1>3. Prefix(a.log, c.log)
  BY <1>1, PrefixFacts DEF ChiefForward
<1>4. c.current_term >= a.current_term
  <2>1. b.current_term >= a.current_term /\ c.current_term >= b.current_term
    BY DEF ChiefForward
  <2> QED
    BY <1>1, <2>1
<1> QED
  BY <1>2, <1>3, <1>4 DEF ChiefForward

\* A leader that keeps its office and its log.
LEMMA ChiefForwardSame ==
    ASSUME NEW c \in NodeState, NEW n \in NodeState, Forward(c, n),
           n.log = c.log, n.current_term = c.current_term,
           c.role # "Follower" => n.role # "Follower"
    PROVE  ChiefForward(c, n)
BY NumbersOf DEF ChiefForward, Prefix

-----------------------------------------------------------------------------
(* Nodes as replicas of one history (ReplicatedLog)                        *)

Mapped(n) ==
    [log |-> n.log, committed |-> n.commit_index + 1,
     applied |-> n.last_applied + 1, store |-> n.store]

\* What ReplicatedLog calls a replica of l, with the stores of the handlers.
Replica(l, h, c, a) ==
    [log |-> SubSeq(l, 1, h), committed |-> c, applied |-> a,
     store |-> Replay(InitialNode.store, l, 0, a - 1)]

\* A node that is consistent and holds a prefix of l is a replica of l.
LEMMA NodeIsReplica ==
    ASSUME NEW n \in NodeState, NEW l \in Seq(Entry), Prefix(n.log, l),
           Consistent(n)
    PROVE  Mapped(n) = Replica(l, Len(n.log), n.commit_index + 1,
                               n.last_applied + 1)
<1>1. /\ n.log \in Seq(Entry) /\ Len(n.log) \in Nat /\ Len(l) \in Nat
      /\ n.commit_index \in Int /\ n.last_applied \in Int
  BY NumbersOf
<1>2. SubSeq(l, 1, Len(n.log)) = n.log
  <2>1. Len(n.log) <= Len(l) /\ \A i \in 1 .. Len(n.log) : n.log[i] = l[i]
    BY DEF Prefix
  <2> QED
    BY <1>1, <2>1
<1>3. n.store = Replay(InitialNode.store, l, 0, (n.last_applied + 1) - 1)
  <2>1. n.last_applied < Len(n.log) /\ (n.last_applied + 1) - 1 = n.last_applied
    BY <1>1 DEF Consistent
  <2>2. Replay(InitialNode.store, n.log, 0, n.last_applied)
          = Replay(InitialNode.store, l, 0, n.last_applied)
    BY <1>1, <2>1, PrefixReplay
  <2> QED
    BY <2>1, <2>2 DEF Consistent
<1> QED
  BY <1>2, <1>3 DEF Mapped, Replica

\* A node that moves forward, in a history that the leader has written, is a
\* replica that moves forward: its numbers stay in the ranges of Advance.
LEMMA ReplicaAdvances ==
    ASSUME NEW old \in NodeState, NEW n \in NodeState, NEW c \in NodeState,
           NEW l \in Seq(Entry), Prefix(n.log, l), Consistent(n),
           Forward(old, n), NEW bound \in BOOLEAN,
           bound => n.commit_index <= c.commit_index
    PROVE  \E i \in Len(Mapped(old).log) .. Len(l) :
           \E j \in Mapped(old).committed .. i :
           \E k \in Mapped(old).applied .. j :
              /\ bound => j <= Mapped(c).committed
              /\ Mapped(n) = Replica(l, i, j, k)
<1>1. /\ n.commit_index \in Int /\ n.last_applied \in Int /\ Len(n.log) \in Nat
      /\ old.commit_index \in Int /\ old.last_applied \in Int
      /\ Len(old.log) \in Nat /\ c.commit_index \in Int /\ Len(l) \in Nat
  BY NumbersOf
<1>2. /\ Len(old.log) <= Len(n.log) /\ Len(n.log) <= Len(l)
      /\ old.commit_index <= n.commit_index
      /\ old.last_applied <= n.last_applied
      /\ n.commit_index < Len(n.log) /\ n.last_applied <= n.commit_index
  BY DEF Forward, Prefix, Consistent
<1>3. /\ Mapped(old).log = old.log
      /\ Mapped(old).committed = old.commit_index + 1
      /\ Mapped(old).applied = old.last_applied + 1
      /\ Mapped(c).committed = c.commit_index + 1
  BY DEF Mapped
<1>4. /\ Len(n.log) \in Len(Mapped(old).log) .. Len(l)
      /\ n.commit_index + 1 \in Mapped(old).committed .. Len(n.log)
      /\ n.last_applied + 1 \in Mapped(old).applied .. n.commit_index + 1
      /\ bound => n.commit_index + 1 <= Mapped(c).committed
  <2>1. Len(n.log) \in Len(Mapped(old).log) .. Len(l)
    BY <1>1, <1>2, <1>3
  <2>2. n.commit_index + 1 \in Mapped(old).committed .. Len(n.log)
    <3>1. /\ n.commit_index + 1 \in Int /\ old.commit_index + 1 \in Int
          /\ old.commit_index + 1 <= n.commit_index + 1
          /\ n.commit_index + 1 <= Len(n.log)
      BY <1>1, <1>2
    <3> QED
      BY <1>1, <1>3, <3>1
  <2>3. n.last_applied + 1 \in Mapped(old).applied .. n.commit_index + 1
    <3>1. /\ n.last_applied + 1 \in Int /\ old.last_applied + 1 \in Int
          /\ old.last_applied + 1 <= n.last_applied + 1
          /\ n.last_applied + 1 <= n.commit_index + 1
          /\ n.commit_index + 1 \in Int
      BY <1>1, <1>2
    <3> QED
      BY <1>3, <3>1
  <2>4. ASSUME bound PROVE n.commit_index + 1 <= Mapped(c).committed
    <3>1. n.commit_index <= c.commit_index
      BY <2>4
    <3> QED
      BY <1>1, <1>3, <3>1
  <2> QED
    BY <2>1, <2>2, <2>3, <2>4
<1>5. Mapped(n) = Replica(l, Len(n.log), n.commit_index + 1, n.last_applied + 1)
  BY NodeIsReplica
<1> QED
  BY <1>4, <1>5

\* What push does to the replica of the leader: it gets the entry, no more.
LEMMA PushMapped ==
    ASSUME NEW c \in NodeState, NEW n, Pushes(c, n)
    PROVE  /\ Mapped(n) = [Mapped(c) EXCEPT !.log = n.log]
           /\ \E r \in Request :
                n.log = Append(c.log, [term |-> c.current_term,
                                       index |-> Len(c.log), request |-> r])
<1>1. /\ n.commit_index = c.commit_index /\ n.last_applied = c.last_applied
      /\ n.store = c.store
  BY DEF Pushes
<1>2. Mapped(n) = [Mapped(c) EXCEPT !.log = n.log]
  <2> DEFINE committed == c.commit_index + 1
             applied == c.last_applied + 1
             store == c.store
             old == c.log
             new == n.log
  <2>1. Mapped(c) = [log |-> old, committed |-> committed,
                     applied |-> applied, store |-> store]
    BY DEF Mapped
  <2>2. Mapped(n) = [log |-> new, committed |-> committed,
                     applied |-> applied, store |-> store]
    BY <1>1 DEF Mapped
  <2> HIDE DEF committed, applied, store, old, new
  <2>3. Mapped(n) = [Mapped(c) EXCEPT !.log = new]
    BY <2>1, <2>2
  <2> QED
    BY <2>3 DEF new
<1> QED
  BY <1>2 DEF Pushes, NewEntry

=============================================================================
