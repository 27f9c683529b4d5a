--------------------------- MODULE MiniRaftProofs ---------------------------
(***************************************************************************)
(* Theorems about MiniRaft for every set of servers, requests and links    *)
(* and every bound: type correctness first, on which the others rest, then *)
(* roles, terms and votes, then the logs of all nodes, whatever links are  *)
(* late, break and lose messages, and whoever panics.                      *)
(***************************************************************************)

EXTENDS MiniRaft, HandlerProofs

-----------------------------------------------------------------------------
(* Sending and receiving                                                   *)

Outgoing == [Server -> Seq(Message)]

LEMMA OutgoingTypes ==
    ASSUME NEW m \in Message, NEW dest
    PROVE  Silence \in Outgoing /\ Broadcast(m) \in Outgoing
           /\ SendTo(dest, m) \in Outgoing
<1>1. <<>> \in Seq(Message) /\ <<m>> \in Seq(Message)
  OBVIOUS
<1> QED
  BY <1>1 DEF Silence, Broadcast, SendTo, Outgoing

LEMMA SilenceType == Silence \in Outgoing
<1>1. <<>> \in Seq(Message)
  OBVIOUS
<1> QED
  BY <1>1 DEF Silence, Outgoing

LEMMA ThenType ==
    ASSUME NEW a \in Outgoing, NEW b \in Outgoing
    PROVE  Then(a, b) \in Outgoing
<1>1. \A d \in Server : a[d] \o b[d] \in Seq(Message)
  BY DEF Outgoing
<1> QED
  BY <1>1 DEF Then, Outgoing

LEMMA ResendType ==
    ASSUME NEW s \in Server, NEW n \in NodeState
    PROVE  Resend(s, n) \in Outgoing
BY RequestVoteType, OutgoingTypes, SilenceType DEF Resend

LEMMA LinkType ==
    ASSUME NEW s \in Server, NEW src \in Peers(s)
    PROVE  src \in Server /\ <<src, s>> \in Link /\ <<s, src>> \in Link
BY DEF Peers, Link

LEMMA PostedType ==
    ASSUME TypeOK, NEW s, NEW out \in Outgoing, NEW p \in Link
    PROVE  Posted(s, out, p) \in Seq(Message)
<1>1. wire[p] \in Seq(Message) /\ p[2] \in Server
  BY DEF TypeOK, Link
<1>2. out[p[2]] \in Seq(Message)
  BY <1>1 DEF Outgoing
<1> QED
  BY <1>1, <1>2 DEF Posted

LEMMA SendType ==
    ASSUME TypeOK, NEW s, NEW out \in Outgoing, Send(s, out)
    PROVE  wire' \in [Link -> Seq(Message)]
BY PostedType DEF Send

LEMMA ExchangeType ==
    ASSUME TypeOK, NEW s \in Server, NEW src \in Peers(s),
           wire[<<src, s>>] # <<>>, NEW out \in Outgoing, Exchange(src, s, out)
    PROVE  wire' \in [Link -> Seq(Message)]
<1>1. <<src, s>> \in Link
  BY LinkType
<1>2. wire[<<src, s>>] \in Seq(Message)
  BY <1>1 DEF TypeOK
<1>3. Tail(wire[<<src, s>>]) \in Seq(Message)
  BY <1>2
<1>4. \A p \in Link : (IF p = <<src, s>> THEN Tail(wire[p])
                                         ELSE Posted(s, out, p)) \in Seq(Message)
  BY <1>3, PostedType
<1> QED
  BY <1>4 DEF Exchange

\* Every handler ends in Finish, and Finish keeps the types.
LEMMA FinishType ==
    ASSUME TypeOK, NEW s \in Server, NEW src \in Peers(s),
           wire[<<src, s>>] # <<>>,
           NEW n \in NodeState, NEW out \in Outgoing, Finish(src, s, n, out),
           answered' \subseteq {<<r.client, r.id>> : r \in Request}
    PROVE  TypeOK'
<1>1. node' \in [Server -> NodeState]
  BY ResumeType DEF Finish, TypeOK
<1>2. Then(out, Resend(s, n)) \in Outgoing
  BY ResendType, ThenType
<1>3. wire' \in [Link -> Seq(Message)]
  BY <1>2, ExchangeType DEF Finish
<1> QED
  BY <1>1, <1>3 DEF TypeOK, Finish

\* What a handler finds at the head of a link.
LEMMA IncomingType ==
    ASSUME TypeOK, NEW s \in Server, NEW src \in Peers(s), NEW kind,
           Receives(s, src, kind)
    PROVE  /\ src \in Server /\ node[s] \in NodeState
           /\ wire[<<src, s>>] # <<>>
           /\ Incoming(s, src) \in Message
           /\ Incoming(s, src).kind = kind
<1>1. <<src, s>> \in Link /\ src \in Server
  BY LinkType
<1>2. wire[<<src, s>>] \in Seq(Message) /\ wire[<<src, s>>] # <<>>
  BY <1>1 DEF TypeOK, Receives
<1>3. Incoming(s, src) \in Message
  BY <1>2 DEF Incoming
<1> QED
  BY <1>1, <1>2, <1>3 DEF TypeOK, Receives, Incoming

-----------------------------------------------------------------------------
(* Where the messages come from that are on a link after a step            *)

WasThere(p, m) == \E j \in 1 .. Len(wire[p]) : wire[p][j] = m

Sends(out, d, m) == \E j \in 1 .. Len(out[d]) : out[d][j] = m

LEMMA SilenceSends == \A d \in Server : \A m : ~ Sends(Silence, d, m)
BY DEF Sends, Silence

LEMMA OneMessageSends ==
    ASSUME NEW x, NEW dest, NEW d \in Server, NEW m
    PROVE  /\ Sends(Broadcast(x), d, m) => m = x
           /\ Sends(SendTo(dest, x), d, m) => m = x /\ d = dest
<1>1. Len(<<x>>) = 1 /\ <<x>>[1] = x /\ Len(<<>>) = 0
  OBVIOUS
<1> QED
  BY <1>1 DEF Sends, Broadcast, SendTo

\* An element of a concatenation is one of either part.
LEMMA ConcatElement ==
    ASSUME NEW a \in Seq(Message), NEW b \in Seq(Message),
           NEW i \in 1 .. Len(a \o b)
    PROVE  \/ \E j \in 1 .. Len(a) : (a \o b)[i] = a[j]
           \/ \E j \in 1 .. Len(b) : (a \o b)[i] = b[j]
<1> DEFINE la == Len(a)
           lb == Len(b)
<1>1. la \in Nat /\ lb \in Nat /\ i \in 1 .. la + lb
  <2>1. Len(a \o b) = la + lb /\ la \in Nat /\ lb \in Nat
    OBVIOUS
  <2> QED
    BY <2>1
<1>2. CASE i <= la
  <2>1. (a \o b)[i] = a[i] /\ i \in 1 .. la
    BY <1>1, <1>2
  <2> QED
    BY <2>1
<1>3. CASE i > la
  <2>1. (a \o b)[i] = b[i - la]
    BY <1>1, <1>3
  <2>2. i - la \in 1 .. lb
    <3> HIDE DEF la, lb
    <3> QED
      BY <1>1, <1>3
  <2> QED
    BY <2>1, <2>2
<1> QED
  BY <1>1, <1>2, <1>3

LEMMA ThenSends ==
    ASSUME NEW a \in Outgoing, NEW b \in Outgoing, NEW d \in Server, NEW m,
           Sends(Then(a, b), d, m)
    PROVE  Sends(a, d, m) \/ Sends(b, d, m)
<1>1. a[d] \in Seq(Message) /\ b[d] \in Seq(Message)
  BY DEF Outgoing
<1>2. PICK i \in 1 .. Len(a[d] \o b[d]) : (a[d] \o b[d])[i] = m
  BY DEF Sends, Then
<1>3. \/ \E j \in 1 .. Len(a[d]) : (a[d] \o b[d])[i] = a[d][j]
      \/ \E j \in 1 .. Len(b[d]) : (a[d] \o b[d])[i] = b[d][j]
  <2> DEFINE x == a[d]
             y == b[d]
  <2>1. x \in Seq(Message) /\ y \in Seq(Message) /\ i \in 1 .. Len(x \o y)
    BY <1>1
  <2> HIDE DEF x, y
  <2>2. \/ \E j \in 1 .. Len(x) : (x \o y)[i] = x[j]
        \/ \E j \in 1 .. Len(y) : (x \o y)[i] = y[j]
    BY <2>1, ConcatElement
  <2> QED
    BY <2>2 DEF x, y
<1> QED
  BY <1>2, <1>3 DEF Sends

LEMMA PostedSends ==
    ASSUME TypeOK, NEW s \in Server, NEW out \in Outgoing, NEW p \in Link,
           NEW i \in 1 .. Len(Posted(s, out, p))
    PROVE  \/ WasThere(p, Posted(s, out, p)[i])
           \/ p[1] = s /\ Sends(out, p[2], Posted(s, out, p)[i])
<1>1. wire[p] \in Seq(Message) /\ p[2] \in Server
  BY DEF TypeOK, Link
<1>2. out[p[2]] \in Seq(Message)
  BY <1>1 DEF Outgoing
<1>3. CASE Posted(s, out, p) = wire[p]
  BY <1>3 DEF WasThere
<1>4. CASE p[1] = s /\ Posted(s, out, p) = wire[p] \o out[p[2]]
  <2> DEFINE x == wire[p]
             y == out[p[2]]
  <2>1. x \in Seq(Message) /\ y \in Seq(Message) /\ i \in 1 .. Len(x \o y)
    BY <1>1, <1>2, <1>4
  <2> HIDE DEF x, y
  <2>2. \/ \E j \in 1 .. Len(x) : (x \o y)[i] = x[j]
        \/ \E j \in 1 .. Len(y) : (x \o y)[i] = y[j]
    BY <2>1, ConcatElement
  <2> QED
    BY <1>4, <2>2 DEF WasThere, Sends, x, y
<1> QED
  BY <1>3, <1>4 DEF Posted

\* After a step that only sends.
LEMMA SendMessages ==
    ASSUME TypeOK, NEW s \in Server, NEW out \in Outgoing, Send(s, out),
           NEW p \in Link, NEW i \in 1 .. Len(wire'[p])
    PROVE  \/ WasThere(p, wire'[p][i])
           \/ p[1] = s /\ Sends(out, p[2], wire'[p][i])
<1>1. wire'[p] = Posted(s, out, p)
  BY DEF Send
<1> QED
  BY <1>1, PostedSends

\* After a handler.
LEMMA FinishMessages ==
    ASSUME TypeOK, NEW s \in Server, NEW src \in Peers(s),
           wire[<<src, s>>] # <<>>,
           NEW n \in NodeState, NEW out \in Outgoing, Finish(src, s, n, out),
           NEW p \in Link, NEW i \in 1 .. Len(wire'[p])
    PROVE  \/ WasThere(p, wire'[p][i])
           \/ p[1] = s /\ Sends(out, p[2], wire'[p][i])
           \/ /\ p[1] = s /\ n.role = "Candidate"
              /\ wire'[p][i] = RequestVote(s, n)
<1> DEFINE all == Then(out, Resend(s, n))
<1>1. Exchange(src, s, all) /\ all \in Outgoing
  BY ResendType, ThenType DEF Finish
<1>2. CASE p = <<src, s>>
  <2>1. wire'[p] = Tail(wire[p]) /\ wire[p] \in Seq(Message) /\ wire[p] # <<>>
    BY <1>1, <1>2 DEF Exchange, TypeOK
  <2>2. i + 1 \in 1 .. Len(wire[p]) /\ wire'[p][i] = wire[p][i + 1]
    BY <2>1
  <2> QED
    BY <2>2 DEF WasThere
<1>3. CASE p # <<src, s>>
  <2>1. wire'[p] = Posted(s, all, p) /\ p[2] \in Server
    BY <1>1, <1>3 DEF Exchange, Link
  <2>2. \/ WasThere(p, wire'[p][i])
        \/ p[1] = s /\ Sends(all, p[2], wire'[p][i])
    <3> HIDE DEF all
    <3> QED
      BY <1>1, <2>1, PostedSends
  <2>3. Sends(all, p[2], wire'[p][i])
          => \/ Sends(out, p[2], wire'[p][i])
             \/ Sends(Resend(s, n), p[2], wire'[p][i])
    BY <2>1, ResendType, ThenSends
  <2>4. Sends(Resend(s, n), p[2], wire'[p][i])
          => n.role = "Candidate" /\ wire'[p][i] = RequestVote(s, n)
    <3>1. CASE n.role = "Candidate"
      BY <2>1, <3>1, OneMessageSends DEF Resend
    <3>2. CASE n.role # "Candidate"
      BY <2>1, <3>2, SilenceSends DEF Resend
    <3> QED
      BY <3>1, <3>2
  <2> QED
    BY <2>2, <2>3, <2>4
<1> QED
  BY <1>2, <1>3

\* After a connection is made or breaks.
LEMMA LinkStepsMessages ==
    ASSUME TypeOK, NEW p \in Link, Register(p) \/ BreakLink(p),
           NEW r \in Link, NEW i \in 1 .. Len(wire'[r])
    PROVE  WasThere(r, wire'[r][i])
<1>1. wire \in [Link -> Seq(Message)] /\ wire[r] \in Seq(Message)
  BY DEF TypeOK
<1>2. CASE Register(p)
  BY <1>2 DEF Register, WasThere
<1>3. CASE BreakLink(p)
  <2> DEFINE q == <<p[2], p[1]>>
  <2>1. PICK a \in 0 .. Len(wire[p]), b \in 0 .. Len(wire[q]) :
          wire' = [wire EXCEPT ![p] = SubSeq(@, 1, a), ![q] = SubSeq(@, 1, b)]
    BY <1>3 DEF BreakLink
  <2>2. q \in Link /\ p # q
    BY DEF Link
  <2>3. CASE wire'[r] = wire[r]
    BY <2>3 DEF WasThere
  <2>4. ASSUME NEW c \in 0 .. Len(wire[r]), wire'[r] = SubSeq(wire[r], 1, c)
        PROVE  WasThere(r, wire'[r][i])
    <3>1. Len(SubSeq(wire[r], 1, c)) = c /\ c \in Nat /\ Len(wire[r]) \in Nat
      BY <1>1
    <3>2. i \in 1 .. c /\ c <= Len(wire[r])
      BY <2>4, <3>1
    <3>3. i \in 1 .. Len(wire[r]) /\ wire'[r][i] = wire[r][i]
      BY <1>1, <2>4, <3>1, <3>2
    <3> QED
      BY <3>3 DEF WasThere
  <2>5. \/ wire'[r] = wire[r]
        \/ \E c \in 0 .. Len(wire[r]) : wire'[r] = SubSeq(wire[r], 1, c)
    BY <1>1, <2>1, <2>2
  <2> QED
    BY <2>3, <2>4, <2>5
<1> QED
  BY <1>2, <1>3

-----------------------------------------------------------------------------
(* Type correctness, one step per action                                   *)

LEMMA AppendEntriesHandlersType ==
    ASSUME TypeOK, NEW s \in Server, NEW src \in Peers(s),
           \/ RejectAppendEntries(s, src) \/ StepDownOnAppendEntries(s, src)
           \/ AcceptHeartbeat(s, src) \/ AcceptNewEntries(s, src)
           \/ PanicOnGap(s, src)
    PROVE  TypeOK'
<1> DEFINE n == node[s]
           m == Incoming(s, src)
<1>1. answered \subseteq {<<r.client, r.id>> : r \in Request}
  BY DEF TypeOK
<1>2. Receives(s, src, "AppendEntries") /\ answered' = answered
  BY DEF RejectAppendEntries, StepDownOnAppendEntries, AcceptHeartbeat,
         AcceptNewEntries, PanicOnGap
<1>3. /\ n \in NodeState /\ m \in Message /\ m.kind = "AppendEntries"
      /\ wire[<<src, s>>] # <<>> /\ src \in Server
  BY <1>2, IncomingType
<1> HIDE DEF n, m
<1>4. CASE RejectAppendEntries(s, src)
  <2>1. SendTo(src, AppendEntriesResponse(n, FALSE)) \in Outgoing
    BY <1>3, ResponseTypes, OutgoingTypes
  <2>2. Finish(src, s, n, SendTo(src, AppendEntriesResponse(n, FALSE)))
    BY <1>4 DEF RejectAppendEntries, n, m
  <2> QED
    BY <1>1, <1>2, <1>3, <2>1, <2>2, FinishType
<1>5. CASE StepDownOnAppendEntries(s, src)
  <2>1. BecomeFollower(n, m.term) \in NodeState
    BY <1>3, MessageFields, BecomeFollowerType
  <2>2. Finish(src, s, BecomeFollower(n, m.term), Silence)
    BY <1>5 DEF StepDownOnAppendEntries, n, m
  <2> QED
    BY <1>1, <1>2, <1>3, <2>1, <2>2, SilenceType, FinishType
<1>6. CASE AcceptHeartbeat(s, src)
  <2>1. Finish(src, s, Observe(n, m), Silence)
    BY <1>6 DEF AcceptHeartbeat, n, m
  <2>2. Observe(n, m) \in NodeState
    BY <1>3, ObserveType
  <2> QED
    BY <1>1, <1>2, <1>3, <2>1, <2>2, SilenceType, FinishType
<1>7. CASE AcceptNewEntries(s, src)
  <2> DEFINE k == Store(Observe(n, m), m)
  <2>1. /\ Finish(src, s, k, SendTo(src, AppendEntriesResponse(k, TRUE)))
        /\ m.entries # <<>> /\ ~ LeavesGap(n.log, m.entries)
    BY <1>7 DEF AcceptNewEntries, n, m
  <2>2. k \in NodeState
    BY <1>3, <2>1, ObserveType, ObserveLog, StoreType
  <2> HIDE DEF k
  <2>3. SendTo(src, AppendEntriesResponse(k, TRUE)) \in Outgoing
    BY <2>2, ResponseTypes, OutgoingTypes
  <2> QED
    BY <1>1, <1>2, <1>3, <2>1, <2>2, <2>3, FinishType
<1>8. CASE PanicOnGap(s, src)
  <2>1. Finish(src, s, Panicked(Observe(n, m)), Silence)
    BY <1>8 DEF PanicOnGap, n, m
  <2>2. Panicked(Observe(n, m)) \in NodeState
    BY <1>3, ObserveType, PanickedType
  <2> QED
    BY <1>1, <1>2, <1>3, <2>1, <2>2, SilenceType, FinishType
<1> QED
  BY <1>4, <1>5, <1>6, <1>7, <1>8

LEMMA VoteHandlersType ==
    ASSUME TypeOK, NEW s \in Server, NEW src \in Peers(s),
           \/ HandleRequestVote(s, src) \/ IgnoreVoteResponse(s, src)
           \/ StepDownOnVoteResponse(s, src) \/ CountVote(s, src)
           \/ WinElection(s, src)
    PROVE  TypeOK'
<1> DEFINE n == node[s]
           m == Incoming(s, src)
<1>1. answered' \subseteq {<<r.client, r.id>> : r \in Request}
  BY DEF TypeOK, HandleRequestVote, IgnoreVoteResponse, StepDownOnVoteResponse,
         CountVote, WinElection
<1>2. Receives(s, src, "RequestVote") \/ Receives(s, src, "RequestVoteResponse")
  BY DEF HandleRequestVote, IgnoreVoteResponse, StepDownOnVoteResponse,
         CountVote, WinElection
<1>3. /\ n \in NodeState /\ m \in Message
      /\ wire[<<src, s>>] # <<>> /\ src \in Server
  BY <1>2, IncomingType
<1> HIDE DEF n, m
<1>4. CASE HandleRequestVote(s, src)
  <2> DEFINE out == SendTo(m.candidate_id,
                           RequestVoteResponse(n, ~ DeniesVote(n, m)))
  <2>1. Finish(src, s, n, out)
    BY <1>4 DEF HandleRequestVote, n, m
  <2>2. (~ DeniesVote(n, m)) \in BOOLEAN
    OBVIOUS
  <2>3. out \in Outgoing
    BY <1>3, <2>2, ResponseTypes, OutgoingTypes
  <2> HIDE DEF out
  <2> QED
    BY <1>1, <1>3, <2>1, <2>3, FinishType
<1>5. CASE IgnoreVoteResponse(s, src)
  <2>1. Finish(src, s, n, Silence)
    BY <1>5 DEF IgnoreVoteResponse, n, m
  <2> QED
    BY <1>1, <1>3, <2>1, SilenceType, FinishType
<1>6. CASE StepDownOnVoteResponse(s, src)
  <2>1. Finish(src, s, BecomeFollower(n, m.term), Silence)
    BY <1>6 DEF StepDownOnVoteResponse, n, m
  <2>2. BecomeFollower(n, m.term) \in NodeState
    BY <1>3, MessageFields, BecomeFollowerType
  <2> QED
    BY <1>1, <1>3, <2>1, <2>2, SilenceType, FinishType
<1>7. CASE CountVote(s, src)
  <2>1. Finish(src, s, Counted(n), Silence)
    BY <1>7 DEF CountVote, n, m
  <2>2. Counted(n) \in NodeState
    BY <1>3, CountedType
  <2> QED
    BY <1>1, <1>3, <2>1, <2>2, SilenceType, FinishType
<1>8. CASE WinElection(s, src)
  <2> DEFINE k == TakeOffice(Counted(n))
  <2>1. Finish(src, s, k, Broadcast(Heartbeat(k)))
    BY <1>8 DEF WinElection, n, m
  <2>2. k \in NodeState
    BY <1>3, CountedType, TakeOfficeType
  <2> HIDE DEF k
  <2>3. Broadcast(Heartbeat(k)) \in Outgoing
    BY <2>2, HeartbeatType, OutgoingTypes
  <2> QED
    BY <1>1, <1>3, <2>1, <2>2, <2>3, FinishType
<1> QED
  BY <1>4, <1>5, <1>6, <1>7, <1>8

LEMMA ResponseHandlersType ==
    ASSUME TypeOK, NEW s \in Server, NEW src \in Peers(s),
           \/ IgnoreAppendEntriesResponse(s, src)
           \/ StepDownOnAppendEntriesResponse(s, src)
           \/ RecordSuccess(s, src) \/ CommitAndAnswer(s, src)
           \/ RetryAfterFailure(s, src) \/ PanicOnFailure(s, src)
    PROVE  TypeOK'
<1> DEFINE n == node[s]
           m == Incoming(s, src)
           Replies == {<<r.client, r.id>> : r \in Request}
<1>1. answered \subseteq Replies
  BY DEF TypeOK
<1>2. Receives(s, src, "AppendEntriesResponse")
  BY DEF IgnoreAppendEntriesResponse, StepDownOnAppendEntriesResponse,
         RecordSuccess, CommitAndAnswer, RetryAfterFailure, PanicOnFailure, Counts
<1>3. /\ n \in NodeState /\ m \in Message
      /\ wire[<<src, s>>] # <<>> /\ src \in Server
  BY <1>2, IncomingType
<1> HIDE DEF n, m
<1>4. CASE IgnoreAppendEntriesResponse(s, src)
  <2>1. Finish(src, s, n, Silence) /\ answered' = answered
    BY <1>4 DEF IgnoreAppendEntriesResponse, n
  <2> QED
    BY <1>1, <1>3, <2>1, SilenceType, FinishType
<1>5. CASE StepDownOnAppendEntriesResponse(s, src)
  <2>1. Finish(src, s, BecomeFollower(n, m.term), Silence) /\ answered' = answered
    BY <1>5 DEF StepDownOnAppendEntriesResponse, n, m
  <2>2. BecomeFollower(n, m.term) \in NodeState
    BY <1>3, MessageFields, BecomeFollowerType
  <2> QED
    BY <1>1, <1>3, <2>1, <2>2, SilenceType, FinishType
<1>6. CASE RecordSuccess(s, src)
  <2>1. Finish(src, s, Acknowledged(n, src), Silence) /\ answered' = answered
    BY <1>6 DEF RecordSuccess, n
  <2>2. Acknowledged(n, src) \in NodeState
    BY <1>3, AcknowledgedType
  <2> QED
    BY <1>1, <1>3, <2>1, <2>2, SilenceType, FinishType
<1>7. CASE CommitAndAnswer(s, src)
  <2> DEFINE a == Acknowledged(n, src)
             k == AdvanceCommit(a)
  <2>1. /\ Finish(src, s, ApplyOwn(s, k), Silence)
        /\ answered' = answered \union {ClientOf(k)}
        /\ Committable(a) # {}
    BY <1>7 DEF CommitAndAnswer, n
  <2>2. a \in NodeState
    BY <1>3, AcknowledgedType
  <2> HIDE DEF a
  <2>3. k \in NodeState /\ ApplyOwn(s, k) \in NodeState
    BY <2>2, AdvanceCommitType, ApplyOwnType
  <2>4. /\ Min(Committable(a)) \in 0 .. LastIndex(a.log)
        /\ k.log = a.log /\ k.commit_index = Min(Committable(a))
    BY <2>1, <2>2, CommittableRange DEF AdvanceCommit, NodeState
  <2> HIDE DEF k
  <2>5. At(k.log, k.commit_index) \in Entry
    BY <2>3, <2>4, AtType DEF NodeState
  <2>6. ClientOf(k) \in Replies
    BY <2>5 DEF ClientOf, Entry
  <2>7. answered' \subseteq Replies
    BY <1>1, <2>1, <2>6
  <2> QED
    BY <1>3, <2>1, <2>3, <2>7, SilenceType, FinishType
<1>8. CASE RetryAfterFailure(s, src)
  <2> DEFINE k == BackedOff(n, src)
  <2>1. /\ Finish(src, s, AdvanceCommit(k), SendTo(src, Retry(k, src)))
        /\ answered' = answered
        /\ Has(k.log, k.next_index[src])
    BY <1>8 DEF RetryAfterFailure, n
  <2>2. k \in NodeState
    BY <1>3, BackedOffType
  <2> HIDE DEF k
  <2>3. AdvanceCommit(k) \in NodeState
    BY <2>2, AdvanceCommitType
  <2>4. SendTo(src, Retry(k, src)) \in Outgoing
    BY <1>3, <2>1, <2>2, RetryType, OutgoingTypes
  <2> QED
    BY <1>1, <1>3, <2>1, <2>3, <2>4, FinishType
<1>9. CASE PanicOnFailure(s, src)
  <2>1. Finish(src, s, Panicked(BackedOff(n, src)), Silence) /\ answered' = answered
    BY <1>9 DEF PanicOnFailure, n
  <2>2. Panicked(BackedOff(n, src)) \in NodeState
    BY <1>3, BackedOffType, PanickedType
  <2> QED
    BY <1>1, <1>3, <2>1, <2>2, SilenceType, FinishType
<1> QED
  BY <1>4, <1>5, <1>6, <1>7, <1>8, <1>9

LEMMA TimersType ==
    ASSUME TypeOK, NEW s \in Server, Timers(s)
    PROVE  TypeOK'
<1> DEFINE n == node[s]
<1>1. n \in NodeState
  BY DEF TypeOK
<1> HIDE DEF n
<1>2. CASE ElectionTimeout(s)
  <2> DEFINE k == BecomeCandidate(s, n)
  <2>1. /\ node' = [node EXCEPT ![s] = k] /\ Send(s, Broadcast(RequestVote(s, k)))
        /\ UNCHANGED <<link, submitted, answered>>
    BY <1>2 DEF ElectionTimeout, n
  <2>2. k \in NodeState
    BY <1>1, BecomeCandidateType
  <2> HIDE DEF k
  <2>3. Broadcast(RequestVote(s, k)) \in Outgoing
    BY <2>2, RequestVoteType, OutgoingTypes
  <2>4. wire' \in [Link -> Seq(Message)]
    BY <2>1, <2>3, SendType
  <2> QED
    BY <2>1, <2>2, <2>4 DEF TypeOK
<1>3. CASE CandidateTimeout(s)
  <2>1. /\ Send(s, Broadcast(RequestVote(s, n)))
        /\ UNCHANGED <<node, link, submitted, answered>>
    BY <1>3 DEF CandidateTimeout, n
  <2>2. Broadcast(RequestVote(s, n)) \in Outgoing
    BY <1>1, RequestVoteType, OutgoingTypes
  <2>3. wire' \in [Link -> Seq(Message)]
    BY <2>1, <2>2, SendType
  <2> QED
    BY <2>1, <2>3 DEF TypeOK
<1>4. CASE HeartbeatTimeout(s)
  <2>1. /\ Send(s, Broadcast(Heartbeat(n)))
        /\ UNCHANGED <<node, link, submitted, answered>>
    BY <1>4 DEF HeartbeatTimeout, n
  <2>2. Broadcast(Heartbeat(n)) \in Outgoing
    BY <1>1, HeartbeatType, OutgoingTypes
  <2>3. wire' \in [Link -> Seq(Message)]
    BY <2>1, <2>2, SendType
  <2> QED
    BY <2>1, <2>3 DEF TypeOK
<1> QED
  BY <1>2, <1>3, <1>4 DEF Timers

LEMMA AnnouncementsType ==
    ASSUME NEW s \in Server, NEW n \in NodeState, n.log # <<>>,
           NEW order \in SetToSeqs(Peers(s)),
           NEW k \in 0 .. Cardinality(Peers(s)), Reaches(n, order, k)
    PROVE  Announcements(n, order, k) \in Outgoing
<1>1. k \in Nat /\ \A i \in 1 .. k : order[i] \in Server
  BY VisitingOrder DEF Peers
<1>2. \A i \in 1 .. k : Announcement(n, order[i]) \in Message
  BY <1>1, AnnouncementType DEF Reaches
<1>3. [i \in 1 .. k |-> Announcement(n, order[i])] \in Seq(Message)
  BY <1>1, <1>2
<1> QED
  BY <1>3 DEF Announcements, Outgoing

LEMMA ClientSetType ==
    ASSUME TypeOK, NEW s \in Server, NEW r \in Request, ClientSet(s, r)
    PROVE  TypeOK'
<1> DEFINE n == [node[s] EXCEPT !.log = Append(@, NewEntry(node[s], r))]
<1>1. node[s] \in NodeState
  BY DEF TypeOK
<1>2. n \in NodeState /\ n.log # <<>>
  BY <1>1, PushType
<1>3. PICK order \in SetToSeqs(Peers(s)), k \in 0 .. Cardinality(Peers(s)) :
        /\ Reaches(n, order, k)
        /\ node' = [node EXCEPT ![s] = IF k = Len(order) THEN MarkSent(s, n)
                                                        ELSE Panicked(n)]
        /\ Send(s, Announcements(n, order, k))
  BY DEF ClientSet
<1>4. /\ submitted' = submitted \union {r}
      /\ UNCHANGED <<link, answered>>
  BY DEF ClientSet
<1> HIDE DEF n
<1>5. MarkSent(s, n) \in NodeState /\ Panicked(n) \in NodeState
  BY <1>2, MarkSentType, PanickedType
<1>6. node' \in [Server -> NodeState]
  BY <1>3, <1>5 DEF TypeOK
<1>7. wire' \in [Link -> Seq(Message)]
  BY <1>2, <1>3, AnnouncementsType, SendType
<1> QED
  BY <1>4, <1>6, <1>7 DEF TypeOK

LEMMA LinkStepsType ==
    ASSUME TypeOK, NEW p \in Link, Register(p) \/ BreakLink(p)
    PROVE  TypeOK'
<1>1. CASE Register(p)
  BY <1>1 DEF Register, TypeOK
<1>2. CASE BreakLink(p)
  <2> DEFINE q == <<p[2], p[1]>>
  <2>1. q \in Link
    BY DEF Link
  <2>2. PICK i \in 0 .. Len(wire[p]), j \in 0 .. Len(wire[q]) :
          wire' = [wire EXCEPT ![p] = SubSeq(@, 1, i), ![q] = SubSeq(@, 1, j)]
    BY <1>2 DEF BreakLink
  <2>3. wire[p] \in Seq(Message) /\ wire[q] \in Seq(Message) /\ p # q
    BY <2>1 DEF TypeOK, Link
  <2>4. SubSeq(wire[p], 1, i) \in Seq(Message) /\ SubSeq(wire[q], 1, j) \in Seq(Message)
    BY <2>3
  <2>5. wire' \in [Link -> Seq(Message)]
    BY <2>1, <2>2, <2>3, <2>4 DEF TypeOK
  <2>6. link' \in [Link -> {"absent", "open", "broken"}]
        /\ UNCHANGED <<node, submitted, answered>>
    BY <1>2, <2>1 DEF BreakLink, TypeOK
  <2> QED
    BY <2>5, <2>6 DEF TypeOK
<1> QED
  BY <1>1, <1>2

\* In every execution all variables keep their types (Server, ServerState, the
\* channels and the connection registry).
THEOREM TypeCorrect == Spec => []TypeOK
<1>1. Init => TypeOK
  BY InitialNodeType DEF Init, TypeOK
<1>2. TypeOK /\ [Next]_vars => TypeOK'
  <2> SUFFICES ASSUME TypeOK, [Next]_vars PROVE TypeOK'
    OBVIOUS
  <2>1. CASE \E s \in Server : Timers(s)
    BY <2>1, TimersType
  <2>2. ASSUME NEW s \in Server, NEW src \in Peers(s), HandleMessage(s, src)
        PROVE  TypeOK'
    BY <2>2, AppendEntriesHandlersType, VoteHandlersType, ResponseHandlersType
       DEF HandleMessage
  <2>3. CASE \E s \in Server, r \in Request : ClientSet(s, r)
    BY <2>3, ClientSetType
  <2>4. CASE \E p \in Link : Register(p) \/ BreakLink(p)
    BY <2>4, LinkStepsType
  <2>5. CASE UNCHANGED vars
    BY <2>5 DEF vars, TypeOK
  <2> QED
    BY <2>1, <2>2, <2>3, <2>4, <2>5 DEF Next
<1> QED
  BY <1>1, <1>2, PTL DEF Spec

-----------------------------------------------------------------------------
(* Elections: what any action of the system does to the role, term and     *)
(* vote of a node is one of six steps (EveryNodeStep).                     *)

\* s has before it a message with term t.
Learns(s, t) ==
    \E src \in Peers(s) : /\ wire[<<src, s>>] # <<>>
                          /\ Head(wire[<<src, s>>]).term = t

Stays(old, new) == Office(new) = Office(old)

Follows(s, old, new) ==
    /\ old.role = "Follower" /\ new.role = "Follower"
    /\ new.voted_for = old.voted_for
    /\ new.current_term > old.current_term /\ Learns(s, new.current_term)

Yields(s, old, new) ==
    /\ old.role \in {"Candidate", "Leader"} /\ new.role = "Follower"
    /\ new.voted_for = None
    /\ new.current_term > old.current_term /\ Learns(s, new.current_term)

Campaigns(s, old, new) ==
    /\ old.role = "Follower" /\ new.role = "Candidate"
    /\ new.voted_for = s /\ new.current_term = old.current_term + 1

Leads(old, new) ==
    /\ old.role = "Candidate" /\ new.role = "Leader"
    /\ new.voted_for = old.voted_for /\ new.current_term = old.current_term

Dies(old, new) ==
    /\ new.role = "Dead" /\ new.current_term >= old.current_term

NodeStep(s, old, new) ==
    /\ old.role # "Dead"
    /\ \/ Stays(old, new) \/ Follows(s, old, new) \/ Yields(s, old, new)
       \/ Campaigns(s, old, new) \/ Leads(old, new) \/ Dies(old, new)

-----------------------------------------------------------------------------
(* What is sent carries no term that the sender has not reached            *)

Timely(out, term) ==
    \A d \in Server : \A i \in 1 .. Len(out[d]) : out[d][i].term <= term

LEMMA SendsTimely ==
    ASSUME NEW term \in Nat, NEW m, m.term <= term, NEW dest
    PROVE  /\ Timely(Silence, term) /\ Timely(Broadcast(m), term)
           /\ Timely(SendTo(dest, m), term)
<1>1. Timely(Silence, term)
  BY DEF Timely, Silence
<1>2. Timely(Broadcast(m), term)
  <2>1. Len(<<m>>) = 1 /\ <<m>>[1] = m
    OBVIOUS
  <2> QED
    BY <2>1 DEF Timely, Broadcast
<1>3. Timely(SendTo(dest, m), term)
  <2>1. Len(<<m>>) = 1 /\ <<m>>[1] = m /\ Len(<<>>) = 0
    OBVIOUS
  <2> QED
    BY <2>1 DEF Timely, SendTo
<1> QED
  BY <1>1, <1>2, <1>3

LEMMA SilenceTimely == \A term : Timely(Silence, term)
BY DEF Timely, Silence

LEMMA MessageTerms ==
    ASSUME NEW n \in NodeState
    PROVE  /\ n.current_term \in Nat
           /\ \A s : RequestVote(s, n).term <= n.current_term
           /\ \A b : RequestVoteResponse(n, b).term <= n.current_term
           /\ \A b : AppendEntriesResponse(n, b).term <= n.current_term
           /\ Heartbeat(n).term <= n.current_term
           /\ \A p : Retry(n, p).term <= n.current_term
           /\ \A p : Announcement(n, p).term <= n.current_term
<1>1. n.current_term \in Nat /\ n.current_term <= n.current_term
  BY DEF NodeState
<1>2. \A i, t, es : AppendEntries(n, i, t, es).term = n.current_term
  BY DEF AppendEntries
<1>3. /\ Heartbeat(n).term = n.current_term
      /\ \A p : Retry(n, p).term = n.current_term
      /\ \A p : Announcement(n, p).term = n.current_term
  BY <1>2, Zenon DEF Heartbeat, Retry, Announcement
<1>4. /\ \A s : RequestVote(s, n).term = n.current_term
      /\ \A b : RequestVoteResponse(n, b).term = n.current_term
      /\ \A b : AppendEntriesResponse(n, b).term = n.current_term
  BY DEF RequestVote, RequestVoteResponse, AppendEntriesResponse
<1> QED
  BY <1>1, <1>3, <1>4, Zenon

\* A response, to whomever it goes.
LEMMA ResponseTimely ==
    ASSUME NEW n \in NodeState, NEW dest, NEW b
    PROVE  /\ Timely(SendTo(dest, AppendEntriesResponse(n, b)), n.current_term)
           /\ Timely(SendTo(dest, RequestVoteResponse(n, b)), n.current_term)
<1>1. n.current_term \in Nat
  BY DEF NodeState
<1>2. /\ AppendEntriesResponse(n, b).term <= n.current_term
      /\ RequestVoteResponse(n, b).term <= n.current_term
  BY MessageTerms
<1> QED
  BY <1>1, <1>2, SendsTimely

-----------------------------------------------------------------------------
(* One step per handler                                                    *)

\* The handler of s for the message from src took a node step and sent only
\* messages of the term it ended in.
Handled(s, src) ==
    \E n \in NodeState, out \in Outgoing :
        /\ Finish(src, s, n, out)
        /\ NodeStep(s, node[s], n)
        /\ Timely(out, n.current_term)

\* An office that did not change is a node step of a node that runs.
LEMMA StaysStep ==
    ASSUME NEW s \in Server, NEW old \in NodeState, NEW new \in NodeState,
           old.role # "Dead", Office(new) = Office(old)
    PROVE  NodeStep(s, old, new)
BY DEF NodeStep, Stays

LEMMA LearnsIncoming ==
    ASSUME NEW s \in Server, NEW src \in Peers(s), wire[<<src, s>>] # <<>>
    PROVE  Learns(s, Incoming(s, src).term)
BY DEF Learns, Incoming

\* Stepping down is a node step: the term of the message is a higher one.
LEMMA YieldsStep ==
    ASSUME NEW s \in Server, NEW old \in NodeState, NEW term \in Nat,
           old.role \in {"Candidate", "Leader"}, term > old.current_term,
           Learns(s, term)
    PROVE  NodeStep(s, old, BecomeFollower(old, term))
<1> DEFINE new == BecomeFollower(old, term)
<1>1. new.role = "Follower" /\ new.voted_for = None /\ new.current_term = term
  BY DEF BecomeFollower, NodeState
<1> HIDE DEF new
<1>2. Yields(s, old, new)
  BY <1>1 DEF Yields
<1>3. NodeStep(s, old, new)
  BY <1>2 DEF NodeStep, Yields
<1> QED
  BY <1>3 DEF new

\* Panicking is a node step, if the term has not decreased before.
LEMMA DiesStep ==
    ASSUME NEW s \in Server, NEW old \in NodeState, NEW n \in NodeState,
           old.role # "Dead", n.current_term >= old.current_term
    PROVE  NodeStep(s, old, Panicked(n))
<1> DEFINE new == Panicked(n)
<1>1. new.role = "Dead" /\ new.current_term = n.current_term
  BY DEF Panicked, NodeState
<1> HIDE DEF new
<1>2. Dies(old, new)
  BY <1>1 DEF Dies
<1>3. NodeStep(s, old, new)
  BY <1>2 DEF NodeStep
<1> QED
  BY <1>3 DEF new

\* Observing an accepted message is a node step.
LEMMA ObserveStep ==
    ASSUME NEW s \in Server, NEW old \in NodeState, NEW m \in Message,
           NEW new \in NodeState, old.role # "Dead", Accepts(old, m),
           Learns(s, m.term), Office(new) = Office(Observe(old, m))
    PROVE  NodeStep(s, old, new) /\ m.term >= old.current_term
<1>1. /\ new.role = old.role /\ new.voted_for = old.voted_for
      /\ new.current_term = m.term
  BY ObserveOffice DEF Office
<1>2. m.term \in Nat /\ old.current_term \in Nat
  BY MessageFields DEF NodeState
<1>3. /\ m.term >= old.current_term
      /\ m.term > old.current_term => old.role = "Follower"
  BY <1>2 DEF Accepts, Rejects, StepsDown
<1>4. CASE m.term = old.current_term
  BY <1>1, <1>3, <1>4 DEF NodeStep, Stays, Office
<1>5. CASE m.term > old.current_term
  <2>1. Follows(s, old, new)
    BY <1>1, <1>3, <1>5 DEF Follows
  <2> QED
    BY <1>3, <2>1 DEF NodeStep
<1> QED
  BY <1>2, <1>3, <1>4, <1>5

LEMMA AppendEntriesHandled ==
    ASSUME TypeOK, NEW s \in Server, NEW src \in Peers(s),
           \/ RejectAppendEntries(s, src) \/ StepDownOnAppendEntries(s, src)
           \/ AcceptHeartbeat(s, src) \/ AcceptNewEntries(s, src)
           \/ PanicOnGap(s, src)
    PROVE  Handled(s, src)
<1> DEFINE n == node[s]
           m == Incoming(s, src)
<1>1. Receives(s, src, "AppendEntries") /\ n.role # "Dead"
  BY DEF RejectAppendEntries, StepDownOnAppendEntries, AcceptHeartbeat,
         AcceptNewEntries, PanicOnGap, Receives
<1>2. /\ n \in NodeState /\ m \in Message /\ m.kind = "AppendEntries"
      /\ wire[<<src, s>>] # <<>> /\ src \in Server
  BY <1>1, IncomingType
<1>3. Learns(s, m.term) /\ m.term \in Nat
  BY <1>2, LearnsIncoming, MessageFields
<1> SUFFICES \E k \in NodeState, out \in Outgoing :
               /\ Finish(src, s, k, out)
               /\ NodeStep(s, n, k)
               /\ Timely(out, k.current_term)
  BY DEF Handled
<1> HIDE DEF n, m
<1>4. CASE RejectAppendEntries(s, src)
  <2> DEFINE out == SendTo(src, AppendEntriesResponse(n, FALSE))
  <2>1. Finish(src, s, n, out)
    BY <1>4 DEF RejectAppendEntries, n, m
  <2>2. out \in Outgoing
    BY <1>2, ResponseTypes, OutgoingTypes
  <2>3. NodeStep(s, n, n)
    BY <1>1, <1>2, StaysStep
  <2>4. Timely(out, n.current_term)
    BY <1>2, ResponseTimely
  <2> HIDE DEF out
  <2> QED
    BY <1>2, <2>1, <2>2, <2>3, <2>4
<1>5. CASE StepDownOnAppendEntries(s, src)
  <2> DEFINE k == BecomeFollower(n, m.term)
  <2>1. Finish(src, s, k, Silence) /\ StepsDown(n, m)
    BY <1>5 DEF StepDownOnAppendEntries, n, m
  <2>2. k \in NodeState
    BY <1>2, <1>3, BecomeFollowerType
  <2>3. n.role \in {"Candidate", "Leader"} /\ m.term > n.current_term
    BY <1>1, <1>2, <2>1 DEF StepsDown, NodeState
  <2>4. NodeStep(s, n, k)
    BY <1>2, <1>3, <2>3, YieldsStep
  <2> HIDE DEF k
  <2> QED
    BY <2>1, <2>2, <2>4, SilenceType, SilenceTimely
<1>6. CASE AcceptHeartbeat(s, src)
  <2> DEFINE k == Observe(n, m)
  <2>1. Finish(src, s, k, Silence) /\ Accepts(n, m)
    BY <1>6 DEF AcceptHeartbeat, n, m
  <2>2. k \in NodeState
    BY <1>2, ObserveType
  <2>3. NodeStep(s, n, k)
    BY <1>1, <1>2, <1>3, <2>1, <2>2, ObserveStep
  <2> HIDE DEF k
  <2> QED
    BY <2>1, <2>2, <2>3, SilenceType, SilenceTimely
<1>7. CASE AcceptNewEntries(s, src)
  <2> DEFINE k == Store(Observe(n, m), m)
             out == SendTo(src, AppendEntriesResponse(k, TRUE))
  <2>1. /\ Finish(src, s, k, out) /\ Accepts(n, m)
        /\ m.entries # <<>> /\ ~ LeavesGap(n.log, m.entries)
    BY <1>7 DEF AcceptNewEntries, n, m
  <2>2. k \in NodeState /\ Office(k) = Office(Observe(n, m))
    BY <1>2, <2>1, ObserveType, ObserveLog, StoreType, StoreOffice
  <2>3. NodeStep(s, n, k)
    BY <1>1, <1>2, <1>3, <2>1, <2>2, ObserveStep
  <2> HIDE DEF k
  <2>4. out \in Outgoing
    BY <1>2, <2>2, ResponseTypes, OutgoingTypes
  <2>5. Timely(out, k.current_term)
    BY <2>2, ResponseTimely
  <2> HIDE DEF out
  <2> QED
    BY <2>1, <2>2, <2>3, <2>4, <2>5
<1>8. CASE PanicOnGap(s, src)
  <2> DEFINE o == Observe(n, m)
             k == Panicked(o)
  <2>1. Finish(src, s, k, Silence) /\ Accepts(n, m)
    BY <1>8 DEF PanicOnGap, n, m
  <2>2. o \in NodeState /\ k \in NodeState
    BY <1>2, ObserveType, PanickedType
  <2>3. m.term >= n.current_term /\ o.current_term = m.term
    BY <1>1, <1>2, <1>3, <2>1, <2>2, ObserveStep, ObserveOffice DEF Office
  <2> HIDE DEF o
  <2>4. NodeStep(s, n, k)
    BY <1>1, <1>2, <2>2, <2>3, DiesStep
  <2> HIDE DEF k
  <2> QED
    BY <2>1, <2>2, <2>4, SilenceType, SilenceTimely
<1> QED
  BY <1>4, <1>5, <1>6, <1>7, <1>8

LEMMA VotesHandled ==
    ASSUME TypeOK, NEW s \in Server, NEW src \in Peers(s),
           \/ HandleRequestVote(s, src) \/ IgnoreVoteResponse(s, src)
           \/ StepDownOnVoteResponse(s, src) \/ CountVote(s, src)
           \/ WinElection(s, src)
    PROVE  Handled(s, src)
<1> DEFINE n == node[s]
           m == Incoming(s, src)
<1>1. /\ Receives(s, src, "RequestVote") \/ Receives(s, src, "RequestVoteResponse")
      /\ n.role # "Dead"
  BY DEF HandleRequestVote, IgnoreVoteResponse, StepDownOnVoteResponse,
         CountVote, WinElection, Receives
<1>2. /\ n \in NodeState /\ m \in Message
      /\ wire[<<src, s>>] # <<>> /\ src \in Server
  BY <1>1, IncomingType
<1>3. Learns(s, m.term) /\ m.term \in Nat
  BY <1>2, LearnsIncoming, MessageFields
<1> SUFFICES \E k \in NodeState, out \in Outgoing :
               /\ Finish(src, s, k, out)
               /\ NodeStep(s, n, k)
               /\ Timely(out, k.current_term)
  BY DEF Handled
<1> HIDE DEF n, m
<1>4. CASE HandleRequestVote(s, src)
  <2> DEFINE granted == ~ DeniesVote(n, m)
             out == SendTo(m.candidate_id, RequestVoteResponse(n, granted))
  <2>1. Finish(src, s, n, out)
    BY <1>4 DEF HandleRequestVote, n, m
  <2>2. granted \in BOOLEAN
    OBVIOUS
  <2> HIDE DEF granted
  <2>3. out \in Outgoing
    BY <1>2, <2>2, ResponseTypes, OutgoingTypes
  <2>4. NodeStep(s, n, n)
    BY <1>1, <1>2, StaysStep
  <2>5. Timely(out, n.current_term)
    BY <1>2, ResponseTimely
  <2> HIDE DEF out
  <2> QED
    BY <1>2, <2>1, <2>3, <2>4, <2>5
<1>5. CASE IgnoreVoteResponse(s, src)
  <2>1. Finish(src, s, n, Silence)
    BY <1>5 DEF IgnoreVoteResponse, n, m
  <2>2. NodeStep(s, n, n)
    BY <1>1, <1>2, StaysStep
  <2> QED
    BY <1>2, <2>1, <2>2, SilenceType, SilenceTimely
<1>6. CASE StepDownOnVoteResponse(s, src)
  <2> DEFINE k == BecomeFollower(n, m.term)
  <2>1. /\ Finish(src, s, k, Silence)
        /\ n.role = "Candidate" /\ m.term > n.current_term
    BY <1>6 DEF StepDownOnVoteResponse, n, m
  <2>2. k \in NodeState
    BY <1>2, <1>3, BecomeFollowerType
  <2>3. NodeStep(s, n, k)
    BY <1>2, <1>3, <2>1, YieldsStep
  <2> HIDE DEF k
  <2> QED
    BY <2>1, <2>2, <2>3, SilenceType, SilenceTimely
<1>7. CASE CountVote(s, src)
  <2>1. Finish(src, s, Counted(n), Silence)
    BY <1>7 DEF CountVote, n, m
  <2>2. Counted(n) \in NodeState /\ Office(Counted(n)) = Office(n)
    BY <1>2, CountedType, LeaderUpdatesOffice
  <2>3. NodeStep(s, n, Counted(n))
    BY <1>1, <1>2, <2>2, StaysStep
  <2> QED
    BY <2>1, <2>2, <2>3, SilenceType, SilenceTimely
<1>8. CASE WinElection(s, src)
  <2> DEFINE c == Counted(n)
             k == TakeOffice(c)
             out == Broadcast(Heartbeat(k))
  <2>1. Finish(src, s, k, out) /\ n.role = "Candidate"
    <3>1. Counted(n).role = n.role
      BY <1>2 DEF Counted, NodeState
    <3> QED
      BY <1>8, <3>1 DEF WinElection, n, m
  <2>2. c \in NodeState /\ Office(c) = Office(n)
    BY <1>2, CountedType, LeaderUpdatesOffice
  <2> HIDE DEF c
  <2>3. k \in NodeState /\ Office(k) = <<"Leader", c.voted_for, c.current_term>>
    BY <2>2, TakeOfficeType, TakeOfficeOffice
  <2> HIDE DEF k
  <2>4. Leads(n, k)
    BY <2>1, <2>2, <2>3 DEF Leads, Office
  <2>5. NodeStep(s, n, k)
    BY <1>1, <2>4 DEF NodeStep
  <2>6. k.current_term \in Nat /\ Heartbeat(k).term <= k.current_term
    BY <2>3, MessageTerms
  <2>7. out \in Outgoing /\ Timely(out, k.current_term)
    BY <2>3, <2>6, HeartbeatType, OutgoingTypes, SendsTimely
  <2> HIDE DEF out
  <2> QED
    BY <2>1, <2>3, <2>5, <2>7
<1> QED
  BY <1>4, <1>5, <1>6, <1>7, <1>8

LEMMA ResponsesHandled ==
    ASSUME TypeOK, NEW s \in Server, NEW src \in Peers(s),
           \/ IgnoreAppendEntriesResponse(s, src)
           \/ StepDownOnAppendEntriesResponse(s, src)
           \/ RecordSuccess(s, src) \/ CommitAndAnswer(s, src)
           \/ RetryAfterFailure(s, src) \/ PanicOnFailure(s, src)
    PROVE  Handled(s, src)
<1> DEFINE n == node[s]
           m == Incoming(s, src)
<1>1. Receives(s, src, "AppendEntriesResponse") /\ n.role # "Dead"
  BY DEF IgnoreAppendEntriesResponse, StepDownOnAppendEntriesResponse,
         RecordSuccess, CommitAndAnswer, RetryAfterFailure, PanicOnFailure,
         Counts, Receives
<1>2. /\ n \in NodeState /\ m \in Message
      /\ wire[<<src, s>>] # <<>> /\ src \in Server
  BY <1>1, IncomingType
<1>3. Learns(s, m.term) /\ m.term \in Nat
  BY <1>2, LearnsIncoming, MessageFields
<1> SUFFICES \E k \in NodeState, out \in Outgoing :
               /\ Finish(src, s, k, out)
               /\ NodeStep(s, n, k)
               /\ Timely(out, k.current_term)
  BY DEF Handled
<1> HIDE DEF n, m
<1>4. CASE IgnoreAppendEntriesResponse(s, src)
  <2>1. Finish(src, s, n, Silence)
    BY <1>4 DEF IgnoreAppendEntriesResponse, n
  <2>2. NodeStep(s, n, n)
    BY <1>1, <1>2, StaysStep
  <2> QED
    BY <1>2, <2>1, <2>2, SilenceType, SilenceTimely
<1>5. CASE StepDownOnAppendEntriesResponse(s, src)
  <2> DEFINE k == BecomeFollower(n, m.term)
  <2>1. /\ Finish(src, s, k, Silence)
        /\ n.role = "Leader" /\ m.term > n.current_term
    BY <1>5 DEF StepDownOnAppendEntriesResponse, n, m
  <2>2. k \in NodeState
    BY <1>2, <1>3, BecomeFollowerType
  <2>3. NodeStep(s, n, k)
    BY <1>2, <1>3, <2>1, YieldsStep
  <2> HIDE DEF k
  <2> QED
    BY <2>1, <2>2, <2>3, SilenceType, SilenceTimely
<1>6. CASE RecordSuccess(s, src)
  <2> DEFINE k == Acknowledged(n, src)
  <2>1. Finish(src, s, k, Silence)
    BY <1>6 DEF RecordSuccess, n
  <2>2. k \in NodeState /\ Office(k) = Office(n)
    BY <1>2, AcknowledgedType, LeaderUpdatesOffice
  <2>3. NodeStep(s, n, k)
    BY <1>1, <1>2, <2>2, StaysStep
  <2> HIDE DEF k
  <2> QED
    BY <2>1, <2>2, <2>3, SilenceType, SilenceTimely
<1>7. CASE CommitAndAnswer(s, src)
  <2> DEFINE a == Acknowledged(n, src)
             c == AdvanceCommit(a)
             k == ApplyOwn(s, c)
  <2>1. Finish(src, s, k, Silence) /\ Committable(a) # {}
    BY <1>7 DEF CommitAndAnswer, n
  <2>2. a \in NodeState /\ Office(a) = Office(n)
    BY <1>2, AcknowledgedType, LeaderUpdatesOffice
  <2> HIDE DEF a
  <2>3. c \in NodeState /\ Office(c) = Office(a)
    BY <1>2, <2>2, AdvanceCommitType, LeaderUpdatesOffice
  <2> HIDE DEF c
  <2>4. k \in NodeState /\ Office(k) = Office(c)
    BY <2>3, ApplyOwnType, ApplyOwnOffice
  <2>5. NodeStep(s, n, k)
    BY <1>1, <1>2, <2>2, <2>3, <2>4, StaysStep
  <2> HIDE DEF k
  <2> QED
    BY <2>1, <2>4, <2>5, SilenceType, SilenceTimely
<1>8. CASE RetryAfterFailure(s, src)
  <2> DEFINE b == BackedOff(n, src)
             k == AdvanceCommit(b)
             out == SendTo(src, Retry(b, src))
  <2>1. Finish(src, s, k, out) /\ Has(b.log, b.next_index[src])
    BY <1>8 DEF RetryAfterFailure, n
  <2>2. b \in NodeState /\ Office(b) = Office(n)
    BY <1>2, BackedOffType, LeaderUpdatesOffice
  <2> HIDE DEF b
  <2>3. k \in NodeState /\ Office(k) = Office(b)
    BY <1>2, <2>2, AdvanceCommitType, LeaderUpdatesOffice
  <2> HIDE DEF k
  <2>4. NodeStep(s, n, k)
    BY <1>1, <1>2, <2>2, <2>3, StaysStep
  <2>5. k.current_term \in Nat /\ Retry(b, src).term <= k.current_term
    <3>1. k.current_term = b.current_term
      BY <2>3 DEF Office
    <3> QED
      BY <2>2, <3>1, MessageTerms
  <2>6. out \in Outgoing /\ Timely(out, k.current_term)
    BY <1>2, <2>1, <2>2, <2>5, RetryType, OutgoingTypes, SendsTimely
  <2> HIDE DEF out
  <2> QED
    BY <2>1, <2>3, <2>4, <2>6
<1>9. CASE PanicOnFailure(s, src)
  <2> DEFINE b == BackedOff(n, src)
             k == Panicked(b)
  <2>1. Finish(src, s, k, Silence)
    BY <1>9 DEF PanicOnFailure, n
  <2>2. b \in NodeState /\ Office(b) = Office(n)
    BY <1>2, BackedOffType, LeaderUpdatesOffice
  <2> HIDE DEF b
  <2>3. k \in NodeState
    BY <2>2, PanickedType
  <2>4. b.current_term >= n.current_term
    BY <1>2, <2>2 DEF Office, NodeState
  <2>5. NodeStep(s, n, k)
    BY <1>1, <1>2, <2>2, <2>4, DiesStep
  <2> HIDE DEF k
  <2> QED
    BY <2>1, <2>3, <2>5, SilenceType, SilenceTimely
<1> QED
  BY <1>4, <1>5, <1>6, <1>7, <1>8, <1>9

LEMMA MessagesHandled ==
    ASSUME TypeOK, NEW s \in Server, NEW src \in Peers(s), HandleMessage(s, src)
    PROVE  Handled(s, src)
BY AppendEntriesHandled, VotesHandled, ResponsesHandled DEF HandleMessage

-----------------------------------------------------------------------------
(* The same for the steps that handle no message, and for every step       *)

\* One node at most takes a node step, the others stay as they are; a message
\* that is on a link after the step was there before, or its sender has
\* reached its term.
Progress ==
    /\ \A t \in Server : node'[t] = node[t] \/ NodeStep(t, node[t], node'[t])
    /\ \E s \in Server : \A t \in Server \ {s} : node'[t] = node[t]
    /\ \A p \in Link : \A i \in 1 .. Len(wire'[p]) :
          \/ WasThere(p, wire'[p][i])
          \/ wire'[p][i].term <= node'[p[1]].current_term

LEMMA TimelySends ==
    ASSUME NEW out, NEW term, Timely(out, term), NEW d \in Server, NEW m,
           Sends(out, d, m)
    PROVE  m.term <= term
BY DEF Timely, Sends

LEMMA SendProgress ==
    ASSUME TypeOK, NEW s \in Server, NEW n \in NodeState,
           NEW out \in Outgoing, node' = [node EXCEPT ![s] = n],
           Send(s, out), Timely(out, n.current_term),
           n = node[s] \/ NodeStep(s, node[s], n)
    PROVE  Progress
<1>1. /\ node \in [Server -> NodeState] /\ n.current_term \in Nat
      /\ node'[s] = n
  BY DEF TypeOK, NodeState
<1>2. /\ \A t \in Server : node'[t] = node[t] \/ NodeStep(t, node[t], node'[t])
      /\ \A t \in Server \ {s} : node'[t] = node[t]
  BY <1>1
<1>3. ASSUME NEW p \in Link, NEW i \in 1 .. Len(wire'[p])
      PROVE  \/ WasThere(p, wire'[p][i])
             \/ wire'[p][i].term <= node'[p[1]].current_term
  <2>1. p[2] \in Server
    BY DEF Link
  <2> QED
    BY <1>1, <2>1, SendMessages, TimelySends
<1> QED
  BY <1>2, <1>3 DEF Progress

LEMMA HandledProgress ==
    ASSUME TypeOK, NEW s \in Server, NEW src \in Peers(s), Handled(s, src),
           wire[<<src, s>>] # <<>>
    PROVE  Progress
<1>1. PICK n \in NodeState, out \in Outgoing :
        /\ Finish(src, s, n, out)
        /\ NodeStep(s, node[s], n)
        /\ Timely(out, n.current_term)
  BY DEF Handled
<1> DEFINE k == Resume(n)
<1>2. node' = [node EXCEPT ![s] = k]
  BY <1>1 DEF Finish
<1>3. /\ node \in [Server -> NodeState] /\ n.current_term \in Nat
      /\ k \in NodeState /\ Office(k) = Office(n)
  BY ResumeType, ResumeOffice DEF TypeOK, NodeState
<1> HIDE DEF k
<1>4. node'[s] = k /\ k.current_term = n.current_term
  BY <1>2, <1>3 DEF Office
<1>5. NodeStep(s, node[s], k)
  BY <1>1, <1>3 DEF NodeStep, Office, Stays, Follows, Yields, Campaigns,
                    Leads, Dies
<1>6. /\ \A t \in Server : node'[t] = node[t] \/ NodeStep(t, node[t], node'[t])
      /\ \A t \in Server \ {s} : node'[t] = node[t]
  BY <1>2, <1>3, <1>4, <1>5
<1>7. ASSUME NEW p \in Link, NEW i \in 1 .. Len(wire'[p])
      PROVE  \/ WasThere(p, wire'[p][i])
             \/ wire'[p][i].term <= node'[p[1]].current_term
  <2>1. p[2] \in Server
    BY DEF Link
  <2>2. RequestVote(s, n).term <= n.current_term
    BY MessageTerms
  <2> QED
    BY <1>1, <1>4, <2>1, <2>2, FinishMessages, TimelySends
<1> QED
  BY <1>6, <1>7 DEF Progress

LEMMA TimersProgress ==
    ASSUME TypeOK, NEW s \in Server, Timers(s)
    PROVE  Progress
<1> DEFINE n == node[s]
<1>1. n \in NodeState /\ node = [node EXCEPT ![s] = n]
  BY DEF TypeOK
<1>2. CASE ElectionTimeout(s)
  <2> DEFINE k == BecomeCandidate(s, n)
             out == Broadcast(RequestVote(s, k))
  <2>1. /\ node' = [node EXCEPT ![s] = k] /\ Send(s, out)
        /\ n.role = "Follower"
    BY <1>2 DEF ElectionTimeout
  <2>2. k \in NodeState
    BY <1>1, BecomeCandidateType
  <2>3. /\ k.role = "Candidate" /\ k.voted_for = s
        /\ k.current_term = n.current_term + 1
    BY <1>1 DEF BecomeCandidate, NodeState
  <2> HIDE DEF k
  <2>4. NodeStep(s, n, k)
    BY <2>1, <2>3 DEF NodeStep, Campaigns
  <2>5. k.current_term \in Nat /\ RequestVote(s, k).term <= k.current_term
    BY <2>2, MessageTerms
  <2>6. out \in Outgoing /\ Timely(out, k.current_term)
    BY <2>2, <2>5, RequestVoteType, OutgoingTypes, SendsTimely
  <2> HIDE DEF out
  <2> QED
    BY <2>1, <2>2, <2>4, <2>6, SendProgress
<1>3. CASE CandidateTimeout(s)
  <2> DEFINE out == Broadcast(RequestVote(s, n))
  <2>1. node' = node /\ Send(s, out)
    BY <1>3 DEF CandidateTimeout
  <2>2. n.current_term \in Nat /\ RequestVote(s, n).term <= n.current_term
    BY <1>1, MessageTerms
  <2>3. out \in Outgoing /\ Timely(out, n.current_term)
    BY <1>1, <2>2, RequestVoteType, OutgoingTypes, SendsTimely
  <2> HIDE DEF out
  <2> QED
    BY <1>1, <2>1, <2>3, SendProgress
<1>4. CASE HeartbeatTimeout(s)
  <2> DEFINE out == Broadcast(Heartbeat(n))
  <2>1. node' = node /\ Send(s, out)
    BY <1>4 DEF HeartbeatTimeout
  <2>2. n.current_term \in Nat /\ Heartbeat(n).term <= n.current_term
    BY <1>1, MessageTerms
  <2>3. out \in Outgoing /\ Timely(out, n.current_term)
    BY <1>1, <2>2, HeartbeatType, OutgoingTypes, SendsTimely
  <2> HIDE DEF out
  <2> QED
    BY <1>1, <2>1, <2>3, SendProgress
<1> QED
  BY <1>2, <1>3, <1>4 DEF Timers

LEMMA ClientSetProgress ==
    ASSUME TypeOK, NEW s \in Server, NEW r \in Request, ClientSet(s, r)
    PROVE  Progress
<1> DEFINE n == [node[s] EXCEPT !.log = Append(@, NewEntry(node[s], r))]
<1>1. node[s] \in NodeState /\ node[s].role = "Leader"
  BY DEF TypeOK, ClientSet
<1>2. n \in NodeState /\ n.log # <<>> /\ Office(n) = Office(node[s])
  BY <1>1, PushType, LeaderUpdatesOffice
<1>3. PICK order \in SetToSeqs(Peers(s)), k \in 0 .. Cardinality(Peers(s)) :
        /\ Reaches(n, order, k)
        /\ node' = [node EXCEPT ![s] = IF k = Len(order) THEN MarkSent(s, n)
                                                        ELSE Panicked(n)]
        /\ Send(s, Announcements(n, order, k))
  BY DEF ClientSet
<1> HIDE DEF n
<1> DEFINE out == Announcements(n, order, k)
           new == IF k = Len(order) THEN MarkSent(s, n) ELSE Panicked(n)
<1>4. MarkSent(s, n) \in NodeState /\ Panicked(n) \in NodeState
  BY <1>2, MarkSentType, PanickedType
<1>5. /\ NodeStep(s, node[s], MarkSent(s, n))
      /\ MarkSent(s, n).current_term = n.current_term
  BY <1>1, <1>2, <1>4, StaysStep, LeaderUpdatesOffice DEF Office
<1>6. /\ NodeStep(s, node[s], Panicked(n))
      /\ Panicked(n).current_term = n.current_term
  <2>1. n.current_term >= node[s].current_term
    BY <1>1, <1>2 DEF Office, NodeState
  <2>2. Panicked(n).current_term = n.current_term
    BY <1>2, PanickedOffice DEF Office
  <2> QED
    BY <1>1, <1>2, <2>1, <2>2, DiesStep
<1>7. out \in Outgoing
  BY <1>2, <1>3, AnnouncementsType
<1>8. Timely(out, n.current_term)
  <2>1. n.current_term \in Nat
    BY <1>2 DEF NodeState
  <2>2. \A i \in 1 .. k : Announcement(n, order[i]).term <= n.current_term
    BY <1>2, <2>1, MessageTerms
  <2>3. \A d \in Server : Len(out[d]) = k
    BY DEF Announcements
  <2> QED
    BY <2>2, <2>3 DEF Timely, Announcements
<1>9. new \in NodeState /\ NodeStep(s, node[s], new)
      /\ Timely(out, new.current_term)
  BY <1>4, <1>5, <1>6, <1>8
<1>10. node' = [node EXCEPT ![s] = new] /\ Send(s, out)
  BY <1>3
<1> HIDE DEF new, out
<1> QED
  BY <1>7, <1>9, <1>10, SendProgress

LEMMA LinkStepsProgress ==
    ASSUME TypeOK, NEW p \in Link, Register(p) \/ BreakLink(p)
    PROVE  Progress
<1>1. node' = node /\ p[1] \in Server
  BY DEF Register, BreakLink, Link
<1>2. \A r \in Link : \A i \in 1 .. Len(wire'[r]) : WasThere(r, wire'[r][i])
  BY LinkStepsMessages
<1> QED
  BY <1>1, <1>2 DEF Progress

LEMMA EveryNodeStep ==
    ASSUME TypeOK, [Next]_vars
    PROVE  Progress
<1>1. CASE \E s \in Server : Timers(s)
  BY <1>1, TimersProgress
<1>2. ASSUME NEW s \in Server, NEW src \in Peers(s), HandleMessage(s, src)
      PROVE  Progress
  <2>1. wire[<<src, s>>] # <<>>
    BY <1>2 DEF HandleMessage, RejectAppendEntries, StepDownOnAppendEntries,
       AcceptHeartbeat, AcceptNewEntries, PanicOnGap, HandleRequestVote,
       IgnoreVoteResponse, StepDownOnVoteResponse, CountVote, WinElection,
       IgnoreAppendEntriesResponse, StepDownOnAppendEntriesResponse,
       RecordSuccess, CommitAndAnswer, RetryAfterFailure, PanicOnFailure,
       Counts, Receives
  <2> QED
    BY <1>2, <2>1, MessagesHandled, HandledProgress
<1>3. CASE \E s \in Server, r \in Request : ClientSet(s, r)
  BY <1>3, ClientSetProgress
<1>4. CASE \E p \in Link : Register(p) \/ BreakLink(p)
  BY <1>4, LinkStepsProgress
<1>5. CASE UNCHANGED vars
  <2>1. Server # {}
    BY ServerAssumption, FS_EmptySet
  <2> QED
    BY <1>5, <2>1 DEF vars, Progress, WasThere
<1> QED
  BY <1>1, <1>2, <1>3, <1>4, <1>5 DEF Next

-----------------------------------------------------------------------------
(* Theorems about elections                                                *)

\* In every execution a follower has no vote and every other running node has
\* voted for itself (BecomeFollower and BecomeCandidate are the only writers
\* of voted_for, though five handlers change the role or the term).
THEOREM VoteBookkept == Spec => []VoteBookkeeping
<1>1. Init => VoteBookkeeping
  BY DEF Init, InitialNode, VoteBookkeeping
<1>2. TypeOK /\ VoteBookkeeping /\ [Next]_vars => VoteBookkeeping'
  <2> SUFFICES ASSUME TypeOK, VoteBookkeeping, [Next]_vars, NEW s \in Server
               PROVE  /\ node'[s].role = "Follower" => node'[s].voted_for = None
                      /\ node'[s].role \in {"Candidate", "Leader"}
                            => node'[s].voted_for = s
    BY DEF VoteBookkeeping
  <2>1. node'[s] = node[s] \/ NodeStep(s, node[s], node'[s])
    BY EveryNodeStep DEF Progress
  <2>2. /\ node[s].role = "Follower" => node[s].voted_for = None
        /\ node[s].role \in {"Candidate", "Leader"} => node[s].voted_for = s
    BY DEF VoteBookkeeping
  <2> QED
    BY <2>1, <2>2 DEF NodeStep, Stays, Office, Follows, Yields, Campaigns,
                      Leads, Dies
<1> QED
  BY <1>1, <1>2, TypeCorrect, PTL DEF Spec

\* Every step of every execution changes roles as RoleChange says: terms never
\* decrease, a node leads or campaigns at most once per term, and steps down
\* only for a higher one.
THEOREM RolesChange == Spec => RoleChanges
<1>1. TypeOK /\ TypeOK' /\ [Next]_vars
        => [\A s \in Server : RoleChange(node[s], node'[s])]_vars
  <2> SUFFICES ASSUME TypeOK, TypeOK', [Next]_vars, NEW s \in Server
               PROVE  RoleChange(node[s], node'[s])
    OBVIOUS
  <2> DEFINE old == node[s]
             new == node'[s]
  <2>1. new = old \/ NodeStep(s, old, new)
    BY EveryNodeStep DEF Progress
  <2>2. old.current_term \in Nat /\ new.current_term \in Nat
    BY DEF TypeOK, NodeState
  <2> HIDE DEF old, new
  <2>3. new = old => RoleChange(old, new)
    BY <2>2 DEF RoleChange
  <2>4. NodeStep(s, old, new) => RoleChange(old, new)
    BY <2>2 DEF RoleChange, NodeStep, Stays, Office, Follows, Yields,
                      Campaigns, Leads, Dies
  <2> QED
    BY <2>1, <2>3, <2>4 DEF old, new
<1> QED
  BY <1>1, TypeCorrect, PTL DEF Spec, RoleChanges

TermsReached ==
    \A p \in Link : \A i \in 1 .. Len(wire[p]) :
        wire[p][i].term <= node[p[1]].current_term

Campaigner(s) ==
    \E t \in Server : /\ node[t].current_term >= node[s].current_term
                      /\ node[t].role # "Follower"

LEMMA TermsIncrease ==
    ASSUME TypeOK, TypeOK', Progress, NEW s \in Server
    PROVE  /\ node[s].current_term \in Nat /\ node'[s].current_term \in Nat
           /\ node'[s].current_term >= node[s].current_term
<1>1. node[s].current_term \in Nat /\ node'[s].current_term \in Nat
  BY DEF TypeOK, NodeState
<1> QED
  BY <1>1 DEF Progress, NodeStep, Stays, Office, Follows, Yields, Campaigns,
              Leads, Dies

LEMMA TermsReachedStep ==
    ASSUME TypeOK, TypeOK', TermsReached, Progress
    PROVE  TermsReached'
<1> SUFFICES ASSUME NEW p \in Link, NEW i \in 1 .. Len(wire'[p])
             PROVE  wire'[p][i].term <= node'[p[1]].current_term
  BY DEF TermsReached
<1>1. p[1] \in Server
  BY DEF Link
<1>2. CASE WasThere(p, wire'[p][i])
  <2>1. PICK j \in 1 .. Len(wire[p]) : wire'[p][i] = wire[p][j]
    BY <1>2 DEF WasThere
  <2>2. wire[p][j] \in Message
    BY DEF TypeOK
  <2>3. wire[p][j].term \in Nat /\ wire[p][j].term <= node[p[1]].current_term
    BY <2>2, MessageFields DEF TermsReached
  <2> QED
    BY <1>1, <2>1, <2>3, TermsIncrease
<1> QED
  BY <1>2 DEF Progress

\* A term that s learns has been reached by another node.
LEMMA LearnedTermReached ==
    ASSUME TypeOK, TermsReached, NEW s \in Server, NEW term, Learns(s, term)
    PROVE  \E src \in Server : term <= node[src].current_term
<1>1. PICK src \in Peers(s) : /\ wire[<<src, s>>] # <<>>
                              /\ Head(wire[<<src, s>>]).term = term
  BY DEF Learns
<1>2. <<src, s>> \in Link /\ src \in Server
  BY LinkType
<1>3. wire[<<src, s>>] \in Seq(Message)
  BY <1>2 DEF TypeOK
<1>4. /\ 1 \in 1 .. Len(wire[<<src, s>>])
      /\ wire[<<src, s>>][1] = Head(wire[<<src, s>>])
  BY <1>1, <1>3
<1>5. wire[<<src, s>>][1].term <= node[src].current_term
  BY <1>2, <1>4 DEF TermsReached
<1> QED
  BY <1>1, <1>2, <1>4, <1>5

\* The term a follower ends a step with had been reached before the step.
LEMMA FollowerTermReached ==
    ASSUME TypeOK, TypeOK', TermsReached, Progress,
           NEW s \in Server, node'[s].role = "Follower"
    PROVE  \E t \in Server : node'[s].current_term <= node[t].current_term
<1>1. node[s].current_term \in Nat
  BY DEF TypeOK, NodeState
<1>2. CASE node'[s].current_term = node[s].current_term
  BY <1>1, <1>2
<1>3. CASE Learns(s, node'[s].current_term)
  BY <1>3, LearnedTermReached
<1> QED
  BY <1>2, <1>3 DEF Progress, NodeStep, Stays, Office, Follows, Yields,
                    Campaigns, Leads, Dies

\* The node that has campaigned for the highest term can be overtaken only by
\* the term of another one, which no message can exceed.
LEMMA CampaignerStep ==
    ASSUME TypeOK, TypeOK', TermsReached, Progress,
           \A s \in Server : node[s].current_term > 0 => Campaigner(s),
           NEW s \in Server, node'[s].current_term > 0
    PROVE  Campaigner(s)'
<1>1. SUFFICES \E t \in Server :
                  /\ node'[t].current_term >= node'[s].current_term
                  /\ node'[t].role # "Follower"
  BY DEF Campaigner
<1>2. /\ \A t \in Server : node[t].current_term \in Nat
      /\ \A t \in Server : node'[t].current_term \in Nat
      /\ \A t \in Server : node'[t].current_term >= node[t].current_term
  BY TermsIncrease
<1>3. CASE node'[s].role # "Follower"
  BY <1>2, <1>3
<1>4. CASE node'[s].role = "Follower"
  <2>1. PICK y \in Server : node'[s].current_term <= node[y].current_term
    BY <1>4, FollowerTermReached
  <2>2. PICK u \in Server : /\ node[u].current_term >= node[y].current_term
                            /\ node[u].role # "Follower"
    BY <1>2, <2>1 DEF Campaigner
  <2>3. CASE node'[u].role # "Follower"
    BY <1>2, <2>1, <2>2, <2>3
  <2>4. CASE node'[u].role = "Follower"
    <3>1. Yields(u, node[u], node'[u])
      BY <2>2, <2>4 DEF Progress, NodeStep, Stays, Office, Follows, Campaigns,
                        Leads, Dies
    <3>2. PICK src \in Server : node'[u].current_term <= node[src].current_term
      BY <3>1, LearnedTermReached DEF Yields
    <3>3. node'[u].current_term > node[u].current_term
      BY <3>1 DEF Yields
    <3>4. PICK v \in Server : /\ node[v].current_term >= node[src].current_term
                              /\ node[v].role # "Follower"
      BY <1>2, <3>2, <3>3 DEF Campaigner
    <3>5. v # u
      BY <1>2, <3>2, <3>3, <3>4
    <3>6. node'[u] # node[u]
      BY <1>2, <3>3
    <3>7. node'[v] = node[v]
      BY <3>5, <3>6 DEF Progress
    <3> QED
      BY <1>2, <2>1, <2>2, <3>2, <3>3, <3>4, <3>7
  <2> QED
    BY <2>3, <2>4
<1> QED
  BY <1>3, <1>4

\* In every execution no message outruns its sender's term, and some node
\* remembers having campaigned for the highest term.
THEOREM CampaignsRemembered == Spec => []CampaignNeverForgotten
<1>1. CampaignNeverForgotten
        <=> /\ TermsReached
            /\ \A s \in Server : node[s].current_term > 0 => Campaigner(s)
  BY DEF CampaignNeverForgotten, TermsReached, Campaigner
<1>2. Init => CampaignNeverForgotten
  <2> SUFFICES ASSUME Init PROVE CampaignNeverForgotten
    OBVIOUS
  <2>1. \A s \in Server : node[s].current_term = 0
    BY DEF Init, InitialNode
  <2>2. \A p \in Link : Len(wire[p]) = 0
    BY DEF Init
  <2> QED
    BY <2>1, <2>2 DEF CampaignNeverForgotten
<1>3. TypeOK /\ TypeOK' /\ CampaignNeverForgotten /\ [Next]_vars
        => CampaignNeverForgotten'
  <2> SUFFICES ASSUME TypeOK, TypeOK', CampaignNeverForgotten, [Next]_vars
               PROVE  CampaignNeverForgotten'
    OBVIOUS
  <2>1. Progress
    BY EveryNodeStep
  <2>2. TermsReached'
    BY <1>1, <2>1, TermsReachedStep
  <2>3. \A s \in Server : node'[s].current_term > 0 => Campaigner(s)'
    BY <1>1, <2>1, CampaignerStep
  <2> QED
    BY <2>2, <2>3 DEF CampaignNeverForgotten, TermsReached, Campaigner
<1> QED
  BY <1>2, <1>3, TypeCorrect, PTL DEF Spec

-----------------------------------------------------------------------------
(* Followers apply what is committed                                       *)

CaughtUp(n) ==
    n.role = "Follower" => \/ n.last_applied >= n.commit_index
                           \/ n.last_applied >= LastIndex(n.log)

LEMMA ResumeCaughtUp ==
    ASSUME NEW n \in NodeState
    PROVE  CaughtUp(Resume(n))
<1>1. CASE n.role = "Follower"
  <2> DEFINE commit == n.commit_index
             last == LastIndex(n.log)
             reach == Min({commit, last})
             applied == Max({n.last_applied, reach})
             k == Resume(n)
  <2>1. commit \in Int /\ last \in Int /\ n.last_applied \in Int
    <3>1. last \in Index
      BY LogEnd
    <3>2. commit \in Index /\ n.last_applied \in Index
      BY DEF NodeState
    <3> HIDE DEF commit, last
    <3> QED
      BY <3>1, <3>2 DEF Index
  <2>2. /\ k.last_applied = applied
        /\ k.commit_index = commit /\ k.log = n.log
    <3>1. ~ (commit > commit)
      BY <2>1
    <3> QED
      BY <1>1, <3>1 DEF Resume, ApplyLatestCommitedLogs, NodeState
  <2> HIDE DEF commit, last
  <2>3. reach \in Int /\ (reach = commit \/ reach = last)
    BY <2>1, MinOfPair
  <2> HIDE DEF reach
  <2>4. applied >= reach
    <3>1. applied = IF n.last_applied >= reach THEN n.last_applied ELSE reach
      BY <2>1, <2>3, MinOfPair
    <3> QED
      BY <2>1, <2>3, <3>1
  <2> HIDE DEF applied, k
  <2> QED
    BY <2>2, <2>3, <2>4 DEF CaughtUp, last, k
<1>2. CASE n.role # "Follower"
  BY <1>2 DEF Resume, CaughtUp
<1> QED
  BY <1>1, <1>2

\* Every handler ends in Finish, and with it in Resume.
LEMMA HandlersFinish ==
    ASSUME TypeOK, NEW s \in Server, NEW src \in Peers(s), HandleMessage(s, src)
    PROVE  \E n \in NodeState : node' = [node EXCEPT ![s] = Resume(n)]
<1>1. Handled(s, src)
  BY MessagesHandled
<1> QED
  BY <1>1 DEF Handled, Finish

\* In every execution a follower that waits has applied every entry that is
\* committed and present (apply_latest_commited_logs at the entry of follower).
THEOREM FollowersApply == Spec => []FollowerCaughtUp
<1>1. FollowerCaughtUp <=> \A s \in Server : CaughtUp(node[s])
  BY DEF FollowerCaughtUp, CaughtUp
<1>2. Init => FollowerCaughtUp
  <2> SUFFICES ASSUME Init, NEW s \in Server PROVE CaughtUp(node[s])
    BY <1>1
  <2>1. node[s].last_applied = -1 /\ node[s].commit_index = -1
    BY DEF Init, InitialNode
  <2> QED
    BY <2>1 DEF CaughtUp
<1>3. TypeOK /\ FollowerCaughtUp /\ [Next]_vars => FollowerCaughtUp'
  <2> SUFFICES ASSUME TypeOK, FollowerCaughtUp, [Next]_vars, NEW t \in Server
               PROVE  CaughtUp(node'[t])
    BY DEF FollowerCaughtUp, CaughtUp
  <2>1. CaughtUp(node[t]) /\ node \in [Server -> NodeState]
    BY <1>1 DEF TypeOK
  <2>2. ASSUME NEW s \in Server, Timers(s)
        PROVE  CaughtUp(node'[t])
    <3>1. CASE ElectionTimeout(s)
      <4>1. /\ node' = [node EXCEPT ![s] = BecomeCandidate(s, node[s])]
            /\ node[s] \in NodeState
        BY <2>1, <3>1 DEF ElectionTimeout
      <4>2. BecomeCandidate(s, node[s]).role = "Candidate"
        BY <4>1 DEF BecomeCandidate, NodeState
      <4>3. CaughtUp(BecomeCandidate(s, node[s]))
        BY <4>2 DEF CaughtUp
      <4> QED
        BY <2>1, <4>1, <4>3
    <3>2. CASE CandidateTimeout(s) \/ HeartbeatTimeout(s)
      BY <2>1, <3>2 DEF CandidateTimeout, HeartbeatTimeout
    <3> QED
      BY <2>2, <3>1, <3>2 DEF Timers
  <2>3. ASSUME NEW s \in Server, NEW src \in Peers(s), HandleMessage(s, src)
        PROVE  CaughtUp(node'[t])
    <3>1. PICK n \in NodeState : node' = [node EXCEPT ![s] = Resume(n)]
      BY <2>3, HandlersFinish
    <3> QED
      BY <2>1, <3>1, ResumeCaughtUp
  <2>4. ASSUME NEW s \in Server, NEW r \in Request, ClientSet(s, r)
        PROVE  CaughtUp(node'[t])
    <3>1. node[s].role = "Leader"
      BY <2>4 DEF ClientSet
    <3>2. node'[s].role \in {"Leader", "Dead"}
      <4> DEFINE n == [node[s] EXCEPT !.log = Append(@, NewEntry(node[s], r))]
      <4>1. node'[s] = MarkSent(s, n) \/ node'[s] = Panicked(n)
        BY <2>1, <2>4 DEF ClientSet
      <4>2. n \in NodeState /\ n.role = "Leader"
        <5>1. node[s] \in NodeState
          BY <2>1
        <5>2. n \in NodeState
          BY <5>1, PushType
        <5>3. n.role = node[s].role
          BY <5>1 DEF NodeState
        <5> QED
          BY <3>1, <5>2, <5>3
      <4> HIDE DEF n
      <4> QED
        BY <4>1, <4>2 DEF MarkSent, Panicked, NodeState
    <3>3. CaughtUp(node'[s])
      BY <3>2 DEF CaughtUp
    <3>4. t # s => node'[t] = node[t]
      BY <2>1, <2>4 DEF ClientSet
    <3> QED
      BY <2>1, <3>3, <3>4
  <2>5. CASE \E p \in Link : Register(p) \/ BreakLink(p)
    BY <2>1, <2>5 DEF Register, BreakLink
  <2>6. CASE UNCHANGED vars
    BY <2>1, <2>6 DEF vars
  <2> QED
    BY <2>2, <2>3, <2>4, <2>5, <2>6 DEF Next
<1> QED
  BY <1>2, <1>3, TypeCorrect, PTL DEF Spec

-----------------------------------------------------------------------------
(* The logs and what travels between them                                  *)

WellFormed(n) ==
    /\ Ordered(n.log, 0)
    /\ \A i \in 1 .. Len(n.log) : n.log[i].term <= n.current_term

\* What a message between two nodes says of their logs: an AppendEntries with
\* entries is well formed and comes from a node that has a log, a success goes
\* to one.
Sound(m, from, to) ==
    /\ m.kind = "AppendEntries" =>
         EntriesWellFormed(m) /\ (m.entries # <<>> => from.log # <<>>)
    /\ m.kind = "AppendEntriesResponse" /\ m.success => to.log # <<>>

\* LogWellFormed as it stands is not inductive: why a success has a leader
\* with a log before it is that the entries it answers came from such a node.
LogInvariant ==
    /\ \A s \in Server : WellFormed(node[s])
    /\ \A p \in Link : \A i \in 1 .. Len(wire[p]) :
          Sound(wire[p][i], node[p[1]], node[p[2]])

-----------------------------------------------------------------------------
(* The log after AppendEntries                                             *)

\* The term of each entry that is kept is at most that of the first new one:
\* the message extends the log by an entry of a term that is not lower, or it
\* starts with an entry that is held.
LEMMA KeptTerms ==
    ASSUME NEW l \in Seq(Entry), NEW es \in Seq(Entry), es # <<>>,
           Ordered(l, 0), Ordered(es, es[1].index), ~ LeavesGap(l, es),
           NewPositions(l, es) # {},
           \/ \A i \in 1 .. Len(l) : l[i].term <= es[1].term
           \/ PrevLogMatches(l, es[1].index, es[1].term),
           NEW i \in 1 .. es[Min(NewPositions(l, es))].index
    PROVE  i \in 1 .. Len(l) /\ l[i].term <= es[Min(NewPositions(l, es))].term
<1> DEFINE j == Min(NewPositions(l, es))
           base == es[j].index
<1>1. \A e \in Entry : e.index \in Nat /\ e.term \in Nat
  BY DEF Entry
<1>2. j \in 1 .. Len(es) /\ base \in 0 .. Len(l)
  BY <1>1, AppendNewEntriesElements
<1>3. /\ j \in NewPositions(l, es)
      /\ \A k \in NewPositions(l, es) : j <= k
  BY FirstNewPosition
<1> HIDE DEF j
<1>4. /\ i \in 1 .. Len(l) /\ base \in 1 .. Len(l) /\ i <= base
      /\ l[i] \in Entry /\ l[base] \in Entry /\ es[j] \in Entry
  BY <1>2 DEF j
<1>5. l[i].term <= l[base].term
  BY <1>4 DEF Ordered
<1>6. CASE j = 1
  <2>1. \A k \in 1 .. Len(l) : l[k].term <= es[1].term
    <3>1. SUFFICES ~ PrevLogMatches(l, es[1].index, es[1].term)
      OBVIOUS
    <3>2. l # <<>>
      BY <1>4
    <3>3. Has(l, es[1].index) => At(l, es[1].index).term # es[1].term
      BY <1>3, <1>6 DEF NewPositions
    <3> QED
      BY <3>2, <3>3 DEF PrevLogMatches
  <2> QED
    BY <1>4, <1>6, <2>1 DEF j
<1>7. CASE j > 1
  <2>1. j - 1 \in 1 .. Len(es) /\ j - 1 \notin NewPositions(l, es)
    BY <1>2, <1>3, <1>7
  <2>2. es[j - 1].index = base - 1
    <3> DEFINE first == es[1].index
    <3>1. es[j - 1].index = first + (j - 1) - 1
      BY <2>1 DEF Ordered
    <3>2. base = first + j - 1
      BY <1>2 DEF Ordered, j
    <3>3. first \in Nat /\ j \in Nat
      BY <1>1, <1>2 DEF j
    <3> HIDE DEF first, base
    <3> QED
      BY <3>1, <3>2, <3>3
  <2>3. At(l, base - 1).term = es[j - 1].term
    BY <2>1, <2>2 DEF NewPositions
  <2>4. l[base].term = es[j - 1].term
    BY <1>4, <2>3 DEF At
  <2>5. es[j - 1].term <= es[j].term /\ es[j - 1] \in Entry
    BY <1>2, <1>7, <2>1 DEF Ordered
  <2> QED
    BY <1>1, <1>4, <1>5, <2>4, <2>5 DEF j
<1> QED
  BY <1>2, <1>6, <1>7

\* The log a node holds after a well-formed message.
LEMMA AppendedLog ==
    ASSUME NEW l \in Seq(Entry), NEW es \in Seq(Entry), es # <<>>,
           Ordered(l, 0), Ordered(es, es[1].index), ~ LeavesGap(l, es),
           \/ \A i \in 1 .. Len(l) : l[i].term <= es[1].term
           \/ PrevLogMatches(l, es[1].index, es[1].term),
           NEW term \in Nat,
           \A i \in 1 .. Len(l) : l[i].term <= term,
           \A i \in 1 .. Len(es) : es[i].term <= term
    PROVE  LET r == AppendNewEntries(l, es)
           IN  /\ r # <<>> /\ Ordered(r, 0)
               /\ \A i \in 1 .. Len(r) : r[i].term <= term
<1> DEFINE r == AppendNewEntries(l, es)
<1>1. CASE NewPositions(l, es) = {}
  <2>1. r = l
    BY <1>1 DEF AppendNewEntries
  <2>2. 1 \in 1 .. Len(es)
    OBVIOUS
  <2>3. Has(l, es[1].index)
    BY <1>1, <2>2 DEF NewPositions
  <2>4. l # <<>>
    BY <2>3 DEF Has, LastIndex
  <2> QED
    BY <2>1, <2>4
<1>2. CASE NewPositions(l, es) # {}
  <2> DEFINE j == Min(NewPositions(l, es))
             base == es[j].index
  <2>1. \A e \in Entry : e.index \in Nat /\ e.term \in Nat
    BY DEF Entry
  <2>2. /\ j \in 1 .. Len(es) /\ base \in 0 .. Len(l)
        /\ Len(r) = base + (Len(es) - j + 1)
        /\ \A k \in 1 .. Len(r) :
              r[k] = IF k <= base THEN l[k] ELSE es[k - base + j - 1]
    BY <1>2, <2>1, AppendNewEntriesElements
  <2>3. \A i \in 1 .. base : i \in 1 .. Len(l) /\ l[i].term <= es[j].term
    BY <1>2, KeptTerms
  <2>4. base = es[1].index + j - 1 /\ es[1].index \in Nat
    <3>1. base = es[1].index + j - 1
      BY <2>2 DEF Ordered
    <3>2. es[1] \in Entry
      OBVIOUS
    <3> QED
      BY <2>1, <3>1, <3>2
  <2> HIDE DEF j, r
  <2>5. /\ \A k \in 1 .. base : k \in 1 .. Len(r) /\ r[k] = l[k]
        /\ \A k \in 1 .. Len(r) : k > base =>
              /\ k - base + j - 1 \in j .. Len(es)
              /\ k - base + j - 1 \in 1 .. Len(es)
              /\ r[k] = es[k - base + j - 1]
    BY <2>2
  <2>6. Len(r) \in Nat /\ Len(r) > 0
    BY <2>2
  <2>7. ASSUME NEW i \in 1 .. Len(r)
        PROVE  r[i] \in Entry /\ r[i].term <= term
    <3>1. CASE i <= base
      <4>1. i \in 1 .. Len(l) /\ r[i] = l[i]
        BY <2>2, <2>5, <3>1
      <4> QED
        BY <4>1
    <3>2. CASE i > base
      <4> DEFINE h == i - base + j - 1
      <4>1. h \in 1 .. Len(es) /\ r[i] = es[h]
        BY <2>5, <3>2
      <4> HIDE DEF h
      <4> QED
        BY <4>1
    <3> QED
      BY <2>2, <3>1, <3>2
  <2>8. ASSUME NEW k \in 1 .. Len(r)
        PROVE  r[k].index = k - 1
    <3>1. CASE k <= base
      <4>1. k \in 1 .. Len(l) /\ r[k] = l[k]
        BY <2>2, <2>5, <3>1
      <4>2. l[k].index = 0 + k - 1
        BY <4>1 DEF Ordered
      <4> QED
        BY <4>1, <4>2
    <3>2. CASE k > base
      <4> DEFINE h == k - base + j - 1
      <4>1. h \in 1 .. Len(es) /\ r[k] = es[h]
        BY <2>5, <3>2
      <4>2. es[h].index = es[1].index + h - 1
        BY <4>1 DEF Ordered
      <4> DEFINE first == es[1].index
      <4>3. /\ r[k].index = first + h - 1 /\ base = first + j - 1
            /\ first \in Nat /\ base \in Nat /\ j \in Nat
        BY <2>2, <2>4, <4>1, <4>2
      <4> HIDE DEF first, base
      <4> QED
        BY <4>3
    <3> QED
      BY <2>2, <3>1, <3>2
  <2>9. ASSUME NEW i \in 1 .. Len(r), NEW k \in 1 .. Len(r), i <= k
        PROVE  r[i].term <= r[k].term
    <3>1. CASE k <= base
      <4>1. /\ i \in 1 .. Len(l) /\ k \in 1 .. Len(l)
            /\ r[i] = l[i] /\ r[k] = l[k]
        BY <2>2, <2>5, <2>9, <3>1
      <4> QED
        BY <2>9, <4>1 DEF Ordered
    <3>2. CASE i > base
      <4> DEFINE g == i - base + j - 1
                 h == k - base + j - 1
      <4>1. /\ g \in 1 .. Len(es) /\ h \in 1 .. Len(es) /\ g <= h
            /\ r[i] = es[g] /\ r[k] = es[h]
        BY <2>2, <2>5, <2>9, <3>2
      <4> HIDE DEF g, h
      <4> QED
        BY <4>1 DEF Ordered
    <3>3. CASE i <= base /\ k > base
      <4> DEFINE h == k - base + j - 1
      <4>1. /\ h \in 1 .. Len(es) /\ j <= h /\ r[k] = es[h]
            /\ r[i] = l[i] /\ r[i].term <= es[j].term
        <5>1. h \in 1 .. Len(es) /\ h \in j .. Len(es) /\ r[k] = es[h]
          BY <2>5, <3>3
        <5>2. i \in 1 .. base
          BY <2>2, <3>3
        <5>3. r[i] = l[i] /\ l[i].term <= es[j].term
          BY <2>3, <2>5, <5>2
        <5> HIDE DEF h
        <5> QED
          BY <2>2, <5>1, <5>3
      <4> HIDE DEF h
      <4>2. es[j].term <= es[h].term
        BY <2>2, <4>1 DEF Ordered
      <4>3. r[i].term \in Nat /\ es[j].term \in Nat /\ es[h].term \in Nat
        <5>1. r[i] \in Entry /\ es[j] \in Entry /\ es[h] \in Entry
          BY <2>2, <2>7, <4>1
        <5> QED
          BY <2>1, <5>1
      <4> QED
        BY <4>1, <4>2, <4>3
    <3> QED
      BY <2>2, <3>1, <3>2, <3>3
  <2>10. r # <<>>
    BY <2>6
  <2>11. Ordered(r, 0)
    BY <2>8, <2>9 DEF Ordered
  <2> QED
    BY <2>7, <2>10, <2>11 DEF r
<1> QED
  BY <1>1, <1>2

-----------------------------------------------------------------------------
(* What nodes send is sound                                                *)

LEMMA RetrySound ==
    ASSUME NEW n \in NodeState, NEW src \in Server, WellFormed(n),
           Has(n.log, n.next_index[src])
    PROVE  EntriesWellFormed(Retry(n, src)) /\ n.log # <<>>
<1> DEFINE i == n.next_index[src]
           es == SubSeq(n.log, i + 1, Len(n.log))
           m == Retry(n, src)
<1>1. /\ n.log \in Seq(Entry) /\ i \in Nat /\ i \in 0 .. LastIndex(n.log)
      /\ n.current_term \in Nat
  BY DEF NodeState, Has
<1>2. /\ m.entries = es /\ m.prev_log_index = i
      /\ m.prev_log_term = n.log[i + 1].term /\ m.term = n.current_term
  BY DEF Retry, AppendEntries, At
<1> HIDE DEF i, m
<1>3. i + 1 \in 1 .. Len(n.log) /\ Len(n.log) \in Nat
  BY <1>1 DEF LastIndex
<1>4. /\ Len(es) = Len(n.log) - i
      /\ \A k \in 1 .. Len(es) : k + i \in 1 .. Len(n.log) /\ es[k] = n.log[k + i]
  BY <1>1, <1>3
<1> HIDE DEF es
<1>5. 1 \in 1 .. Len(es) /\ es[1] = n.log[i + 1]
  <2>1. 1 \in 1 .. Len(es)
    BY <1>1, <1>3, <1>4
  <2>2. es[1] = n.log[1 + i]
    BY <1>4, <2>1
  <2> QED
    BY <1>1, <2>1, <2>2
<1>6. \A k \in 1 .. Len(es) : es[k].index = i + k - 1 /\ es[k].term <= m.term
  <2> SUFFICES ASSUME NEW k \in 1 .. Len(es)
               PROVE  es[k].index = i + k - 1 /\ es[k].term <= m.term
    OBVIOUS
  <2>1. n.log[k + i].index = 0 + (k + i) - 1
    BY <1>4 DEF WellFormed, Ordered
  <2>2. es[k] = n.log[k + i] /\ es[k].term <= m.term
    BY <1>2, <1>4 DEF WellFormed
  <2> QED
    BY <1>1, <2>1, <2>2
<1>7. es[1].index = i
  BY <1>1, <1>5, <1>6
<1>8. \A k, h \in 1 .. Len(es) : k <= h => es[k].term <= es[h].term
  <2> SUFFICES ASSUME NEW k \in 1 .. Len(es), NEW h \in 1 .. Len(es), k <= h
               PROVE  es[k].term <= es[h].term
    OBVIOUS
  <2>1. /\ k + i \in 1 .. Len(n.log) /\ h + i \in 1 .. Len(n.log)
        /\ k + i <= h + i
        /\ es[k] = n.log[k + i] /\ es[h] = n.log[h + i]
    BY <1>1, <1>4
  <2> QED
    BY <2>1 DEF WellFormed, Ordered
<1>9. Ordered(es, es[1].index)
  BY <1>6, <1>7, <1>8 DEF Ordered
<1>10. EntriesWellFormed(m) /\ n.log # <<>>
  BY <1>2, <1>3, <1>5, <1>6, <1>7, <1>9 DEF EntriesWellFormed
<1> QED
  BY <1>10 DEF m

\* The broadcast after push: its one entry has the leader's term.
LEMMA AnnouncementSound ==
    ASSUME NEW n \in NodeState, NEW peer, n.log # <<>>,
           At(n.log, LastIndex(n.log)).term = n.current_term
    PROVE  EntriesWellFormed(Announcement(n, peer))
<1> DEFINE m == Announcement(n, peer)
           e == At(n.log, LastIndex(n.log))
<1>1. m.entries = <<e>> /\ m.term = n.current_term
  BY DEF Announcement, AppendEntries
<1>2. e \in Entry /\ n.current_term \in Nat
  BY LogEnd, AtType DEF LastIndex, NodeState
<1> HIDE DEF e, m
<1>3. e.index \in Nat /\ e.term \in Nat /\ e.term = n.current_term
  BY <1>2 DEF Entry, e
<1>4. Len(<<e>>) = 1 /\ <<e>>[1] = e
  OBVIOUS
<1>5. Ordered(<<e>>, e.index)
  BY <1>3, <1>4 DEF Ordered
<1>6. EntriesWellFormed(m)
  BY <1>1, <1>3, <1>4, <1>5 DEF EntriesWellFormed
<1> QED
  BY <1>6 DEF m

LEMMA OthersSound ==
    ASSUME NEW n, NEW from, NEW to
    PROVE  /\ \A s : Sound(RequestVote(s, n), from, to)
           /\ \A b : Sound(RequestVoteResponse(n, b), from, to)
           /\ Sound(AppendEntriesResponse(n, FALSE), from, to)
           /\ Sound(Heartbeat(n), from, to)
<1>1. Heartbeat(n).entries = <<>> /\ Heartbeat(n).kind = "AppendEntries"
  BY DEF Heartbeat, AppendEntries
<1>2. Sound(Heartbeat(n), from, to)
  BY <1>1 DEF Sound, EntriesWellFormed
<1>3. \A s : Sound(RequestVote(s, n), from, to)
  BY DEF Sound, RequestVote
<1>4. \A b : Sound(RequestVoteResponse(n, b), from, to)
  BY DEF Sound, RequestVoteResponse
<1>5. Sound(AppendEntriesResponse(n, FALSE), from, to)
  BY DEF Sound, AppendEntriesResponse
<1> QED
  BY <1>2, <1>3, <1>4, <1>5

-----------------------------------------------------------------------------
(* Each step preserves LogInvariant                                        *)

\* One node changes, and has a log if it had one; what is new on the links
\* comes from it and is sound.
LEMMA NodeChange ==
    ASSUME TypeOK, LogInvariant, NEW s \in Server, NEW n \in NodeState,
           node' = [node EXCEPT ![s] = n], WellFormed(n),
           node[s].log # <<>> => n.log # <<>>,
           \A p \in Link : \A i \in 1 .. Len(wire'[p]) :
              \/ WasThere(p, wire'[p][i])
              \/ p[1] = s /\ Sound(wire'[p][i], n, node[p[2]])
    PROVE  LogInvariant'
<1>1. /\ node'[s] = n /\ \A t \in Server \ {s} : node'[t] = node[t]
      /\ \A t \in Server : node[t].log # <<>> => node'[t].log # <<>>
  BY DEF TypeOK
<1>2. \A t \in Server : WellFormed(node'[t])
  BY <1>1 DEF LogInvariant
<1>3. ASSUME NEW p \in Link, NEW i \in 1 .. Len(wire'[p])
      PROVE  Sound(wire'[p][i], node'[p[1]], node'[p[2]])
  <2>1. p[1] \in Server /\ p[2] \in Server /\ p[1] # p[2]
    BY DEF Link
  <2>2. CASE WasThere(p, wire'[p][i])
    <3>1. Sound(wire'[p][i], node[p[1]], node[p[2]])
      BY <2>2 DEF WasThere, LogInvariant
    <3> QED
      BY <1>1, <2>1, <3>1 DEF Sound
  <2>3. CASE p[1] = s /\ Sound(wire'[p][i], n, node[p[2]])
    BY <1>1, <2>1, <2>3
  <2> QED
    BY <2>2, <2>3
<1> QED
  BY <1>2, <1>3 DEF LogInvariant, WellFormed, Ordered

LEMMA ResumeLog ==
    ASSUME NEW n \in NodeState
    PROVE  Resume(n).log = n.log /\ Resume(n).current_term = n.current_term
BY DEF Resume, ApplyLatestCommitedLogs, NodeState

LEMMA FinishLog ==
    ASSUME TypeOK, LogInvariant, NEW s \in Server, NEW src \in Peers(s),
           wire[<<src, s>>] # <<>>, NEW n \in NodeState, NEW out \in Outgoing,
           Finish(src, s, n, out), WellFormed(n),
           node[s].log # <<>> => n.log # <<>>,
           \A d \in Server : \A m : Sends(out, d, m) => Sound(m, n, node[d])
    PROVE  LogInvariant'
<1> DEFINE k == Resume(n)
<1>1. node' = [node EXCEPT ![s] = k]
  BY DEF Finish
<1>2. k \in NodeState /\ k.log = n.log /\ k.current_term = n.current_term
  BY ResumeType, ResumeLog
<1> HIDE DEF k
<1>3. WellFormed(k)
  BY <1>2 DEF WellFormed
<1>4. ASSUME NEW p \in Link, NEW i \in 1 .. Len(wire'[p])
      PROVE  \/ WasThere(p, wire'[p][i])
             \/ p[1] = s /\ Sound(wire'[p][i], k, node[p[2]])
  <2>1. p[2] \in Server
    BY DEF Link
  <2>2. \/ WasThere(p, wire'[p][i])
        \/ p[1] = s /\ Sound(wire'[p][i], n, node[p[2]])
    <3>1. Sound(RequestVote(s, n), n, node[p[2]])
      BY OthersSound
    <3>2. \/ WasThere(p, wire'[p][i])
          \/ p[1] = s /\ Sends(out, p[2], wire'[p][i])
          \/ p[1] = s /\ wire'[p][i] = RequestVote(s, n)
      BY FinishMessages
    <3> QED
      BY <2>1, <3>1, <3>2
  <2> QED
    BY <1>2, <2>2 DEF Sound
<1> QED
  BY <1>1, <1>2, <1>3, <1>4, NodeChange

\* Only push and delete_conflicting_and_append_new_entries write the log.
LEMMA LogKept ==
    ASSUME NEW n \in NodeState, NEW p \in Server
    PROVE  /\ \A c : ApplyLatestCommitedLogs(n, c).log = n.log
           /\ \A t : BecomeFollower(n, t).log = n.log
           /\ BecomeCandidate(p, n).log = n.log /\ BecomeLeader(n).log = n.log
           /\ Counted(n).log = n.log /\ Panicked(n).log = n.log
           /\ Acknowledged(n, p).log = n.log /\ BackedOff(n, p).log = n.log
           /\ AdvanceCommit(n).log = n.log /\ MarkSent(p, n).log = n.log
<1>1. \A c : ApplyLatestCommitedLogs(n, c).log = n.log
  BY DEF ApplyLatestCommitedLogs, NodeState
<1>2. /\ \A t : BecomeFollower(n, t).log = n.log
      /\ BecomeCandidate(p, n).log = n.log /\ BecomeLeader(n).log = n.log
      /\ Counted(n).log = n.log /\ Panicked(n).log = n.log
  BY DEF BecomeFollower, BecomeCandidate, BecomeLeader, Counted, Panicked,
         NodeState
<1>3. Acknowledged(n, p).log = n.log /\ BackedOff(n, p).log = n.log
  BY DEF Acknowledged, BackedOff, NodeState
<1>4. AdvanceCommit(n).log = n.log /\ MarkSent(p, n).log = n.log
  BY DEF AdvanceCommit, MarkSent, NodeState
<1> QED
  BY <1>1, <1>2, <1>3, <1>4, Zenon

LEMMA LaterLogKept ==
    ASSUME NEW n \in NodeState, NEW s \in Server
    PROVE  ApplyOwn(s, n).log = n.log /\ TakeOffice(n).log = n.log
<1> DEFINE a == ApplyLatestCommitedLogs(n, n.commit_index)
<1>1. a \in NodeState /\ a.log = n.log
  BY ApplyType, LogKept DEF NodeState
<1>2. /\ ApplyOwn(s, n) = [a EXCEPT !.last_applied = n.commit_index,
                                    !.match_index[s] = n.commit_index]
      /\ TakeOffice(n) = BecomeLeader(a)
  BY DEF ApplyOwn, TakeOffice
<1> HIDE DEF a
<1>3. ApplyOwn(s, n).log = a.log
  BY <1>1, <1>2 DEF NodeState
<1> QED
  BY <1>1, <1>2, <1>3, LogKept

LEMMA LogEntries ==
    ASSUME NEW n \in NodeState, NEW i \in 1 .. Len(n.log)
    PROVE  n.log[i] \in Entry /\ n.log[i].term \in Nat
<1>1. n.log \in Seq(Entry)
  BY DEF NodeState
<1>2. n.log[i] \in Entry
  BY <1>1
<1> QED
  BY <1>2 DEF Entry

LEMMA WellFormedKept ==
    ASSUME NEW old \in NodeState, NEW n \in NodeState, WellFormed(old),
           n.log = old.log, n.current_term >= old.current_term
    PROVE  WellFormed(n)
<1>1. \A i \in 1 .. Len(old.log) : old.log[i].term \in Nat
  BY LogEntries
<1>2. old.current_term \in Nat /\ n.current_term \in Nat
  BY DEF NodeState
<1> QED
  BY <1>1, <1>2 DEF WellFormed

\* A handler that leaves the log alone and sends nothing of interest.
LEMMA FinishSameLog ==
    ASSUME TypeOK, LogInvariant, NEW s \in Server, NEW src \in Peers(s),
           wire[<<src, s>>] # <<>>, NEW n \in NodeState, NEW out \in Outgoing,
           Finish(src, s, n, out), n.log = node[s].log,
           n.current_term >= node[s].current_term,
           \A d \in Server : \A m : Sends(out, d, m) => Sound(m, n, node[d])
    PROVE  LogInvariant'
<1>1. node[s] \in NodeState /\ WellFormed(node[s])
  BY DEF TypeOK, LogInvariant
<1>2. WellFormed(n)
  BY <1>1, WellFormedKept
<1> QED
  BY <1>2, FinishLog

\* What s finds at the head of a link is sound.
LEMMA IncomingSound ==
    ASSUME TypeOK, LogInvariant, NEW s \in Server, NEW src \in Peers(s),
           wire[<<src, s>>] # <<>>
    PROVE  Sound(Incoming(s, src), node[src], node[s])
<1>1. <<src, s>> \in Link
  BY LinkType
<1>2. wire[<<src, s>>] \in Seq(Message)
  BY <1>1 DEF TypeOK
<1>3. 1 \in 1 .. Len(wire[<<src, s>>])
      /\ wire[<<src, s>>][1] = Incoming(s, src)
  BY <1>2 DEF Incoming
<1> QED
  BY <1>1, <1>3 DEF LogInvariant

\* The log a node stores from a sound message it accepts.
LEMMA StoreWellFormed ==
    ASSUME NEW n \in NodeState, NEW m \in Message, m.kind = "AppendEntries",
           WellFormed(n), EntriesWellFormed(m), Accepts(n, m),
           m.entries # <<>>, ~ LeavesGap(n.log, m.entries)
    PROVE  WellFormed(Store(Observe(n, m), m))
           /\ Store(Observe(n, m), m).log # <<>>
<1> DEFINE o == Observe(n, m)
           k == Store(o, m)
           es == m.entries
<1>1. o \in NodeState /\ o.log = n.log /\ o.current_term = m.term
  BY ObserveType, ObserveLog, ObserveOffice DEF Office
<1> HIDE DEF o
<1>2. k \in NodeState
  BY <1>1, StoreType
<1>3. k.log = AppendNewEntries(n.log, es) /\ k.current_term = m.term
  BY <1>1 DEF Store, NodeState
<1>4. /\ n.log \in Seq(Entry) /\ es \in Seq(Entry) /\ m.term \in Nat
      /\ n.current_term \in Nat
  BY MessageFields DEF NodeState
<1>5. /\ m.term >= n.current_term
      /\ PrevLogMatches(n.log, m.prev_log_index, m.prev_log_term)
  BY <1>4 DEF Accepts, Rejects
<1>6. \A i \in 1 .. Len(n.log) : n.log[i].term <= m.term
  <2>1. \A i \in 1 .. Len(n.log) : n.log[i].term \in Nat
    BY LogEntries
  <2> QED
    BY <1>4, <1>5, <2>1 DEF WellFormed
<1>7. /\ Ordered(es, es[1].index) /\ Ordered(n.log, 0)
      /\ \A i \in 1 .. Len(es) : es[i].term <= m.term
  BY DEF EntriesWellFormed, WellFormed
<1>8. \/ \A i \in 1 .. Len(n.log) : n.log[i].term <= es[1].term
      \/ PrevLogMatches(n.log, es[1].index, es[1].term)
  BY <1>5, <1>6 DEF EntriesWellFormed
<1> HIDE DEF es, k
<1>9. /\ AppendNewEntries(n.log, es) # <<>>
      /\ Ordered(AppendNewEntries(n.log, es), 0)
      /\ \A i \in 1 .. Len(AppendNewEntries(n.log, es)) :
            AppendNewEntries(n.log, es)[i].term <= m.term
  BY <1>4, <1>6, <1>7, <1>8, AppendedLog DEF es
<1> QED
  BY <1>3, <1>9 DEF WellFormed, k, o

LEMMA AppendEntriesLog ==
    ASSUME TypeOK, LogInvariant, NEW s \in Server, NEW src \in Peers(s),
           \/ RejectAppendEntries(s, src) \/ StepDownOnAppendEntries(s, src)
           \/ AcceptHeartbeat(s, src) \/ AcceptNewEntries(s, src)
           \/ PanicOnGap(s, src)
    PROVE  LogInvariant'
<1> DEFINE n == node[s]
           m == Incoming(s, src)
<1>1. Receives(s, src, "AppendEntries")
  BY DEF RejectAppendEntries, StepDownOnAppendEntries, AcceptHeartbeat,
         AcceptNewEntries, PanicOnGap
<1>2. /\ n \in NodeState /\ m \in Message /\ m.kind = "AppendEntries"
      /\ wire[<<src, s>>] # <<>> /\ src \in Server
  BY <1>1, IncomingType
<1>3. /\ m.term \in Nat /\ n.current_term \in Nat
      /\ Sound(m, node[src], n) /\ WellFormed(n)
  BY <1>2, MessageFields, IncomingSound DEF NodeState, LogInvariant
<1>4. n = node[s] /\ (Accepts(n, m) => m.term >= n.current_term)
  BY <1>3 DEF Accepts, Rejects
<1> HIDE DEF n, m
<1>5. CASE RejectAppendEntries(s, src)
  <2> DEFINE out == SendTo(src, AppendEntriesResponse(n, FALSE))
  <2>1. Finish(src, s, n, out)
    BY <1>5 DEF RejectAppendEntries, n, m
  <2>2. out \in Outgoing
    BY <1>2, ResponseTypes, OutgoingTypes
  <2>3. ASSUME NEW d \in Server, NEW x, Sends(out, d, x)
        PROVE  Sound(x, n, node[d])
    <3>1. x = AppendEntriesResponse(n, FALSE)
      BY <2>3, OneMessageSends
    <3> QED
      BY <3>1, OthersSound
  <2> HIDE DEF out
  <2> QED
    BY <1>2, <1>3, <1>4, <2>1, <2>2, <2>3, FinishSameLog
<1>6. CASE StepDownOnAppendEntries(s, src)
  <2> DEFINE k == BecomeFollower(n, m.term)
  <2>1. Finish(src, s, k, Silence) /\ StepsDown(n, m)
    BY <1>6 DEF StepDownOnAppendEntries, n, m
  <2>2. k \in NodeState /\ k.log = n.log /\ k.current_term = m.term
    BY <1>2, <1>3, BecomeFollowerType, LogKept, BecomeFollowerOffice DEF Office
  <2> HIDE DEF k
  <2> QED
    BY <1>2, <1>3, <1>4, <2>1, <2>2, SilenceType, SilenceSends, FinishSameLog
       DEF StepsDown
<1>7. CASE AcceptHeartbeat(s, src)
  <2> DEFINE k == Observe(n, m)
  <2>1. Finish(src, s, k, Silence) /\ Accepts(n, m)
    BY <1>7 DEF AcceptHeartbeat, n, m
  <2>2. k \in NodeState /\ k.log = n.log /\ k.current_term = m.term
    BY <1>2, ObserveType, ObserveLog, ObserveOffice DEF Office
  <2> HIDE DEF k
  <2> QED
    BY <1>2, <1>4, <2>1, <2>2, SilenceType, SilenceSends, FinishSameLog
<1>8. CASE AcceptNewEntries(s, src)
  <2> DEFINE k == Store(Observe(n, m), m)
             out == SendTo(src, AppendEntriesResponse(k, TRUE))
  <2>1. /\ Finish(src, s, k, out) /\ Accepts(n, m)
        /\ m.entries # <<>> /\ ~ LeavesGap(n.log, m.entries)
    BY <1>8 DEF AcceptNewEntries, n, m
  <2>2. k \in NodeState
    BY <1>2, <2>1, ObserveType, ObserveLog, StoreType
  <2>3. WellFormed(k) /\ k.log # <<>>
    BY <1>2, <1>3, <2>1, StoreWellFormed DEF Sound
  <2> HIDE DEF k
  <2>4. out \in Outgoing
    BY <1>2, <2>2, ResponseTypes, OutgoingTypes
  <2>5. node[src].log # <<>>
    BY <1>2, <1>3, <2>1 DEF Sound
  <2>6. Sound(AppendEntriesResponse(k, TRUE), k, node[src])
    BY <2>5 DEF Sound, AppendEntriesResponse
  <2>7. \A d \in Server : \A x : Sends(out, d, x) => Sound(x, k, node[d])
    BY <2>6, OneMessageSends
  <2> HIDE DEF out
  <2> QED
    BY <1>2, <2>1, <2>2, <2>3, <2>4, <2>7, FinishLog
<1>9. CASE PanicOnGap(s, src)
  <2> DEFINE o == Observe(n, m)
             k == Panicked(o)
  <2>1. Finish(src, s, k, Silence) /\ Accepts(n, m)
    BY <1>9 DEF PanicOnGap, n, m
  <2>2. o \in NodeState /\ o.log = n.log /\ o.current_term = m.term
    BY <1>2, ObserveType, ObserveLog, ObserveOffice DEF Office
  <2> HIDE DEF o
  <2>3. k \in NodeState /\ k.log = n.log /\ k.current_term = m.term
    BY <1>2, <2>2, PanickedType, LogKept, PanickedOffice DEF Office
  <2> HIDE DEF k
  <2> QED
    BY <1>2, <1>4, <2>1, <2>3, SilenceType, SilenceSends, FinishSameLog
<1> QED
  BY <1>5, <1>6, <1>7, <1>8, <1>9

LEMMA VotesLog ==
    ASSUME TypeOK, LogInvariant, NEW s \in Server, NEW src \in Peers(s),
           \/ HandleRequestVote(s, src) \/ IgnoreVoteResponse(s, src)
           \/ StepDownOnVoteResponse(s, src) \/ CountVote(s, src)
           \/ WinElection(s, src)
    PROVE  LogInvariant'
<1> DEFINE n == node[s]
           m == Incoming(s, src)
<1>1. Receives(s, src, "RequestVote") \/ Receives(s, src, "RequestVoteResponse")
  BY DEF HandleRequestVote, IgnoreVoteResponse, StepDownOnVoteResponse,
         CountVote, WinElection
<1>2. /\ n \in NodeState /\ m \in Message
      /\ wire[<<src, s>>] # <<>> /\ src \in Server
  BY <1>1, IncomingType
<1>3. /\ n = node[s] /\ m.term \in Nat /\ n.current_term \in Nat
      /\ n.current_term >= n.current_term
  BY <1>2, MessageFields DEF NodeState
<1> HIDE DEF n, m
<1>4. CASE HandleRequestVote(s, src)
  <2> DEFINE b == ~ DeniesVote(n, m)
             out == SendTo(m.candidate_id, RequestVoteResponse(n, b))
  <2>1. Finish(src, s, n, out)
    BY <1>4 DEF HandleRequestVote, n, m
  <2>2. b \in BOOLEAN
    OBVIOUS
  <2> HIDE DEF b
  <2>3. out \in Outgoing
    BY <1>2, <2>2, ResponseTypes, OutgoingTypes
  <2>4. ASSUME NEW d \in Server, NEW x, Sends(out, d, x)
        PROVE  Sound(x, n, node[d])
    <3>1. x = RequestVoteResponse(n, b)
      BY <2>4, OneMessageSends
    <3> QED
      BY <3>1, OthersSound
  <2> HIDE DEF out
  <2> QED
    BY <1>2, <1>3, <2>1, <2>3, <2>4, FinishSameLog
<1>5. CASE IgnoreVoteResponse(s, src)
  <2>1. Finish(src, s, n, Silence)
    BY <1>5 DEF IgnoreVoteResponse, n
  <2> QED
    BY <1>2, <1>3, <2>1, SilenceType, SilenceSends, FinishSameLog
<1>6. CASE StepDownOnVoteResponse(s, src)
  <2> DEFINE k == BecomeFollower(n, m.term)
  <2>1. Finish(src, s, k, Silence) /\ m.term > n.current_term
    BY <1>6 DEF StepDownOnVoteResponse, n, m
  <2>2. k \in NodeState /\ k.log = n.log /\ k.current_term = m.term
    BY <1>2, <1>3, BecomeFollowerType, LogKept, BecomeFollowerOffice DEF Office
  <2> HIDE DEF k
  <2> QED
    BY <1>2, <1>3, <2>1, <2>2, SilenceType, SilenceSends, FinishSameLog
<1>7. CASE CountVote(s, src)
  <2> DEFINE k == Counted(n)
  <2>1. Finish(src, s, k, Silence)
    BY <1>7 DEF CountVote, n
  <2>2. k \in NodeState /\ k.log = n.log /\ k.current_term = n.current_term
    BY <1>2, CountedType, LogKept, LeaderUpdatesOffice DEF Office
  <2> HIDE DEF k
  <2> QED
    BY <1>2, <1>3, <2>1, <2>2, SilenceType, SilenceSends, FinishSameLog
<1>8. CASE WinElection(s, src)
  <2> DEFINE c == Counted(n)
             k == TakeOffice(c)
             out == Broadcast(Heartbeat(k))
  <2>1. Finish(src, s, k, out)
    BY <1>8 DEF WinElection, n
  <2>2. c \in NodeState /\ c.log = n.log /\ c.current_term = n.current_term
    BY <1>2, CountedType, LogKept, LeaderUpdatesOffice DEF Office
  <2> HIDE DEF c
  <2>3. k \in NodeState /\ k.log = n.log /\ k.current_term = n.current_term
    BY <2>2, TakeOfficeType, LaterLogKept, TakeOfficeOffice DEF Office
  <2> HIDE DEF k
  <2>4. out \in Outgoing
    BY <2>3, HeartbeatType, OutgoingTypes
  <2>5. ASSUME NEW d \in Server, NEW x, Sends(out, d, x)
        PROVE  Sound(x, k, node[d])
    <3>1. x = Heartbeat(k)
      BY <2>5, OneMessageSends
    <3> QED
      BY <3>1, OthersSound
  <2> HIDE DEF out
  <2> QED
    BY <1>2, <1>3, <2>1, <2>3, <2>4, <2>5, FinishSameLog
<1> QED
  BY <1>4, <1>5, <1>6, <1>7, <1>8

LEMMA ResponsesLog ==
    ASSUME TypeOK, LogInvariant, NEW s \in Server, NEW src \in Peers(s),
           \/ IgnoreAppendEntriesResponse(s, src)
           \/ StepDownOnAppendEntriesResponse(s, src)
           \/ RecordSuccess(s, src) \/ CommitAndAnswer(s, src)
           \/ RetryAfterFailure(s, src) \/ PanicOnFailure(s, src)
    PROVE  LogInvariant'
<1> DEFINE n == node[s]
           m == Incoming(s, src)
<1>1. Receives(s, src, "AppendEntriesResponse")
  BY DEF IgnoreAppendEntriesResponse, StepDownOnAppendEntriesResponse,
         RecordSuccess, CommitAndAnswer, RetryAfterFailure, PanicOnFailure, Counts
<1>2. /\ n \in NodeState /\ m \in Message
      /\ wire[<<src, s>>] # <<>> /\ src \in Server
  BY <1>1, IncomingType
<1>3. /\ n = node[s] /\ m.term \in Nat /\ n.current_term \in Nat
      /\ n.current_term >= n.current_term
  BY <1>2, MessageFields DEF NodeState
<1> HIDE DEF n, m
<1>4. CASE IgnoreAppendEntriesResponse(s, src)
  <2>1. Finish(src, s, n, Silence)
    BY <1>4 DEF IgnoreAppendEntriesResponse, n
  <2> QED
    BY <1>2, <1>3, <2>1, SilenceType, SilenceSends, FinishSameLog
<1>5. CASE StepDownOnAppendEntriesResponse(s, src)
  <2> DEFINE k == BecomeFollower(n, m.term)
  <2>1. Finish(src, s, k, Silence) /\ m.term > n.current_term
    BY <1>5 DEF StepDownOnAppendEntriesResponse, n, m
  <2>2. k \in NodeState /\ k.log = n.log /\ k.current_term = m.term
    BY <1>2, <1>3, BecomeFollowerType, LogKept, BecomeFollowerOffice DEF Office
  <2> HIDE DEF k
  <2> QED
    BY <1>2, <1>3, <2>1, <2>2, SilenceType, SilenceSends, FinishSameLog
<1>6. CASE RecordSuccess(s, src)
  <2> DEFINE k == Acknowledged(n, src)
  <2>1. Finish(src, s, k, Silence)
    BY <1>6 DEF RecordSuccess, n
  <2>2. k \in NodeState /\ k.log = n.log /\ k.current_term = n.current_term
    BY <1>2, AcknowledgedType, LogKept, LeaderUpdatesOffice DEF Office
  <2> HIDE DEF k
  <2> QED
    BY <1>2, <1>3, <2>1, <2>2, SilenceType, SilenceSends, FinishSameLog
<1>7. CASE CommitAndAnswer(s, src)
  <2> DEFINE a == Acknowledged(n, src)
             c == AdvanceCommit(a)
             k == ApplyOwn(s, c)
  <2>1. Finish(src, s, k, Silence)
    BY <1>7 DEF CommitAndAnswer, n
  <2>2. a \in NodeState /\ a.log = n.log /\ a.current_term = n.current_term
    BY <1>2, AcknowledgedType, LogKept, LeaderUpdatesOffice DEF Office
  <2> HIDE DEF a
  <2>3. c \in NodeState /\ c.log = n.log /\ c.current_term = n.current_term
    BY <1>2, <2>2, AdvanceCommitType, LogKept, LeaderUpdatesOffice DEF Office
  <2> HIDE DEF c
  <2>4. k \in NodeState /\ k.log = n.log /\ k.current_term = n.current_term
    BY <2>3, ApplyOwnType, LaterLogKept, ApplyOwnOffice DEF Office
  <2> HIDE DEF k
  <2> QED
    BY <1>2, <1>3, <2>1, <2>4, SilenceType, SilenceSends, FinishSameLog
<1>8. CASE RetryAfterFailure(s, src)
  <2> DEFINE b == BackedOff(n, src)
             k == AdvanceCommit(b)
             out == SendTo(src, Retry(b, src))
  <2>1. Finish(src, s, k, out) /\ Has(b.log, b.next_index[src])
    BY <1>8 DEF RetryAfterFailure, n
  <2>2. b \in NodeState /\ b.log = n.log /\ b.current_term = n.current_term
    BY <1>2, BackedOffType, LogKept, LeaderUpdatesOffice DEF Office
  <2> HIDE DEF b
  <2>3. k \in NodeState /\ k.log = b.log /\ k.current_term = b.current_term
    BY <1>2, <2>2, AdvanceCommitType, LogKept, LeaderUpdatesOffice DEF Office
  <2> HIDE DEF k
  <2>4. out \in Outgoing
    BY <1>2, <2>1, <2>2, RetryType, OutgoingTypes
  <2>5. WellFormed(b)
    BY <1>3, <2>2 DEF LogInvariant, WellFormed
  <2>6. Sound(Retry(b, src), k, node[src])
    <3>1. EntriesWellFormed(Retry(b, src)) /\ k.log # <<>>
      BY <1>2, <2>1, <2>2, <2>3, <2>5, RetrySound
    <3>2. Retry(b, src).kind = "AppendEntries"
      BY DEF Retry, AppendEntries
    <3> QED
      BY <3>1, <3>2 DEF Sound
  <2>7. ASSUME NEW d \in Server, NEW x, Sends(out, d, x)
        PROVE  Sound(x, k, node[d])
    BY <2>6, <2>7, OneMessageSends
  <2> HIDE DEF out
  <2> QED
    BY <1>2, <1>3, <2>1, <2>2, <2>3, <2>4, <2>7, FinishSameLog
<1>9. CASE PanicOnFailure(s, src)
  <2> DEFINE b == BackedOff(n, src)
             k == Panicked(b)
  <2>1. Finish(src, s, k, Silence)
    BY <1>9 DEF PanicOnFailure, n
  <2>2. b \in NodeState /\ b.log = n.log /\ b.current_term = n.current_term
    BY <1>2, BackedOffType, LogKept, LeaderUpdatesOffice DEF Office
  <2> HIDE DEF b
  <2>3. k \in NodeState /\ k.log = n.log /\ k.current_term = n.current_term
    BY <1>2, <2>2, PanickedType, LogKept, PanickedOffice DEF Office
  <2> HIDE DEF k
  <2> QED
    BY <1>2, <1>3, <2>1, <2>3, SilenceType, SilenceSends, FinishSameLog
<1> QED
  BY <1>4, <1>5, <1>6, <1>7, <1>8, <1>9

\* A broadcast of one harmless message that leaves the log alone.
LEMMA BroadcastLog ==
    ASSUME TypeOK, LogInvariant, NEW s \in Server, NEW n \in NodeState,
           node' = [node EXCEPT ![s] = n], NEW m \in Message,
           Send(s, Broadcast(m)), n.log = node[s].log,
           n.current_term >= node[s].current_term,
           \A d \in Server : Sound(m, n, node[d])
    PROVE  LogInvariant'
<1>1. WellFormed(n)
  <2>1. node[s] \in NodeState /\ WellFormed(node[s])
    BY DEF TypeOK, LogInvariant
  <2> QED
    BY <2>1, WellFormedKept
<1>2. ASSUME NEW p \in Link, NEW i \in 1 .. Len(wire'[p])
      PROVE  \/ WasThere(p, wire'[p][i])
             \/ p[1] = s /\ Sound(wire'[p][i], n, node[p[2]])
  <2>1. p[2] \in Server /\ Broadcast(m) \in Outgoing
    BY OutgoingTypes DEF Link
  <2>2. \/ WasThere(p, wire'[p][i])
        \/ p[1] = s /\ Sends(Broadcast(m), p[2], wire'[p][i])
    BY <2>1, SendMessages
  <2> QED
    BY <2>1, <2>2, OneMessageSends
<1> QED
  BY <1>1, <1>2, NodeChange

LEMMA TimersLog ==
    ASSUME TypeOK, LogInvariant, NEW s \in Server, Timers(s)
    PROVE  LogInvariant'
<1> DEFINE n == node[s]
<1>1. n \in NodeState /\ n.current_term \in Nat /\ node = [node EXCEPT ![s] = n]
  BY DEF TypeOK, NodeState
<1>2. CASE ElectionTimeout(s)
  <2> DEFINE k == BecomeCandidate(s, n)
  <2>1. node' = [node EXCEPT ![s] = k] /\ Send(s, Broadcast(RequestVote(s, k)))
    BY <1>2 DEF ElectionTimeout
  <2>2. k \in NodeState /\ k.log = n.log
    BY <1>1, BecomeCandidateType, LogKept
  <2>3. k.current_term = n.current_term + 1
    BY <1>1 DEF BecomeCandidate, NodeState
  <2>4. k.current_term >= n.current_term
    BY <1>1, <2>3
  <2> HIDE DEF k
  <2> QED
    BY <2>1, <2>2, <2>4, RequestVoteType, OthersSound, BroadcastLog
<1>3. CASE CandidateTimeout(s)
  <2>1. node' = node /\ Send(s, Broadcast(RequestVote(s, n)))
    BY <1>3 DEF CandidateTimeout
  <2>2. /\ node' = [node EXCEPT ![s] = n] /\ n.log = node[s].log
        /\ n.current_term >= node[s].current_term
    BY <1>1, <2>1
  <2>3. RequestVote(s, n) \in Message
    BY <1>1, RequestVoteType
  <2> HIDE DEF n
  <2> QED
    BY <1>1, <2>1, <2>2, <2>3, OthersSound, BroadcastLog
<1>4. CASE HeartbeatTimeout(s)
  <2>1. node' = node /\ Send(s, Broadcast(Heartbeat(n)))
    BY <1>4 DEF HeartbeatTimeout
  <2>2. /\ node' = [node EXCEPT ![s] = n] /\ n.log = node[s].log
        /\ n.current_term >= node[s].current_term
    BY <1>1, <2>1
  <2>3. Heartbeat(n) \in Message
    BY <1>1, HeartbeatType
  <2> HIDE DEF n
  <2> QED
    BY <1>1, <2>1, <2>2, <2>3, OthersSound, BroadcastLog
<1> QED
  BY <1>2, <1>3, <1>4 DEF Timers

\* The log of a leader after push is well formed.
LEMMA PushWellFormed ==
    ASSUME NEW n \in NodeState, WellFormed(n), NEW r \in Request
    PROVE  LET k == [n EXCEPT !.log = Append(@, NewEntry(n, r))]
           IN  /\ WellFormed(k) /\ k.current_term = n.current_term
               /\ At(k.log, LastIndex(k.log)).term = k.current_term
<1> DEFINE e == NewEntry(n, r)
           log == Append(n.log, e)
           k == [n EXCEPT !.log = log]
<1>1. n.log \in Seq(Entry) /\ n.current_term \in Nat
  BY DEF NodeState
<1>2. k.log = log /\ k.current_term = n.current_term
  BY DEF NodeState
<1> HIDE DEF k
<1>3. e.term = n.current_term /\ e.index = Len(n.log) /\ e \in Entry
  BY <1>1 DEF NewEntry, Entry
<1> HIDE DEF e
<1>4. /\ Len(log) = Len(n.log) + 1 /\ Len(n.log) \in Nat
      /\ \A i \in 1 .. Len(n.log) : log[i] = n.log[i]
      /\ log[Len(n.log) + 1] = e
  BY <1>1, <1>3
<1> HIDE DEF log
<1>5. \A i \in 1 .. Len(n.log) : /\ n.log[i].term <= n.current_term
                                 /\ n.log[i].index = 0 + i - 1
  BY DEF WellFormed, Ordered
<1>6. \A i \in 1 .. Len(log) : i \in 1 .. Len(n.log) \/ i = Len(n.log) + 1
  BY <1>4
<1>7. \A i \in 1 .. Len(log) : log[i].term <= n.current_term
  BY <1>1, <1>3, <1>4, <1>5, <1>6
<1>8. \A i \in 1 .. Len(log) : log[i].index = 0 + i - 1
  BY <1>3, <1>4, <1>5, <1>6
<1>9. \A i, j \in 1 .. Len(log) : i <= j => log[i].term <= log[j].term
  <2> SUFFICES ASSUME NEW i \in 1 .. Len(log), NEW j \in 1 .. Len(log), i <= j
               PROVE  log[i].term <= log[j].term
    OBVIOUS
  <2>1. CASE j = Len(n.log) + 1
    BY <1>3, <1>4, <1>7, <2>1
  <2>2. CASE j \in 1 .. Len(n.log)
    <3>1. i \in 1 .. Len(n.log)
      BY <1>4, <2>2
    <3> QED
      BY <1>4, <2>2, <3>1 DEF WellFormed, Ordered
  <2> QED
    BY <1>6, <2>1, <2>2
<1>10. At(log, LastIndex(log)).term = n.current_term
  <2>1. LastIndex(log) + 1 = Len(n.log) + 1
    BY <1>4 DEF LastIndex
  <2> QED
    BY <1>3, <1>4, <2>1 DEF At
<1>11. WellFormed(k)
  BY <1>2, <1>7, <1>8, <1>9 DEF WellFormed, Ordered
<1> QED
  BY <1>2, <1>10, <1>11 DEF k, log, e

LEMMA ClientSetLog ==
    ASSUME TypeOK, LogInvariant, NEW s \in Server, NEW r \in Request,
           ClientSet(s, r)
    PROVE  LogInvariant'
<1> DEFINE n == [node[s] EXCEPT !.log = Append(@, NewEntry(node[s], r))]
<1>1. node[s] \in NodeState /\ WellFormed(node[s])
  BY DEF TypeOK, LogInvariant
<1>2. n \in NodeState /\ n.log # <<>>
  BY <1>1, PushType
<1>3. WellFormed(n) /\ At(n.log, LastIndex(n.log)).term = n.current_term
  BY <1>1, PushWellFormed
<1>4. PICK order \in SetToSeqs(Peers(s)), k \in 0 .. Cardinality(Peers(s)) :
        /\ Reaches(n, order, k)
        /\ node' = [node EXCEPT ![s] = IF k = Len(order) THEN MarkSent(s, n)
                                                        ELSE Panicked(n)]
        /\ Send(s, Announcements(n, order, k))
  BY DEF ClientSet
<1> HIDE DEF n
<1> DEFINE out == Announcements(n, order, k)
           new == IF k = Len(order) THEN MarkSent(s, n) ELSE Panicked(n)
<1>5. out \in Outgoing
  BY <1>2, <1>4, AnnouncementsType
<1>6. new \in NodeState /\ new.log = n.log /\ new.current_term = n.current_term
  BY <1>2, MarkSentType, PanickedType, LogKept, LeaderUpdatesOffice,
     PanickedOffice DEF Office
<1>7. node' = [node EXCEPT ![s] = new] /\ Send(s, out)
  BY <1>4
<1> HIDE DEF new
<1>8. ASSUME NEW d \in Server, NEW x, Sends(out, d, x)
      PROVE  Sound(x, new, node[d])
  <2>1. PICK i \in 1 .. k : x = Announcement(n, order[i])
    <3>1. Len(out[d]) = k
      <4>1. out[d] = [i \in 1 .. k |-> Announcement(n, order[i])] /\ k \in Nat
        BY VisitingOrder DEF Announcements
      <4> QED
        BY <4>1
    <3> QED
      BY <1>8, <3>1 DEF Sends, Announcements
  <2>2. EntriesWellFormed(x)
    BY <1>2, <1>3, <2>1, AnnouncementSound
  <2>3. x.kind = "AppendEntries"
    BY <2>1 DEF Announcement, AppendEntries
  <2> QED
    BY <1>2, <1>6, <2>2, <2>3 DEF Sound
<1> HIDE DEF out
<1>9. ASSUME NEW p \in Link, NEW i \in 1 .. Len(wire'[p])
      PROVE  \/ WasThere(p, wire'[p][i])
             \/ p[1] = s /\ Sound(wire'[p][i], new, node[p[2]])
  <2>1. p[2] \in Server
    BY DEF Link
  <2> QED
    BY <1>5, <1>7, <1>8, <2>1, SendMessages
<1>10. WellFormed(new)
  BY <1>3, <1>6 DEF WellFormed
<1> QED
  BY <1>2, <1>6, <1>7, <1>9, <1>10, NodeChange

LEMMA LinkStepsLog ==
    ASSUME TypeOK, LogInvariant, NEW p \in Link, Register(p) \/ BreakLink(p)
    PROVE  LogInvariant'
<1>1. node' = node
  BY DEF Register, BreakLink
<1>2. ASSUME NEW r \in Link, NEW i \in 1 .. Len(wire'[r])
      PROVE  Sound(wire'[r][i], node[r[1]], node[r[2]])
  <2>1. WasThere(r, wire'[r][i])
    BY LinkStepsMessages
  <2> QED
    BY <2>1 DEF WasThere, LogInvariant
<1> QED
  BY <1>1, <1>2 DEF LogInvariant

-----------------------------------------------------------------------------
(* Theorem about the logs                                                  *)

LEMMA LogInvariantHolds == Spec => []LogInvariant
<1>1. Init => LogInvariant
  <2> SUFFICES ASSUME Init PROVE LogInvariant
    OBVIOUS
  <2>1. /\ \A s \in Server : node[s].log = <<>>
        /\ \A p \in Link : wire[p] = <<>>
    BY DEF Init, InitialNode
  <2>2. Len(<<>>) = 0 /\ 1 .. 0 = {}
    OBVIOUS
  <2> QED
    BY <2>1, <2>2 DEF LogInvariant, WellFormed, Ordered
<1>2. TypeOK /\ LogInvariant /\ [Next]_vars => LogInvariant'
  <2> SUFFICES ASSUME TypeOK, LogInvariant, [Next]_vars PROVE LogInvariant'
    OBVIOUS
  <2>1. CASE \E s \in Server : Timers(s)
    BY <2>1, TimersLog
  <2>2. ASSUME NEW s \in Server, NEW src \in Peers(s), HandleMessage(s, src)
        PROVE  LogInvariant'
    BY <2>2, AppendEntriesLog, VotesLog, ResponsesLog DEF HandleMessage
  <2>3. CASE \E s \in Server, r \in Request : ClientSet(s, r)
    BY <2>3, ClientSetLog
  <2>4. CASE \E p \in Link : Register(p) \/ BreakLink(p)
    BY <2>4, LinkStepsLog
  <2>5. CASE UNCHANGED vars
    BY <2>5 DEF vars, LogInvariant
  <2> QED
    BY <2>1, <2>2, <2>3, <2>4, <2>5 DEF Next
<1> QED
  BY <1>1, <1>2, TypeCorrect, PTL DEF Spec

\* In every execution each log holds entries at their own positions with terms
\* that never decrease, and a success has a leader with a log before it
\* (delete_conflicting_and_append_new_entries, retry and broadcast).
THEOREM LogsWellFormed == Spec => []LogWellFormed
<1>1. LogInvariant => LogWellFormed
  BY DEF LogInvariant, LogWellFormed, WellFormed, Sound
<1> QED
  BY <1>1, LogInvariantHolds, PTL

=============================================================================
