-------------------------- MODULE StableLeaderProofs --------------------------
(***************************************************************************)
(* Theorems about a cluster with one electable node, for every number of   *)
(* nodes and requests, whatever links are late, break or lose messages:    *)
(* the leader never panics, an answered request is applied by the leader,  *)
(* and the nodes implement ReplicatedLog.                                  *)
(***************************************************************************)

EXTENDS StableLeader, MiniRaftProofs

-----------------------------------------------------------------------------
(* The inductive invariant                                                 *)

\* The leader alone asks for votes and sends entries.
MessageSound(m, src, l, c) ==
    /\ m.kind \in {"RequestVote", "AppendEntries"} => src = Chief
    /\ Truthful(m, l, c)

OneHistory ==
    /\ ChiefSound(node[Chief]) /\ node[Chief].current_term <= MaxTerm
    /\ \A s \in Server \ {Chief} : FollowerSound(node[s], node[Chief])
    /\ \A p \in Link : \A i \in 1 .. Len(wire[p]) :
          MessageSound(wire[p][i], p[1], node[p[1]].log, node[Chief])
    /\ \A a \in answered : HasApplied(node[Chief], a)

-----------------------------------------------------------------------------
(* What a step of the cluster amounts to                                   *)

\* What is new on the links comes from s, now n, and is sound.
SoundMessages(s, n) ==
    \A p \in Link : \A i \in 1 .. Len(wire'[p]) :
        \/ WasThere(p, wire'[p][i])
        \/ p[1] = s /\ MessageSound(wire'[p][i], s, n.log, node'[Chief])

FollowerStep(s) ==
    \E n \in NodeState :
        /\ s \in Server \ {Chief}
        /\ node' = [node EXCEPT ![s] = n] /\ answered' = answered
        /\ FollowerSound(n, node[Chief]) /\ Forward(node[s], n)
        /\ SoundMessages(s, n)

ChiefStep ==
    \E n \in NodeState :
        /\ node' = [node EXCEPT ![Chief] = n]
        /\ ChiefSound(n) /\ ChiefForward(node[Chief], n)
        /\ n.current_term <= MaxTerm
        /\ n.log = node[Chief].log \/ Pushes(node[Chief], n)
        /\ \A a \in answered' : a \in answered \/ HasApplied(n, a)
        /\ SoundMessages(Chief, n)

LinkStep ==
    /\ node' = node /\ answered' = answered
    /\ \A p \in Link : \A i \in 1 .. Len(wire'[p]) : WasThere(p, wire'[p][i])

LEMMA ChiefNode ==
    ASSUME TypeOK
    PROVE  /\ Chief \in Server /\ node[Chief] \in NodeState
           /\ node[Chief].log \in Seq(Entry)
           /\ \A s \in Server : node[s] \in NodeState /\ node[s].log \in Seq(Entry)
BY ChiefAssumption DEF TypeOK, NodeState

LEMMA FollowerStepKeeps ==
    ASSUME TypeOK, OneHistory, NEW s \in Server, FollowerStep(s)
    PROVE  OneHistory'
<1> DEFINE c == node[Chief]
<1>1. PICK n \in NodeState :
        /\ s \in Server \ {Chief}
        /\ node' = [node EXCEPT ![s] = n] /\ answered' = answered
        /\ FollowerSound(n, c) /\ Forward(node[s], n) /\ SoundMessages(s, n)
  BY DEF FollowerStep
<1>2. /\ node'[s] = n /\ node'[Chief] = c
      /\ \A t \in Server \ {s} : node'[t] = node[t]
  BY <1>1, ChiefAssumption DEF TypeOK
<1>3. ASSUME NEW p \in Link, NEW i \in 1 .. Len(wire'[p])
      PROVE  MessageSound(wire'[p][i], p[1], node'[p[1]].log, c)
  <2>1. p[1] \in Server /\ node[p[1]].log \in Seq(Entry) /\ n.log \in Seq(Entry)
    BY ChiefNode DEF Link, NodeState
  <2>2. CASE WasThere(p, wire'[p][i])
    <3>1. MessageSound(wire'[p][i], p[1], node[p[1]].log, c)
      BY <2>2 DEF WasThere, OneHistory
    <3>2. CASE p[1] = s
      BY <1>1, <1>2, <2>1, <3>1, <3>2, SoundKept DEF Forward, MessageSound
    <3> QED
      BY <1>2, <2>1, <3>1, <3>2
  <2>3. CASE p[1] = s /\ MessageSound(wire'[p][i], s, n.log, c)
    BY <1>2, <2>3
  <2> QED
    BY <1>1, <1>2, <2>2, <2>3 DEF SoundMessages
<1>4. \A t \in Server \ {Chief} : FollowerSound(node'[t], c)
  BY <1>1, <1>2 DEF OneHistory
<1>5. /\ ChiefSound(c) /\ c.current_term <= MaxTerm
      /\ \A a \in answered' : HasApplied(c, a)
  BY <1>1 DEF OneHistory
<1> HIDE DEF c
<1>6. /\ ChiefSound(node'[Chief]) /\ node'[Chief].current_term <= MaxTerm
      /\ \A t \in Server \ {Chief} : FollowerSound(node'[t], node'[Chief])
      /\ \A p \in Link : \A i \in 1 .. Len(wire'[p]) :
            MessageSound(wire'[p][i], p[1], node'[p[1]].log, node'[Chief])
      /\ \A a \in answered' : HasApplied(node'[Chief], a)
  BY <1>2, <1>3, <1>4, <1>5
<1> QED
  BY <1>6 DEF OneHistory

LEMMA ChiefStepKeeps ==
    ASSUME TypeOK, OneHistory, ChiefStep
    PROVE  OneHistory'
<1> DEFINE c == node[Chief]
<1>1. PICK n \in NodeState :
        /\ node' = [node EXCEPT ![Chief] = n]
        /\ ChiefSound(n) /\ ChiefForward(c, n) /\ n.current_term <= MaxTerm
        /\ \A a \in answered' : a \in answered \/ HasApplied(n, a)
        /\ SoundMessages(Chief, n)
  BY DEF ChiefStep
<1>2. /\ c \in NodeState /\ ChiefSound(c) /\ Consistent(c)
      /\ \A t \in Server \ {Chief} : FollowerSound(node[t], c)
      /\ \A a \in answered : HasApplied(c, a)
  BY ChiefNode DEF OneHistory, ChiefSound
<1>3. /\ node'[Chief] = n /\ \A t \in Server \ {Chief} : node'[t] = node[t]
  BY <1>1, ChiefAssumption DEF TypeOK
<1>4. c = node[Chief]
  OBVIOUS
<1> HIDE DEF c
<1>5. ASSUME NEW p \in Link, NEW i \in 1 .. Len(wire'[p])
      PROVE  MessageSound(wire'[p][i], p[1], node'[p[1]].log, n)
  <2> DEFINE m == wire'[p][i]
  <2>1. p[1] \in Server /\ node[p[1]].log \in Seq(Entry) /\ n.log \in Seq(Entry)
    BY ChiefNode DEF Link, NodeState
  <2>2. CASE WasThere(p, m)
    <3>1. MessageSound(m, p[1], node[p[1]].log, c) /\ m \in Message
      BY <1>4, <2>2 DEF WasThere, OneHistory, TypeOK
    <3> HIDE DEF m
    <3>2. MessageSound(m, p[1], node[p[1]].log, n)
      BY <1>1, <1>2, <3>1, ChiefForwardKeeps DEF MessageSound
    <3>3. CASE p[1] = Chief
      BY <1>1, <1>3, <1>4, <2>1, <3>2, <3>3, SoundKept
         DEF m, ChiefForward, Forward, MessageSound
    <3> QED
      BY <1>3, <2>1, <3>2, <3>3 DEF m
  <2>3. CASE p[1] = Chief /\ MessageSound(m, Chief, n.log, n)
    BY <1>3, <2>3
  <2> QED
    BY <1>1, <1>3, <2>2, <2>3 DEF SoundMessages
<1>6. \A t \in Server \ {Chief} : FollowerSound(node'[t], n)
  BY <1>1, <1>2, <1>3, ChiefNode, ChiefForwardKeeps
<1>7. \A a \in answered' : HasApplied(n, a)
  BY <1>1, <1>2, ChiefForwardKeeps
<1>8. /\ ChiefSound(node'[Chief]) /\ node'[Chief].current_term <= MaxTerm
      /\ \A t \in Server \ {Chief} : FollowerSound(node'[t], node'[Chief])
      /\ \A p \in Link : \A i \in 1 .. Len(wire'[p]) :
            MessageSound(wire'[p][i], p[1], node'[p[1]].log, node'[Chief])
      /\ \A a \in answered' : HasApplied(node'[Chief], a)
  BY <1>1, <1>3, <1>5, <1>6, <1>7
<1> QED
  BY <1>8 DEF OneHistory

LEMMA LinkStepKeeps ==
    ASSUME TypeOK, OneHistory, LinkStep
    PROVE  OneHistory'
<1>1. \A p \in Link : \A i \in 1 .. Len(wire'[p]) :
         MessageSound(wire'[p][i], p[1], node'[p[1]].log, node'[Chief])
  BY DEF LinkStep, WasThere, OneHistory
<1>2. /\ ChiefSound(node'[Chief]) /\ node'[Chief].current_term <= MaxTerm
      /\ \A t \in Server \ {Chief} : FollowerSound(node'[t], node'[Chief])
      /\ \A a \in answered' : HasApplied(node'[Chief], a)
  BY DEF LinkStep, OneHistory
<1> QED
  BY <1>1, <1>2 DEF OneHistory

-----------------------------------------------------------------------------
(* What arrives at a node                                                  *)

LEMMA ArrivesSound ==
    ASSUME TypeOK, OneHistory, NEW s \in Server, NEW src \in Peers(s),
           wire[<<src, s>>] # <<>>
    PROVE  MessageSound(Incoming(s, src), src, node[src].log, node[Chief])
<1>1. <<src, s>> \in Link /\ src \in Server
  BY LinkType
<1>2. wire[<<src, s>>] \in Seq(Message)
  BY <1>1 DEF TypeOK
<1>3. 1 \in 1 .. Len(wire[<<src, s>>])
      /\ wire[<<src, s>>][1] = Incoming(s, src)
  BY <1>2 DEF Incoming
<1>4. <<src, s>>[1] = src
  OBVIOUS
<1> QED
  BY <1>1, <1>3, <1>4 DEF OneHistory

\* A follower ends a handler: it applies what is committed, and sends nothing
\* of its own accord.
LEMMA FinishFollower ==
    ASSUME TypeOK, OneHistory, NEW s \in Server \ {Chief}, NEW src \in Peers(s),
           wire[<<src, s>>] # <<>>, NEW n \in NodeState, NEW out \in Outgoing,
           Finish(src, s, n, out), answered' = answered,
           FollowerSound(n, node[Chief]), Forward(node[s], n),
           \A d \in Server : \A m :
              Sends(out, d, m) => MessageSound(m, s, n.log, node[Chief])
    PROVE  FollowerStep(s)
<1> DEFINE k == Resume(n)
<1>1. node' = [node EXCEPT ![s] = k] /\ node'[Chief] = node[Chief]
  BY ChiefAssumption DEF Finish, TypeOK
<1>2. /\ k \in NodeState /\ k.log = n.log /\ SameOffice(n, k) /\ Consistent(k)
      /\ k.commit_index = n.commit_index
      /\ k.last_applied >= n.last_applied
  BY ResumeAdvances DEF FollowerSound
<1> HIDE DEF k
<1>3. FollowerSound(k, node[Chief])
  BY <1>2 DEF FollowerSound, SameOffice
<1>4. Forward(node[s], k)
  <2>1. /\ n.last_applied \in Int /\ k.last_applied \in Int
        /\ node[s].last_applied \in Int
    BY <1>2, ChiefNode, NumbersOf
  <2> QED
    BY <1>2, <2>1 DEF Forward
<1>5. SoundMessages(s, k)
  <2> SUFFICES ASSUME NEW p \in Link, NEW i \in 1 .. Len(wire'[p])
               PROVE  \/ WasThere(p, wire'[p][i])
                      \/ /\ p[1] = s
                         /\ MessageSound(wire'[p][i], s, k.log, node'[Chief])
    BY DEF SoundMessages
  <2>1. n.role # "Candidate" /\ p[2] \in Server
    BY DEF FollowerSound, Link
  <2>2. WasThere(p, wire'[p][i]) \/ (p[1] = s /\ Sends(out, p[2], wire'[p][i]))
    BY <2>1, FinishMessages
  <2> QED
    BY <1>1, <1>2, <2>1, <2>2
<1> QED
  BY <1>1, <1>2, <1>3, <1>4, <1>5 DEF FollowerStep

\* The leader ends a handler. It was no follower, since nobody sends anything
\* before it campaigns; as a candidate it asks for votes again.
LEMMA FinishChief ==
    ASSUME TypeOK, OneHistory, NEW src \in Peers(Chief),
           wire[<<src, Chief>>] # <<>>, NEW n \in NodeState,
           NEW out \in Outgoing, Finish(src, Chief, n, out),
           ChiefSound(n), Forward(node[Chief], n), n.log = node[Chief].log,
           n.role # "Follower", n.current_term = node[Chief].current_term,
           \A a \in answered' : a \in answered \/ HasApplied(n, a),
           \A d \in Server : \A m :
              Sends(out, d, m) => MessageSound(m, Chief, n.log, n)
    PROVE  ChiefStep
<1> DEFINE c == node[Chief]
<1>1. node' = [node EXCEPT ![Chief] = n] /\ node'[Chief] = n
  BY ChiefAssumption DEF Finish, Resume, TypeOK
<1>2. ChiefForward(c, n)
  <2>1. c.current_term \in Nat /\ Len(c.log) \in Nat
    BY ChiefNode, NumbersOf
  <2> QED
    BY <2>1 DEF ChiefForward, Prefix
<1>3. SoundMessages(Chief, n)
  <2> SUFFICES ASSUME NEW p \in Link, NEW i \in 1 .. Len(wire'[p])
               PROVE  \/ WasThere(p, wire'[p][i])
                      \/ /\ p[1] = Chief
                         /\ MessageSound(wire'[p][i], Chief, n.log, n)
    BY <1>1 DEF SoundMessages
  <2>1. p[2] \in Server /\ n.current_term \in Nat
    BY NumbersOf DEF Link
  <2>2. MessageSound(RequestVote(Chief, n), Chief, n.log, n)
    BY <2>1 DEF MessageSound, Truthful, RequestVote
  <2>3. \/ WasThere(p, wire'[p][i])
        \/ p[1] = Chief /\ Sends(out, p[2], wire'[p][i])
        \/ p[1] = Chief /\ wire'[p][i] = RequestVote(Chief, n)
    BY FinishMessages, ChiefAssumption
  <2> QED
    BY <2>1, <2>2, <2>3
<1>4. n.current_term <= MaxTerm
  BY DEF OneHistory
<1> QED
  BY <1>1, <1>2, <1>3, <1>4 DEF ChiefStep

-----------------------------------------------------------------------------
(* The handlers of a follower                                              *)

LEMMA FollowerAppendEntries ==
    ASSUME TypeOK, OneHistory, NEW s \in Server \ {Chief}, NEW src \in Peers(s),
           \/ RejectAppendEntries(s, src) \/ StepDownOnAppendEntries(s, src)
           \/ AcceptHeartbeat(s, src) \/ AcceptNewEntries(s, src)
           \/ PanicOnGap(s, src)
    PROVE  FollowerStep(s)
<1> DEFINE n == node[s]
           c == node[Chief]
           m == Incoming(s, src)
<1>1. Receives(s, src, "AppendEntries") /\ answered' = answered
  BY DEF RejectAppendEntries, StepDownOnAppendEntries, AcceptHeartbeat,
         AcceptNewEntries, PanicOnGap
<1>2. /\ n \in NodeState /\ m \in Message /\ m.kind = "AppendEntries"
      /\ wire[<<src, s>>] # <<>> /\ src \in Server
      /\ c \in NodeState /\ n.role # "Dead"
  BY <1>1, IncomingType, ChiefNode DEF Receives
<1>3. /\ m.term = c.current_term /\ m.leader_commit <= c.commit_index
      /\ m.entries # <<>> => m.leader_commit <= Newest(m.entries)
      /\ Excerpt(m.entries, c.log) /\ c.role # "Follower"
  BY <1>2, ArrivesSound DEF MessageSound, Truthful
<1>4. FollowerSound(n, c) /\ n.role = "Follower" /\ n = node[s] /\ c = node[Chief]
  BY <1>2 DEF OneHistory, FollowerSound
<1>5. n.current_term \in Nat /\ c.current_term \in Nat
      /\ n.current_term <= c.current_term
  BY <1>2, <1>4, NumbersOf DEF FollowerSound
<1> HIDE DEF n, m, c
<1>6. CASE RejectAppendEntries(s, src)
  <2> DEFINE out == SendTo(src, AppendEntriesResponse(n, FALSE))
  <2>1. Finish(src, s, n, out) /\ Rejects(n, m)
    BY <1>6 DEF RejectAppendEntries, n, m
  <2>2. out \in Outgoing
    BY <1>2, ResponseTypes, OutgoingTypes
  <2>3. n.log # <<>>
    <3>1. ~ PrevLogMatches(n.log, m.prev_log_index, m.prev_log_term)
      BY <1>3, <1>5, <2>1 DEF Rejects
    <3> QED
      BY <3>1 DEF PrevLogMatches, Has, LastIndex
  <2>4. MessageSound(AppendEntriesResponse(n, FALSE), s, n.log, c)
    BY <1>3, <1>5, <2>3 DEF MessageSound, Truthful, AppendEntriesResponse
  <2>5. \A d \in Server : \A x : Sends(out, d, x) => MessageSound(x, s, n.log, c)
    BY <2>4, OneMessageSends
  <2>6. Forward(n, n)
    BY <1>2, ForwardStays
  <2> HIDE DEF out
  <2> QED
    BY <1>1, <1>2, <1>4, <2>1, <2>2, <2>5, <2>6, FinishFollower
<1>7. CASE StepDownOnAppendEntries(s, src)
  BY <1>4, <1>7 DEF StepDownOnAppendEntries, StepsDown, n
<1>8. CASE AcceptHeartbeat(s, src)
  <2> DEFINE k == Observe(n, m)
  <2>1. Finish(src, s, k, Silence)
    BY <1>8 DEF AcceptHeartbeat, n, m
  <2>2. k \in NodeState /\ FollowerSound(k, c) /\ Forward(n, k)
    BY <1>2, <1>3, <1>4, ObserveFollows
  <2> HIDE DEF k
  <2> QED
    BY <1>1, <1>2, <1>4, <2>1, <2>2, SilenceType, SilenceSends, FinishFollower
<1>9. CASE AcceptNewEntries(s, src)
  <2> DEFINE o == Observe(n, m)
             k == Store(o, m)
             out == SendTo(src, AppendEntriesResponse(k, TRUE))
  <2>1. /\ Finish(src, s, k, out)
        /\ m.entries # <<>> /\ ~ LeavesGap(n.log, m.entries)
    BY <1>9 DEF AcceptNewEntries, n, m
  <2>2. o \in NodeState /\ o.log = n.log /\ FollowerSound(o, c) /\ Forward(n, o)
    BY <1>2, <1>3, <1>4, ObserveFollows
  <2> HIDE DEF o
  <2>3. /\ k \in NodeState /\ k.log # <<>>
        /\ FollowerSound(k, c) /\ Forward(o, k)
    BY <1>2, <1>3, <2>1, <2>2, StoreFollows
  <2> HIDE DEF k
  <2>4. Forward(n, k)
    <3>1. /\ n.commit_index \in Int /\ o.commit_index \in Int
          /\ k.commit_index \in Int /\ n.last_applied \in Int
          /\ o.last_applied \in Int /\ k.last_applied \in Int
          /\ Len(n.log) \in Nat /\ Len(o.log) \in Nat /\ Len(k.log) \in Nat
      BY <1>2, <2>2, <2>3, NumbersOf
    <3> QED
      BY <2>2, <2>3, <3>1 DEF Forward
  <2>5. out \in Outgoing
    BY <1>2, <2>3, ResponseTypes, OutgoingTypes
  <2>6. MessageSound(AppendEntriesResponse(k, TRUE), s, k.log, c)
    BY <1>3, <2>3 DEF MessageSound, Truthful, AppendEntriesResponse, FollowerSound
  <2>7. \A d \in Server : \A x : Sends(out, d, x) => MessageSound(x, s, k.log, c)
    BY <2>6, OneMessageSends
  <2> HIDE DEF out
  <2> QED
    BY <1>1, <1>2, <1>4, <2>1, <2>3, <2>4, <2>5, <2>7, FinishFollower
<1>10. CASE PanicOnGap(s, src)
  <2> DEFINE o == Observe(n, m)
             k == Panicked(o)
  <2>1. Finish(src, s, k, Silence)
    BY <1>10 DEF PanicOnGap, n, m
  <2>2. o \in NodeState /\ FollowerSound(o, c) /\ Forward(n, o)
    BY <1>2, <1>3, <1>4, ObserveFollows
  <2> HIDE DEF o
  <2>3. /\ k \in NodeState /\ k.log = o.log /\ k.commit_index = o.commit_index
        /\ k.last_applied = o.last_applied /\ k.store = o.store
        /\ k.role = "Dead" /\ k.current_term = o.current_term
    BY <2>2, PanickedType DEF Panicked, NodeState
  <2> HIDE DEF k
  <2>4. FollowerSound(k, c) /\ Forward(n, k)
    BY <2>2, <2>3 DEF FollowerSound, Consistent, Forward
  <2> QED
    BY <1>1, <1>2, <1>4, <2>1, <2>3, <2>4, SilenceType, SilenceSends,
       FinishFollower
<1> QED
  BY <1>6, <1>7, <1>8, <1>9, <1>10

\* A follower answers a vote request and ignores responses.
LEMMA FollowerOther ==
    ASSUME TypeOK, OneHistory, NEW s \in Server \ {Chief}, NEW src \in Peers(s),
           \/ HandleRequestVote(s, src) \/ IgnoreVoteResponse(s, src)
           \/ StepDownOnVoteResponse(s, src) \/ CountVote(s, src)
           \/ WinElection(s, src)
           \/ IgnoreAppendEntriesResponse(s, src)
           \/ StepDownOnAppendEntriesResponse(s, src)
           \/ RecordSuccess(s, src) \/ CommitAndAnswer(s, src)
           \/ RetryAfterFailure(s, src) \/ PanicOnFailure(s, src)
    PROVE  FollowerStep(s)
<1> DEFINE n == node[s]
           c == node[Chief]
           m == Incoming(s, src)
<1>1. PICK kind : Receives(s, src, kind)
  BY DEF HandleRequestVote, IgnoreVoteResponse, StepDownOnVoteResponse,
         CountVote, WinElection,
         IgnoreAppendEntriesResponse, StepDownOnAppendEntriesResponse,
         RecordSuccess, CommitAndAnswer, RetryAfterFailure, PanicOnFailure,
         Counts
<1>2. /\ n \in NodeState /\ m \in Message /\ wire[<<src, s>>] # <<>>
      /\ src \in Server /\ c \in NodeState /\ n.role # "Dead"
  BY <1>1, IncomingType, ChiefNode DEF Receives
<1>3. FollowerSound(n, c) /\ n.role = "Follower" /\ n = node[s] /\ c = node[Chief]
  BY <1>2 DEF OneHistory, FollowerSound
<1>4. c.role # "Follower"
  BY <1>2, ArrivesSound DEF MessageSound, Truthful
<1>5. Forward(n, n)
  BY <1>2, ForwardStays
<1> HIDE DEF n, m, c
<1>6. CASE HandleRequestVote(s, src)
  <2> DEFINE b == ~ DeniesVote(n, m)
             out == SendTo(m.candidate_id, RequestVoteResponse(n, b))
  <2>1. Finish(src, s, n, out) /\ answered' = answered
    BY <1>6 DEF HandleRequestVote, n, m
  <2>2. b \in BOOLEAN
    OBVIOUS
  <2> HIDE DEF b
  <2>3. out \in Outgoing
    BY <1>2, <2>2, ResponseTypes, OutgoingTypes
  <2>4. MessageSound(RequestVoteResponse(n, b), s, n.log, c)
    BY <1>3, <1>4 DEF MessageSound, Truthful, RequestVoteResponse, FollowerSound
  <2>5. \A d \in Server : \A x : Sends(out, d, x) => MessageSound(x, s, n.log, c)
    BY <2>4, OneMessageSends
  <2> HIDE DEF out
  <2> QED
    BY <1>2, <1>3, <1>5, <2>1, <2>3, <2>5, FinishFollower
<1>7. CASE ~ HandleRequestVote(s, src)
  <2>1. \/ IgnoreVoteResponse(s, src) \/ IgnoreAppendEntriesResponse(s, src)
    <3>1. ~ (n.role \in {"Candidate", "Leader"})
      BY <1>3
    <3>2. /\ ~ StepDownOnVoteResponse(s, src) /\ ~ CountVote(s, src)
          /\ ~ WinElection(s, src)
      <4>1. n \in NodeState /\ Counted(n).role = n.role
        BY <1>2 DEF Counted, NodeState
      <4> QED
        BY <3>1, <4>1 DEF StepDownOnVoteResponse, CountVote, WinElection, n
    <3>3. /\ ~ StepDownOnAppendEntriesResponse(s, src) /\ ~ RecordSuccess(s, src)
          /\ ~ CommitAndAnswer(s, src) /\ ~ RetryAfterFailure(s, src)
          /\ ~ PanicOnFailure(s, src)
      BY <3>1 DEF StepDownOnAppendEntriesResponse, RecordSuccess,
                  CommitAndAnswer, RetryAfterFailure, PanicOnFailure, Counts, n
    <3> QED
      BY <1>7, <3>2, <3>3
  <2>2. Finish(src, s, n, Silence) /\ answered' = answered
    BY <2>1 DEF IgnoreVoteResponse, IgnoreAppendEntriesResponse, n
  <2> QED
    BY <1>2, <1>3, <1>5, <2>2, SilenceType, SilenceSends, FinishFollower
<1> QED
  BY <1>6, <1>7

LEMMA FollowerHandles ==
    ASSUME TypeOK, OneHistory, NEW s \in Server \ {Chief}, NEW src \in Peers(s),
           HandleMessage(s, src)
    PROVE  FollowerStep(s)
BY FollowerAppendEntries, FollowerOther DEF HandleMessage

-----------------------------------------------------------------------------
(* The handlers of the leader                                              *)

\* What the leader finds when a message arrives: it has campaigned, it is
\* asked for nothing, nobody is ahead of its term, and it has a log when a
\* response to entries comes.
LEMMA ChiefReceives ==
    ASSUME TypeOK, OneHistory, NEW src \in Peers(Chief), NEW kind,
           Receives(Chief, src, kind)
    PROVE  LET n == node[Chief]
               m == Incoming(Chief, src)
           IN  /\ n \in NodeState /\ ChiefSound(n)
               /\ n.role \in {"Candidate", "Leader"}
               /\ m.term \in Nat /\ m.term <= n.current_term
               /\ kind \in {"RequestVoteResponse", "AppendEntriesResponse"}
               /\ kind = "AppendEntriesResponse" => n.log # <<>>
               /\ wire[<<src, Chief>>] # <<>> /\ src \in Server
<1> DEFINE n == node[Chief]
           m == Incoming(Chief, src)
<1>1. /\ m \in Message /\ m.kind = kind /\ wire[<<src, Chief>>] # <<>>
      /\ src \in Server /\ n \in NodeState
  BY ChiefNode, IncomingType
<1>2. src # Chief
  BY DEF Peers
<1>3. MessageSound(m, src, node[src].log, n)
  BY <1>1, ChiefNode, ArrivesSound
<1>4. ChiefSound(n) /\ FollowerSound(node[src], n)
  BY <1>1, <1>2 DEF OneHistory
<1>5. kind \in {"RequestVoteResponse", "AppendEntriesResponse"}
  <2>1. m.kind \in {"RequestVote", "RequestVoteResponse", "AppendEntries",
                    "AppendEntriesResponse"}
    BY <1>1 DEF Message
  <2> QED
    BY <1>1, <1>2, <1>3, <2>1 DEF MessageSound, Truthful
<1>6. kind = "AppendEntriesResponse" => n.log # <<>>
  <2>1. Prefix(node[src].log, n.log)
    BY <1>4 DEF FollowerSound
  <2>2. Prefix(n.log, n.log)
    BY ChiefNode DEF Prefix
  <2>3. node[src].log # <<>> => n.log # <<>>
    BY <1>1, <2>1, <2>2, ChiefNode, PrefixFacts
  <2> QED
    BY <1>1, <1>3, <2>3 DEF MessageSound, Truthful
<1>7. m.term \in Nat
  BY <1>1, MessageFields
<1> QED
  BY <1>1, <1>3, <1>4, <1>5, <1>6, <1>7 DEF MessageSound, Truthful, ChiefSound

LEMMA ChiefVotes ==
    ASSUME TypeOK, OneHistory, NEW src \in Peers(Chief),
           \/ HandleRequestVote(Chief, src) \/ IgnoreVoteResponse(Chief, src)
           \/ StepDownOnVoteResponse(Chief, src) \/ CountVote(Chief, src)
           \/ WinElection(Chief, src)
    PROVE  ChiefStep
<1> DEFINE n == node[Chief]
           m == Incoming(Chief, src)
<1>1. PICK kind \in {"RequestVote", "RequestVoteResponse"} :
        Receives(Chief, src, kind)
  BY DEF HandleRequestVote, IgnoreVoteResponse, StepDownOnVoteResponse,
         CountVote, WinElection
<1>2. /\ n \in NodeState /\ ChiefSound(n) /\ n.role \in {"Candidate", "Leader"}
      /\ m.term \in Nat /\ m.term <= n.current_term
      /\ kind = "RequestVoteResponse" /\ ~ Receives(Chief, src, "RequestVote")
      /\ wire[<<src, Chief>>] # <<>>
  BY <1>1, ChiefReceives
<1>3. answered' = answered /\ n = node[Chief] /\ n.current_term \in Nat
  BY <1>2, NumbersOf
     DEF HandleRequestVote, IgnoreVoteResponse, StepDownOnVoteResponse,
         CountVote, WinElection
<1> HIDE DEF n, m
<1>4. CASE HandleRequestVote(Chief, src)
  BY <1>2, <1>4 DEF HandleRequestVote
<1>5. CASE IgnoreVoteResponse(Chief, src)
  <2>1. Finish(src, Chief, n, Silence)
    BY <1>5 DEF IgnoreVoteResponse, n
  <2> QED
    BY <1>2, <1>3, <2>1, SilenceType, SilenceSends, ForwardStays, FinishChief
<1>6. CASE StepDownOnVoteResponse(Chief, src)
  BY <1>2, <1>3, <1>6 DEF StepDownOnVoteResponse, n, m
<1> DEFINE v == Counted(n)
<1>7. /\ v \in NodeState /\ ChiefSound(v) /\ Forward(n, v)
      /\ v.log = n.log /\ v.role = n.role /\ v.current_term = n.current_term
  BY <1>2, CountedSound
<1>8. CASE CountVote(Chief, src)
  <2>1. Finish(src, Chief, v, Silence)
    BY <1>8 DEF CountVote, n
  <2> HIDE DEF v
  <2> QED
    BY <1>2, <1>3, <1>7, <2>1, SilenceType, SilenceSends, FinishChief
<1>9. CASE WinElection(Chief, src)
  <2> DEFINE k == TakeOffice(v)
             out == Broadcast(Heartbeat(k))
  <2>1. Finish(src, Chief, k, out) /\ v.role = "Candidate"
    BY <1>9 DEF WinElection, n
  <2> HIDE DEF v
  <2>5. /\ k \in NodeState /\ ChiefSound(k) /\ Forward(v, k)
        /\ k.role = "Leader" /\ k.log = v.log
        /\ k.current_term = v.current_term
    BY <1>7, <2>1, OfficeSound
  <2> HIDE DEF k
  <2>7. Forward(n, k) /\ k.log = n.log /\ k.current_term = n.current_term
    BY <1>2, <1>7, <2>5, ForwardOn
  <2>8. out \in Outgoing
    BY <2>5, HeartbeatType, OutgoingTypes
  <2>9. \A d \in Server : \A x :
          Sends(out, d, x) => MessageSound(x, Chief, k.log, k)
    BY <2>5, ChiefMessages, OneMessageSends DEF MessageSound
  <2> HIDE DEF out
  <2> QED
    BY <1>2, <1>3, <2>1, <2>5, <2>7, <2>8, <2>9, FinishChief
<1> QED
  BY <1>4, <1>5, <1>6, <1>8, <1>9

LEMMA ChiefResponses ==
    ASSUME TypeOK, OneHistory, NEW src \in Peers(Chief),
           \/ IgnoreAppendEntriesResponse(Chief, src)
           \/ StepDownOnAppendEntriesResponse(Chief, src)
           \/ RecordSuccess(Chief, src) \/ CommitAndAnswer(Chief, src)
           \/ RetryAfterFailure(Chief, src) \/ PanicOnFailure(Chief, src)
    PROVE  ChiefStep
<1> DEFINE n == node[Chief]
           m == Incoming(Chief, src)
           a == Acknowledged(n, src)
           b == BackedOff(n, src)
<1>1. Receives(Chief, src, "AppendEntriesResponse")
  BY DEF IgnoreAppendEntriesResponse, StepDownOnAppendEntriesResponse,
         RecordSuccess, CommitAndAnswer, RetryAfterFailure, PanicOnFailure,
         Counts
<1>2. /\ n \in NodeState /\ ChiefSound(n) /\ n.role \in {"Candidate", "Leader"}
      /\ m.term \in Nat /\ m.term <= n.current_term
      /\ n.log # <<>> /\ wire[<<src, Chief>>] # <<>> /\ src \in Server
  BY <1>1, ChiefReceives
<1>3. n = node[Chief] /\ n.current_term \in Nat
  BY <1>2, NumbersOf
<1>4. /\ a \in NodeState /\ ChiefSound(a) /\ b \in NodeState /\ ChiefSound(b)
      /\ Has(n.log, b.next_index[src])
  BY <1>2, EstimatesInside
<1>5. /\ a.log = n.log /\ a.role = n.role /\ a.current_term = n.current_term
      /\ a.commit_index = n.commit_index /\ a.last_applied = n.last_applied
  BY <1>2 DEF Acknowledged, NodeState
<1>6. /\ b.log = n.log /\ b.role = n.role /\ b.current_term = n.current_term
      /\ b.commit_index = n.commit_index /\ b.last_applied = n.last_applied
  BY <1>2 DEF BackedOff, NodeState
<1> HIDE DEF n, m, a, b
<1>7. CASE IgnoreAppendEntriesResponse(Chief, src)
  <2>1. Finish(src, Chief, n, Silence) /\ answered' = answered
    BY <1>7 DEF IgnoreAppendEntriesResponse, n
  <2> QED
    BY <1>2, <1>3, <2>1, SilenceType, SilenceSends, ForwardStays, FinishChief
<1>8. CASE StepDownOnAppendEntriesResponse(Chief, src)
  BY <1>2, <1>3, <1>8 DEF StepDownOnAppendEntriesResponse, n, m
<1>9. CASE RecordSuccess(Chief, src)
  <2>1. Finish(src, Chief, a, Silence) /\ answered' = answered
    BY <1>9 DEF RecordSuccess, n, a
  <2> QED
    BY <1>2, <1>3, <1>4, <1>5, <2>1, SilenceType, SilenceSends, ForwardStays,
       FinishChief
<1>10. CASE CommitAndAnswer(Chief, src)
  <2> DEFINE c == AdvanceCommit(a)
             k == ApplyOwn(Chief, c)
  <2>1. /\ Finish(src, Chief, k, Silence) /\ Committable(a) # {}
        /\ answered' = answered \union {ClientOf(c)}
    BY <1>10 DEF CommitAndAnswer, n, a
  <2>2. /\ c \in NodeState /\ ChiefSound(c) /\ Forward(a, c) /\ c.log = a.log
        /\ c.role = a.role /\ c.current_term = a.current_term
    BY <1>4, CommitAdvances
  <2>3. c.commit_index \in Nat
    BY <1>4, <2>1, CommittableRange DEF AdvanceCommit, NodeState
  <2> HIDE DEF c
  <2>4. /\ k \in NodeState /\ ChiefSound(k) /\ Forward(c, k) /\ k.log = c.log
        /\ k.role = c.role /\ k.current_term = c.current_term
        /\ HasApplied(k, ClientOf(c))
    BY <2>2, <2>3, ChiefNode, OwnApplied
  <2> HIDE DEF k
  <2>5. Forward(n, k)
    <3>1. /\ n.commit_index \in Int /\ n.last_applied \in Int
          /\ c.commit_index \in Int /\ c.last_applied \in Int
          /\ k.commit_index \in Int /\ k.last_applied \in Int
          /\ Len(n.log) \in Nat
      BY <1>2, <2>2, <2>4, NumbersOf
    <3> QED
      BY <1>5, <2>2, <2>4, <3>1 DEF Forward
  <2>6. \A x \in answered' : x \in answered \/ HasApplied(k, x)
    BY <2>1, <2>4
  <2> QED
    BY <1>2, <1>3, <1>5, <2>1, <2>2, <2>4, <2>5, <2>6, SilenceType,
       SilenceSends, FinishChief
<1>11. CASE RetryAfterFailure(Chief, src)
  <2> DEFINE k == AdvanceCommit(b)
             out == SendTo(src, Retry(b, src))
  <2>1. Finish(src, Chief, k, out) /\ answered' = answered
    BY <1>11 DEF RetryAfterFailure, n, b
  <2>2. /\ k \in NodeState /\ ChiefSound(k) /\ Forward(b, k) /\ k.log = b.log
        /\ k.role = b.role /\ k.current_term = b.current_term
    BY <1>4, CommitAdvances
  <2> HIDE DEF k
  <2>3. Forward(n, k)
    BY <1>6, <2>2 DEF Forward
  <2>4. out \in Outgoing
    BY <1>2, <1>4, <1>6, RetryType, OutgoingTypes
  <2>5. MessageSound(Retry(b, src), Chief, k.log, k)
    <3>1. MessageSound(Retry(b, src), Chief, k.log, b)
      BY <1>2, <1>4, <1>6, ChiefMessages DEF MessageSound
    <3>2. ChiefForward(b, k)
      <4>1. Prefix(b.log, k.log) /\ k.current_term >= b.current_term
        BY <1>3, <1>6, <2>2, NumbersOf DEF Prefix
      <4> QED
        BY <2>2, <4>1 DEF ChiefForward
    <3>3. Retry(b, src) \in Message /\ Consistent(b)
      BY <1>2, <1>4, <1>6, RetryType DEF ChiefSound
    <3> QED
      BY <1>4, <2>2, <3>1, <3>2, <3>3, ChiefForwardKeeps DEF MessageSound
  <2>6. \A d \in Server : \A x :
          Sends(out, d, x) => MessageSound(x, Chief, k.log, k)
    BY <2>5, OneMessageSends
  <2> HIDE DEF out
  <2> QED
    BY <1>2, <1>3, <1>6, <2>1, <2>2, <2>3, <2>4, <2>6, FinishChief
<1>12. CASE PanicOnFailure(Chief, src)
  BY <1>4, <1>6, <1>12 DEF PanicOnFailure, n, b
<1> QED
  BY <1>7, <1>8, <1>9, <1>10, <1>11, <1>12

LEMMA ChiefHandles ==
    ASSUME TypeOK, OneHistory, NEW src \in Peers(Chief),
           HandleMessage(Chief, src)
    PROVE  ChiefStep
<1>1. ASSUME NEW kind, Receives(Chief, src, kind)
      PROVE  kind \in {"RequestVoteResponse", "AppendEntriesResponse"}
  BY <1>1, ChiefReceives
<1>2. ~ Receives(Chief, src, "AppendEntries")
  BY <1>1
<1> QED
  BY <1>2, ChiefVotes, ChiefResponses
     DEF HandleMessage, RejectAppendEntries, StepDownOnAppendEntries,
         AcceptHeartbeat, AcceptNewEntries, PanicOnGap

-----------------------------------------------------------------------------
(* Timers, client requests and connections                                 *)

\* The leader's node changes, and it sends.
LEMMA SendChief ==
    ASSUME TypeOK, OneHistory, NEW n \in NodeState, NEW out \in Outgoing,
           node' = [node EXCEPT ![Chief] = n], Send(Chief, out),
           ChiefSound(n), ChiefForward(node[Chief], n), answered' = answered,
           n.current_term <= MaxTerm,
           n.log = node[Chief].log \/ Pushes(node[Chief], n),
           \A d \in Server : \A m :
              Sends(out, d, m) => MessageSound(m, Chief, n.log, n)
    PROVE  ChiefStep
<1>1. node'[Chief] = n
  BY ChiefNode DEF TypeOK
<1>2. SoundMessages(Chief, n)
  <2> SUFFICES ASSUME NEW p \in Link, NEW i \in 1 .. Len(wire'[p])
               PROVE  \/ WasThere(p, wire'[p][i])
                      \/ /\ p[1] = Chief
                         /\ MessageSound(wire'[p][i], Chief, n.log, n)
    BY <1>1 DEF SoundMessages
  <2>1. p[2] \in Server
    BY DEF Link
  <2> QED
    BY <2>1, ChiefNode, SendMessages
<1> QED
  BY <1>2 DEF ChiefStep

\* No node but Chief campaigns or leads.
LEMMA TimersStep ==
    ASSUME TypeOK, OneHistory, NEW s \in Server, Timers(s)
    PROVE  ChiefStep
<1> DEFINE n == node[Chief]
<1>1. s = Chief
  <2>1. ElectionTimeout(s) => s = Chief
    BY ChiefAssumption DEF ElectionTimeout
  <2>2. CandidateTimeout(s) \/ HeartbeatTimeout(s) => s = Chief
    BY DEF CandidateTimeout, HeartbeatTimeout, OneHistory, FollowerSound
  <2> QED
    BY <2>1, <2>2 DEF Timers
<1>2. n \in NodeState /\ ChiefSound(n) /\ Chief \in Server
  BY ChiefNode DEF OneHistory
<1>3. node = [node EXCEPT ![Chief] = n] /\ n = node[Chief]
  BY DEF TypeOK
<1>4. n.current_term \in Nat /\ n.current_term <= MaxTerm
  BY <1>2, NumbersOf DEF OneHistory
<1> HIDE DEF n
<1>5. CASE ElectionTimeout(Chief)
  <2> DEFINE k == BecomeCandidate(Chief, n)
             out == Broadcast(RequestVote(Chief, k))
  <2>1. /\ node' = [node EXCEPT ![Chief] = k] /\ Send(Chief, out)
        /\ n.role = "Follower" /\ k.current_term <= MaxTerm
        /\ answered' = answered
    BY <1>5 DEF ElectionTimeout, n
  <2>2. /\ k \in NodeState /\ ChiefSound(k) /\ ChiefForward(n, k)
        /\ k.role = "Candidate" /\ k.log = n.log
    BY <1>2, <2>1, CandidateSound
  <2> HIDE DEF k
  <2>5. out \in Outgoing
    BY <1>2, <2>2, RequestVoteType, OutgoingTypes
  <2>6. MessageSound(RequestVote(Chief, k), Chief, k.log, k)
    BY <2>2, ChiefMessages DEF MessageSound
  <2>7. \A d \in Server : \A x :
          Sends(out, d, x) => MessageSound(x, Chief, k.log, k)
    BY <2>6, OneMessageSends
  <2> HIDE DEF out
  <2> QED
    BY <1>3, <2>1, <2>2, <2>5, <2>7, SendChief
<1>6. CASE CandidateTimeout(Chief)
  <2> DEFINE out == Broadcast(RequestVote(Chief, n))
  <2>1. /\ node' = [node EXCEPT ![Chief] = n] /\ Send(Chief, out)
        /\ n.role = "Candidate" /\ answered' = answered
    BY <1>3, <1>6 DEF CandidateTimeout
  <2>2. out \in Outgoing
    BY <1>2, RequestVoteType, OutgoingTypes
  <2>3. MessageSound(RequestVote(Chief, n), Chief, n.log, n)
    BY <1>2, <2>1, ChiefMessages DEF MessageSound
  <2>4. \A d \in Server : \A x :
          Sends(out, d, x) => MessageSound(x, Chief, n.log, n)
    BY <2>3, OneMessageSends
  <2> HIDE DEF out
  <2> QED
    BY <1>2, <1>3, <1>4, <2>1, <2>2, <2>4, ChiefForwardStays, SendChief
<1>7. CASE HeartbeatTimeout(Chief)
  <2> DEFINE out == Broadcast(Heartbeat(n))
  <2>1. /\ node' = [node EXCEPT ![Chief] = n] /\ Send(Chief, out)
        /\ n.role = "Leader" /\ answered' = answered
    BY <1>3, <1>7 DEF HeartbeatTimeout
  <2>2. out \in Outgoing
    BY <1>2, HeartbeatType, OutgoingTypes
  <2>3. MessageSound(Heartbeat(n), Chief, n.log, n)
    BY <1>2, <2>1, ChiefMessages DEF MessageSound
  <2>4. \A d \in Server : \A x :
          Sends(out, d, x) => MessageSound(x, Chief, n.log, n)
    BY <2>3, OneMessageSends
  <2> HIDE DEF out
  <2> QED
    BY <1>2, <1>3, <1>4, <2>1, <2>2, <2>4, ChiefForwardStays, SendChief
<1> QED
  BY <1>1, <1>5, <1>6, <1>7 DEF Timers

\* The leader reaches every peer: log[next_index - 1] exists for each.
LEMMA ClientSetStep ==
    ASSUME TypeOK, OneHistory, NEW s \in Server, NEW r \in Request,
           ClientSet(s, r)
    PROVE  ChiefStep
<1> DEFINE c == node[Chief]
           n == [c EXCEPT !.log = Append(@, NewEntry(c, r))]
<1>1. s = Chief /\ c.role = "Leader" /\ answered' = answered
  BY DEF ClientSet, OneHistory, FollowerSound
<1>2. c \in NodeState /\ ChiefSound(c)
  BY ChiefNode DEF OneHistory
<1>3. PICK order \in SetToSeqs(Peers(Chief)),
           k \in 0 .. Cardinality(Peers(Chief)) :
        /\ Reaches(n, order, k)
        /\ node' = [node EXCEPT ![Chief] = IF k = Len(order)
                                           THEN MarkSent(Chief, n)
                                           ELSE Panicked(n)]
        /\ Send(Chief, Announcements(n, order, k))
  BY <1>1 DEF ClientSet
<1>4. /\ n \in NodeState /\ ChiefSound(n) /\ ChiefForward(c, n) /\ Pushes(c, n)
      /\ n.role = "Leader" /\ n.log # <<>> /\ LastIndex(n.log) \in Nat
      /\ \A p \in Server : n.next_index[p] <= LastIndex(n.log)
  BY <1>1, <1>2, PushSound
<1>5. c = node[Chief] /\ Chief \in Server /\ n.current_term <= MaxTerm
  BY <1>2, ChiefNode DEF OneHistory, NodeState
<1> HIDE DEF c, n
<1> DEFINE out == Announcements(n, order, k)
           new == MarkSent(Chief, n)
<1>6. k = Len(order)
  BY <1>3, <1>4, <1>5, EveryPeerReached
<1>7. node' = [node EXCEPT ![Chief] = new] /\ Send(Chief, out)
  BY <1>3, <1>6
<1>8. out \in Outgoing
  BY <1>3, <1>4, <1>5, AnnouncementsType
<1>9. /\ new \in NodeState /\ new.log = n.log /\ new.role = n.role
      /\ new.current_term = n.current_term
      /\ new.commit_index = n.commit_index
      /\ new.last_applied = n.last_applied /\ new.store = n.store
      /\ new.next_index = n.next_index
      /\ \A p \in Server : \/ new.last_sent_index[p] = LastIndex(n.log)
                           \/ new.last_sent_index[p] = n.last_sent_index[p]
  <2>1. new.last_sent_index =
          [p \in Server |-> IF p \in Peers(Chief) THEN LastIndex(n.log)
                                                 ELSE n.last_sent_index[p]]
    BY <1>4 DEF MarkSent, NodeState
  <2>2. /\ new \in NodeState /\ new.log = n.log /\ new.role = n.role
        /\ new.current_term = n.current_term
        /\ new.commit_index = n.commit_index
        /\ new.last_applied = n.last_applied /\ new.store = n.store
        /\ new.next_index = n.next_index
    <3>1. new \in NodeState
      BY <1>4, <1>5, MarkSentType
    <3>2. PICK sent : new = [n EXCEPT !.last_sent_index = sent]
      BY <1>4 DEF MarkSent, NodeState
    <3>3. n \in NodeState
      BY <1>4
    <3> HIDE DEF new
    <3> QED
      BY <3>1, <3>2, <3>3 DEF NodeState
  <2> QED
    BY <2>1, <2>2
<1> HIDE DEF new
<1>10. ChiefSound(new)
  <2>1. Consistent(new)
    BY <1>4, <1>9 DEF ChiefSound, Consistent
  <2>2. LastIndex(n.log) < Len(n.log)
    BY <1>4, NumbersOf DEF LastIndex
  <2>3. IndicesInside(new)
    BY <1>4, <1>9, <2>2 DEF ChiefSound, IndicesInside
  <2> QED
    BY <1>4, <1>9, <2>1, <2>3, ChiefKept
<1>11. ChiefForward(c, new) /\ Pushes(c, new)
  BY <1>4, <1>9 DEF ChiefForward, Forward, Pushes
<1>12. ASSUME NEW d \in Server, NEW x, Sends(out, d, x)
       PROVE  MessageSound(x, Chief, new.log, new)
  <2>1. PICK i \in 1 .. k : x = Announcement(n, order[i])
    <3>1. Len(out[d]) = k
      <4>1. out[d] = [i \in 1 .. k |-> Announcement(n, order[i])] /\ k \in Nat
        BY <1>5, VisitingOrder DEF Announcements
      <4> QED
        BY <4>1
    <3> QED
      BY <1>12, <3>1 DEF Sends, Announcements
  <2>2. MessageSound(x, Chief, new.log, n)
    BY <1>4, <2>1, AnnouncementTells DEF MessageSound
  <2> QED
    BY <1>9, <2>2 DEF MessageSound, Truthful
<1> HIDE DEF out
<1> QED
  BY <1>1, <1>5, <1>7, <1>8, <1>9, <1>10, <1>11, <1>12, SendChief

LEMMA EveryStep ==
    ASSUME TypeOK, OneHistory, [Next]_vars
    PROVE  \/ ChiefStep \/ LinkStep \/ \E s \in Server : FollowerStep(s)
<1>1. ASSUME NEW s \in Server, NEW src \in Peers(s), HandleMessage(s, src)
      PROVE  ChiefStep \/ FollowerStep(s)
  BY <1>1, ChiefHandles, FollowerHandles
<1>2. ASSUME NEW p \in Link, Register(p) \/ BreakLink(p)
      PROVE  LinkStep
  <2>1. node' = node /\ answered' = answered
    BY <1>2 DEF Register, BreakLink
  <2>2. \A r \in Link : \A i \in 1 .. Len(wire'[r]) : WasThere(r, wire'[r][i])
    BY <1>2, LinkStepsMessages
  <2> QED
    BY <2>1, <2>2 DEF LinkStep
<1>3. CASE UNCHANGED vars
  BY <1>3 DEF vars, LinkStep, WasThere
<1> QED
  BY <1>1, <1>2, <1>3, TimersStep, ClientSetStep DEF Next

-----------------------------------------------------------------------------
(* Theorems                                                                *)

LEMMA InitialChief == Init => OneHistory
<1> SUFFICES ASSUME Init PROVE OneHistory
  OBVIOUS
<1>1. /\ \A s \in Server : node[s] = InitialNode
      /\ \A p \in Link : wire[p] = <<>>
      /\ answered = {} /\ Chief \in Server
  BY ChiefAssumption DEF Init
<1>2. Len(<<>>) = 0 /\ 1 .. 0 = {}
  OBVIOUS
<1>3. InitialNode.current_term <= MaxTerm
  BY BoundAssumption DEF InitialNode
<1> QED
  BY <1>1, <1>2, <1>3, InitialSound DEF OneHistory

LEMMA OneHistoryHolds == Spec => []OneHistory
<1>1. TypeOK /\ OneHistory /\ [Next]_vars => OneHistory'
  BY EveryStep, ChiefStepKeeps, LinkStepKeeps, FollowerStepKeeps
<1> QED
  BY <1>1, InitialChief, TypeCorrect, PTL DEF Spec

\* In every execution with one electable node a client hears SetSuccess only
\* for an entry the leader has committed and applied
\* (handle_append_entries_response).
THEOREM AnswersApplied == Spec => []AnsweredIsApplied
<1>1. OneHistory => AnsweredIsApplied
  BY DEF OneHistory, HasApplied, AnsweredIsApplied
<1> QED
  BY <1>1, OneHistoryHolds, PTL

\* In every execution with one electable node the leader's task never panics:
\* every index it looks up in its log exists.
THEOREM LeaderLives == Spec => []LeaderNeverPanics
<1>1. OneHistory => LeaderNeverPanics
  BY DEF OneHistory, ChiefSound, LeaderNeverPanics
<1> QED
  BY <1>1, OneHistoryHolds, PTL

-----------------------------------------------------------------------------
(* The nodes implement ReplicatedLog                                       *)

Replicas == [s \in Server |-> Mapped(node[s])]

LEMMA AbstractReplica ==
    ASSUME NEW l, NEW h, NEW c, NEW a
    PROVE  Abstract!ReplicaOf(l, h, c, a) = Replica(l, h, c, a)
<1>1. Abstract!Replay(InitialNode.store, l, 0, a - 1)
        = Replay(InitialNode.store, l, 0, a - 1)
  BY Zenon DEF Abstract!Replay, Abstract!At, Abstract!Max, Replay, At, Max
<1> QED
  BY <1>1, Zenon DEF Abstract!ReplicaOf, Replica

\* A node that moves forward takes a step of the abstract specification.
LEMMA ForwardAdvances ==
    ASSUME TypeOK, NEW s \in Server, NEW n \in NodeState,
           node' = [node EXCEPT ![s] = n], node'[Chief].log = node[Chief].log,
           Prefix(n.log, node[Chief].log), Consistent(n),
           Forward(node[s], n),
           s # Chief => n.commit_index <= node[Chief].commit_index
    PROVE  Abstract!Advance(s)
<1> DEFINE l == node[Chief].log
<1>1. Replicas' = [Replicas EXCEPT ![s] = Mapped(n)]
  BY DEF Replicas, TypeOK
<1>2. /\ Replicas[s] = Mapped(node[s]) /\ Replicas[Chief] = Mapped(node[Chief])
  BY ChiefNode DEF Replicas
<1> DEFINE behind == s # Chief
<1>3. /\ behind \in BOOLEAN
      /\ behind => n.commit_index <= node[Chief].commit_index
  OBVIOUS
<1> HIDE DEF behind
<1>4. \E i \in Len(Mapped(node[s]).log) .. Len(l) :
      \E j \in Mapped(node[s]).committed .. i :
      \E k \in Mapped(node[s]).applied .. j :
         /\ behind => j <= Mapped(node[Chief]).committed
         /\ Mapped(n) = Replica(l, i, j, k)
  BY <1>3, ChiefNode, ReplicaAdvances
<1>5. (node[Chief].log)' = l
  OBVIOUS
<1> HIDE DEF l
<1>6. \E i \in Len(Replicas[s].log) .. Len(l) :
      \E j \in Replicas[s].committed .. i :
      \E k \in Replicas[s].applied .. j :
         /\ s # Chief => j <= Replicas[Chief].committed
         /\ Replicas' = [Replicas EXCEPT ![s] = Abstract!ReplicaOf(l, i, j, k)]
  BY <1>1, <1>2, <1>4, AbstractReplica DEF behind
<1> QED
  BY <1>5, <1>6 DEF Abstract!Advance, Replicas, Mapped, l

LEMMA PushSubmits ==
    ASSUME TypeOK, OneHistory, NEW n \in NodeState,
           node' = [node EXCEPT ![Chief] = n], Pushes(node[Chief], n)
    PROVE  Abstract!Submit
<1> DEFINE c == node[Chief]
<1>1. c.current_term \in 1 .. MaxTerm
  <2>1. c.current_term >= 1 /\ c.current_term <= MaxTerm
    BY DEF Pushes, OneHistory, ChiefSound
  <2> QED
    BY <2>1, BoundAssumption, ChiefNode, NumbersOf
<1>2. (node[Chief].log)' = n.log
  BY ChiefNode DEF TypeOK
<1>3. Replicas' = [Replicas EXCEPT ![Chief].log = n.log]
  <2>1. Replicas' = [Replicas EXCEPT ![Chief] = Mapped(n)]
    BY DEF Replicas, TypeOK
  <2>2. Replicas[Chief] = Mapped(c)
    BY ChiefNode DEF Replicas
  <2>3. Mapped(n) = [Mapped(c) EXCEPT !.log = n.log]
    BY ChiefNode, PushMapped
  <2> QED
    BY <2>1, <2>2, <2>3
<1>4. \E u \in 1 .. MaxTerm, q \in Request :
         n.log = Append(c.log, [term |-> u, index |-> Len(c.log), request |-> q])
  BY <1>1, ChiefNode, PushMapped
<1>5. /\ \E u \in 1 .. MaxTerm, q \in Request :
         (node[Chief].log)' = Append(node[Chief].log,
            [term |-> u, index |-> Len(node[Chief].log), request |-> q])
      /\ Replicas' = [Replicas EXCEPT ![Chief].log = (node[Chief].log)']
  BY <1>2, <1>3, <1>4
<1> QED
  BY <1>5 DEF Abstract!Submit, Replicas, Mapped

LEMMA AbstractInitial == Init => Abstract!Init
<1> SUFFICES ASSUME Init PROVE Abstract!Init
  OBVIOUS
<1>1. /\ Chief \in Server /\ InitialNode \in NodeState
      /\ \A s \in Server : node[s] = InitialNode
      /\ InitialNode.log = <<>> /\ <<>> \in Seq(Entry) /\ Len(<<>>) = 0
      /\ InitialNode.commit_index = -1 /\ InitialNode.last_applied = -1
  BY InitialNodeType, ChiefAssumption DEF Init, InitialNode
<1>2. OneHistory
  BY InitialChief
<1>3. Consistent(InitialNode) /\ Prefix(InitialNode.log, <<>>)
  BY <1>1, <1>2 DEF OneHistory, ChiefSound, Prefix
<1>4. Mapped(InitialNode) = Abstract!ReplicaOf(<<>>, 0, 0, 0)
  <2>1. -1 + 1 = 0
    OBVIOUS
  <2>2. Mapped(InitialNode)
          = Abstract!ReplicaOf(<<>>, Len(InitialNode.log),
                               InitialNode.commit_index + 1,
                               InitialNode.last_applied + 1)
    BY <1>1, <1>3, NodeIsReplica, AbstractReplica
  <2> QED
    BY <1>1, <2>1, <2>2
<1>5. Replicas = [s \in Server |-> Abstract!ReplicaOf(<<>>, 0, 0, 0)]
  BY <1>1, <1>4 DEF Replicas
<1> QED
  BY <1>1, <1>5 DEF Abstract!Init, Replicas, Mapped

LEMMA AbstractStep ==
    ASSUME TypeOK, OneHistory, [Next]_vars
    PROVE  [Abstract!Next]_(Abstract!vars)
<1>1. ASSUME NEW s \in Server, FollowerStep(s)
      PROVE  Abstract!Advance(s)
  <2>1. PICK n \in NodeState :
          /\ s \in Server \ {Chief} /\ node' = [node EXCEPT ![s] = n]
          /\ FollowerSound(n, node[Chief]) /\ Forward(node[s], n)
    BY <1>1 DEF FollowerStep
  <2>2. node'[Chief].log = node[Chief].log
    BY <2>1, ChiefNode
  <2> QED
    BY <2>1, <2>2, ForwardAdvances DEF FollowerSound
<1>2. CASE ChiefStep
  <2>1. PICK n \in NodeState :
          /\ node' = [node EXCEPT ![Chief] = n]
          /\ ChiefSound(n) /\ ChiefForward(node[Chief], n)
          /\ n.log = node[Chief].log \/ Pushes(node[Chief], n)
    BY <1>2 DEF ChiefStep
  <2>2. CASE n.log = node[Chief].log
    <3>1. node'[Chief].log = node[Chief].log /\ Prefix(n.log, node[Chief].log)
      BY <2>1, <2>2, ChiefNode DEF TypeOK, Prefix
    <3>2. Abstract!Advance(Chief)
      BY <2>1, <3>1, ChiefNode, ForwardAdvances DEF ChiefForward, ChiefSound
    <3> QED
      BY <3>2, ChiefNode DEF Abstract!Next
  <2>3. CASE Pushes(node[Chief], n)
    BY <2>1, <2>3, PushSubmits DEF Abstract!Next
  <2> QED
    BY <2>1, <2>2, <2>3
<1>3. CASE LinkStep
  BY <1>3 DEF LinkStep, Abstract!vars
<1> QED
  BY <1>1, <1>2, <1>3, EveryStep DEF Abstract!Next

\* With one electable node the cluster is a replicated log: one history, of
\* which each node holds, commits and applies growing prefixes, none before
\* the leader has committed it, and stores what they produce (Server::run of
\* every node, whatever links are late, break or lose messages).
THEOREM ReplicatedLogImplemented == Spec => ImplementsReplicatedLog
<1>1. Init => Abstract!Init
  BY AbstractInitial
<1>2. TypeOK /\ OneHistory /\ [Next]_vars => [Abstract!Next]_(Abstract!vars)
  BY AbstractStep
<1> QED
  BY <1>1, <1>2, TypeCorrect, OneHistoryHolds, PTL
     DEF Spec, ImplementsReplicatedLog, Abstract!Spec

=============================================================================
