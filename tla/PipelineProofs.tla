---------------------------- MODULE PipelineProofs ----------------------------
(***************************************************************************)
(* Theorems about the server tasks, dispatchers and readers of Pipeline,   *)
(* for every number of nodes and places: the types of all queues and their *)
(* bounds; and, with one electable node, that handlers cut in the middle   *)
(* neither tell a client of success too early nor make a replica diverge.  *)
(***************************************************************************)
EXTENDS Pipeline, HandlerProofs

-----------------------------------------------------------------------------
(* Plans                                                                   *)

\* The node once the first i sends of a plan have found room.
Stage(plan, i) == IF i = 0 THEN plan.now ELSE plan.todo[i].after

\* What the server task of s is in the middle of.
Course(s) == Plan(node[s], task[s])

\* A node panics in the last stage of a plan if at all: a handler that waits is
\* the handler of a node that is alive.
Lasting(plan) == \A i \in 0 .. Len(plan.todo) - 1 : Stage(plan, i).role # "Dead"

Typed(plan) ==
    /\ DOMAIN plan = {"now", "todo"}
    /\ plan.now \in NodeState /\ plan.todo \in Seq(Pending)
    /\ Lasting(plan)

TasksLast == \A s \in Server : Lasting(Course(s))

-----------------------------------------------------------------------------
(* Queues                                                                  *)

LEMMA HeadTail ==
    ASSUME NEW T, NEW q \in Seq(T), q # <<>>
    PROVE  /\ Head(q) \in T /\ Head(q) = q[1] /\ 1 \in 1 .. Len(q)
           /\ Tail(q) \in Seq(T) /\ Len(Tail(q)) = Len(q) - 1
           /\ Len(q) \in Nat /\ Len(q) > 0
           /\ \A i \in 1 .. Len(Tail(q)) : Tail(q)[i] = q[i + 1]
OBVIOUS

LEMMA Appended ==
    ASSUME NEW T, NEW q \in Seq(T), NEW e \in T
    PROVE  /\ Append(q, e) \in Seq(T) /\ Len(Append(q, e)) = Len(q) + 1
           /\ Len(q) \in Nat
           /\ \A i \in 1 .. Len(q) : Append(q, e)[i] = q[i]
           /\ Append(q, e)[Len(q) + 1] = e
OBVIOUS

LEMMA Joined ==
    ASSUME NEW T, NEW q \in Seq(T), NEW r \in Seq(T)
    PROVE  /\ q \o r \in Seq(T) /\ Len(q \o r) = Len(q) + Len(r)
           /\ Len(q) \in Nat /\ Len(r) \in Nat
           /\ \A i \in 1 .. Len(q) : (q \o r)[i] = q[i]
           /\ \A i \in 1 .. Len(r) : (q \o r)[Len(q) + i] = r[i]
OBVIOUS

-----------------------------------------------------------------------------
(* Plans are typed                                                         *)

LEMMA StageType ==
    ASSUME NEW plan, Typed(plan), NEW i \in 0 .. Len(plan.todo)
    PROVE  /\ Stage(plan, i) \in NodeState /\ Len(plan.todo) \in Nat
           /\ i > 0 => /\ plan.todo[i] \in Pending
                       /\ plan.todo[i].after = Stage(plan, i)
<1>1. plan.todo \in Seq(Pending) /\ Len(plan.todo) \in Nat
  BY DEF Typed
<1>2. \A p \in Pending : p.after \in NodeState
  BY DEF Pending
<1> QED
  BY <1>1, <1>2 DEF Typed, Stage

LEMMA SendingType ==
    ASSUME NEW to \in SUBSET Server, NEW m \in Message, NEW n \in NodeState
    PROVE  /\ Sending(to, m, n) \in Pending
           /\ Uncut(Sending(to, m, n)) \in Pending
           /\ Sending(to, m, n).after = Resume(n)
           /\ Uncut(Sending(to, m, n)).after = Resume(n)
           /\ Sending(to, m, n).msg = m /\ Uncut(Sending(to, m, n)).msg = m
<1>1. Resume(n) \in NodeState
  BY ResumeType
<1> QED
  BY <1>1 DEF Sending, Uncut, Pending

\* A plan that sends nothing, and one that sends once.
LEMMA ShortPlans ==
    ASSUME NEW n \in NodeState
    PROVE  /\ Typed(Plan(n, <<>>))
           /\ \A p \in Pending : n.role # "Dead" => Typed(Plan(n, <<p>>))
<1>1. Typed(Plan(n, <<>>))
  BY DEF Typed, Plan, Lasting
<1>2. ASSUME NEW p \in Pending, n.role # "Dead"
      PROVE  Typed(Plan(n, <<p>>))
  <2>1. <<p>> \in Seq(Pending) /\ Len(<<p>>) = 1
    OBVIOUS
  <2> QED
    BY <1>2, <2>1 DEF Typed, Plan, Lasting, Stage
<1> QED
  BY <1>1, <1>2

LEMMA DoneType ==
    ASSUME NEW n \in NodeState
    PROVE  Typed(Done(n))
BY ResumeType, ShortPlans DEF Done

LEMMA ReplyType ==
    ASSUME NEW n \in NodeState, NEW to \in Server, NEW m \in Message,
           n.role # "Dead"
    PROVE  Typed(Reply(to, m, n))
<1>1. Sending({to}, m, n) \in Pending
  BY SendingType
<1> QED
  BY <1>1, ShortPlans DEF Reply

LEMMA AskBeatType ==
    ASSUME NEW s \in Server, NEW n \in NodeState
    PROVE  Ask(s, n) \in Pending /\ Beat(s, n) \in Pending
BY RequestVoteType, HeartbeatType, SendingType DEF Ask, Beat, Peers

\* The answer of the leader has the type of an answer.
LEMMA AnswerType ==
    ASSUME NEW n \in NodeState, n.commit_index \in 0 .. LastIndex(n.log)
    PROVE  [kind |-> "ClientResponse", client |-> ClientOf(n)] \in Answer
<1>1. n.log \in Seq(Entry) /\ n.commit_index + 1 \in 1 .. Len(n.log)
  BY NumbersOf DEF LastIndex
<1>2. At(n.log, n.commit_index).request \in Request
  <2>1. At(n.log, n.commit_index) \in Entry
    BY <1>1 DEF At
  <2> QED
    BY <2>1 DEF Entry
<1> QED
  BY <1>2 DEF Answer, ClientOf

\* handle_append_entries
LEMMA OnAppendEntriesType ==
    ASSUME NEW n \in NodeState, n.role # "Dead", NEW src \in Server,
           NEW m \in Message, m.kind = "AppendEntries"
    PROVE  Typed(OnAppendEntries(n, src, m))
<1> DEFINE o == Observe(n, m)
           k == Store(o, m)
           plan == OnAppendEntries(n, src, m)
<1>1. o \in NodeState /\ o.log = n.log /\ m.term \in Nat
  BY ObserveType, ObserveLog, MessageFields
<1>2. o.role = n.role
  BY ObserveOffice DEF Office
<1>3. CASE Rejects(n, m)
  <2>1. plan = Reply(src, AppendEntriesResponse(n, FALSE), n)
    BY <1>3 DEF OnAppendEntries, Accepts
  <2> QED
    BY <2>1, ResponseTypes, ReplyType
<1>4. CASE ~ Rejects(n, m) /\ StepsDown(n, m)
  <2>1. plan = Done(BecomeFollower(n, m.term))
    BY <1>4 DEF OnAppendEntries, Accepts
  <2> QED
    BY <1>1, <2>1, BecomeFollowerType, DoneType
<1>5. CASE Accepts(n, m) /\ m.entries = <<>>
  <2>1. plan = Done(o)
    BY <1>5 DEF OnAppendEntries, Accepts, LeavesGap, NewPositions
  <2> QED
    BY <1>1, <2>1, DoneType
<1>6. CASE Accepts(n, m) /\ m.entries # <<>> /\ LeavesGap(n.log, m.entries)
  <2>1. plan = Done(Panicked(o))
    BY <1>6 DEF OnAppendEntries, Accepts
  <2> QED
    BY <1>1, <2>1, PanickedType, DoneType
<1>7. CASE Accepts(n, m) /\ m.entries # <<>> /\ ~ LeavesGap(n.log, m.entries)
  <2>1. plan = Reply(src, AppendEntriesResponse(k, TRUE), k)
    BY <1>7 DEF OnAppendEntries, Accepts
  <2> HIDE DEF o
  <2>2. k \in NodeState /\ k.role # "Dead"
    BY <1>1, <1>2, <1>7, StoreType, StoreOffice DEF Office
  <2> QED
    BY <2>1, <2>2, ResponseTypes, ReplyType
<1> QED
  BY <1>3, <1>4, <1>5, <1>6, <1>7 DEF Accepts

\* handle_request_vote_response_rpc
LEMMA OnVoteResponseType ==
    ASSUME NEW n \in NodeState, n.role # "Dead", NEW s \in Server,
           NEW m \in Message, m.kind = "RequestVoteResponse"
    PROVE  Typed(OnVoteResponse(s, n, m))
<1> DEFINE counted == Counted(n)
           office == TakeOffice(counted)
           plan == OnVoteResponse(s, n, m)
<1>1. m.term \in Nat /\ counted \in NodeState /\ n.current_term \in Nat
  BY MessageFields, CountedType, NumbersOf
<1>2. office \in NodeState /\ office.role = "Leader"
  BY <1>1, TakeOfficeType, TakeOfficeOffice DEF Office
<1>3. CASE n.role = "Candidate" /\ m.term > n.current_term
  <2>1. plan = Done(BecomeFollower(n, m.term))
    BY <1>1, <1>3 DEF OnVoteResponse
  <2> QED
    BY <1>1, <2>1, BecomeFollowerType, DoneType
<1>4. CASE /\ n.role = "Candidate" /\ m.term <= n.current_term
           /\ m.vote_granted /\ Wins(counted)
  <2>1. plan = Plan(office, <<Beat(s, office)>>)
    BY <1>1, <1>4 DEF OnVoteResponse
  <2> QED
    BY <1>2, <2>1, AskBeatType, ShortPlans
<1>5. CASE /\ n.role = "Candidate" /\ m.term <= n.current_term
           /\ m.vote_granted /\ ~ Wins(counted)
  <2>1. plan = Done(counted)
    BY <1>1, <1>5 DEF OnVoteResponse
  <2> QED
    BY <1>1, <2>1, DoneType
<1>6. CASE ~ (n.role = "Candidate" /\ (m.term > n.current_term \/ m.vote_granted))
  <2>1. plan = Done(n)
    BY <1>1, <1>6 DEF OnVoteResponse
  <2> QED
    BY <2>1, DoneType
<1> QED
  BY <1>1, <1>3, <1>4, <1>5, <1>6

\* handle_append_entries_response
LEMMA OnAppendEntriesResponseType ==
    ASSUME NEW n \in NodeState, n.role # "Dead", NEW s \in Server,
           NEW src \in Server, NEW m \in Message,
           m.kind = "AppendEntriesResponse"
    PROVE  Typed(OnAppendEntriesResponse(s, n, src, m))
<1> DEFINE ack == Acknowledged(n, src)
           commit == AdvanceCommit(ack)
           back == BackedOff(n, src)
           plan == OnAppendEntriesResponse(s, n, src, m)
<1>1. /\ m.term \in Nat /\ n.current_term \in Nat
      /\ ack \in NodeState /\ back \in NodeState /\ commit \in NodeState
  BY MessageFields, NumbersOf, AcknowledgedType, BackedOffType, AdvanceCommitType
<1>2. ack.log = n.log /\ back.log = n.log /\ commit.log = n.log
  BY DEF Acknowledged, BackedOff, AdvanceCommit, NodeState
<1>3. ack.role = n.role /\ back.role = n.role /\ commit.role = n.role
  BY <1>1, LeaderUpdatesOffice DEF Office
<1>4. CASE n.role # "Leader"
  <2>1. plan = Done(n)
    BY <1>4 DEF OnAppendEntriesResponse
  <2> QED
    BY <2>1, DoneType
<1>5. CASE n.role = "Leader" /\ m.term > n.current_term
  <2>1. plan = Done(BecomeFollower(n, m.term))
    BY <1>1, <1>5 DEF OnAppendEntriesResponse
  <2> QED
    BY <1>1, <2>1, BecomeFollowerType, DoneType
<1>6. CASE /\ n.role = "Leader" /\ m.term <= n.current_term /\ ~ m.success
           /\ Has(n.log, back.next_index[src])
  <2> DEFINE p == Sending({src}, Retry(back, src), AdvanceCommit(back))
  <2>1. plan = Plan(back, <<p>>)
    BY <1>1, <1>6 DEF OnAppendEntriesResponse
  <2>2. Retry(back, src) \in Message
    BY <1>1, <1>2, <1>6, RetryType
  <2>3. p \in Pending
    BY <1>1, <2>2, AdvanceCommitType, SendingType
  <2> QED
    BY <1>1, <1>3, <1>6, <2>1, <2>3, ShortPlans
<1>7. CASE /\ n.role = "Leader" /\ m.term <= n.current_term /\ ~ m.success
           /\ ~ Has(n.log, back.next_index[src])
  <2>1. plan = Done(Panicked(back))
    BY <1>1, <1>7 DEF OnAppendEntriesResponse
  <2> QED
    BY <1>1, <2>1, PanickedType, DoneType
<1>8. CASE /\ n.role = "Leader" /\ m.term <= n.current_term /\ m.success
           /\ Committable(ack) = {}
  <2>1. plan = Done(ack)
    BY <1>1, <1>8 DEF OnAppendEntriesResponse
  <2> QED
    BY <1>1, <2>1, DoneType
<1>9. CASE /\ n.role = "Leader" /\ m.term <= n.current_term /\ m.success
           /\ Committable(ack) # {}
  <2> DEFINE k == ApplyOwn(s, commit)
             a == [kind |-> "ClientResponse", client |-> ClientOf(commit)]
             p == Sending({}, a, k)
  <2>1. plan = Plan(k, <<p>>)
    BY <1>1, <1>9 DEF OnAppendEntriesResponse
  <2>2. k \in NodeState /\ k.role # "Dead"
    BY <1>1, <1>3, <1>9, ApplyOwnType, ApplyOwnOffice DEF Office
  <2>3. commit.commit_index \in 0 .. LastIndex(commit.log)
    <3>1. commit.commit_index = Min(Committable(ack))
      BY <1>1, <1>9 DEF AdvanceCommit, NodeState
    <3> QED
      BY <1>1, <1>2, <1>9, <3>1, CommittableRange
  <2> HIDE DEF k
  <2>4. p \in Pending
    <3>1. a \in Answer /\ Resume(k) \in NodeState
      BY <1>1, <2>2, <2>3, AnswerType, ResumeType
    <3> QED
      BY <3>1 DEF Sending, Pending
  <2> QED
    BY <2>1, <2>2, <2>4, ShortPlans
<1> QED
  BY <1>1, <1>4, <1>5, <1>6, <1>7, <1>8, <1>9

LEMMA OnType ==
    ASSUME NEW n \in NodeState, n.role # "Dead", NEW s \in Server,
           NEW i \in [from : Server, msg : Message]
    PROVE  Typed(On(s, n, i))
<1> DEFINE m == i.msg
<1>1. m \in Message /\ i.from \in Server
  OBVIOUS
<1>2. CASE m.kind = "AppendEntries"
  <2>1. On(s, n, i) = OnAppendEntries(n, i.from, m)
    BY <1>2 DEF On
  <2> QED
    BY <1>1, <1>2, <2>1, OnAppendEntriesType
<1>3. CASE m.kind = "RequestVote"
  <2>1. /\ On(s, n, i) = OnRequestVote(n, m)
        /\ m.candidate_id \in Server /\ (~ DeniesVote(n, m)) \in BOOLEAN
    BY <1>1, <1>3, MessageFields DEF On
  <2> QED
    BY <2>1, ResponseTypes, ReplyType DEF OnRequestVote
<1>4. CASE m.kind = "RequestVoteResponse"
  <2>1. On(s, n, i) = OnVoteResponse(s, n, m)
    BY <1>4 DEF On
  <2> QED
    BY <1>1, <1>4, <2>1, OnVoteResponseType
<1>5. CASE m.kind = "AppendEntriesResponse"
  <2>1. On(s, n, i) = OnAppendEntriesResponse(s, n, i.from, m)
    BY <1>5 DEF On
  <2> QED
    BY <1>1, <1>5, <2>1, OnAppendEntriesResponseType
<1>6. m.kind \in {"AppendEntries", "RequestVote", "RequestVoteResponse",
                  "AppendEntriesResponse"}
  BY <1>1 DEF Message
<1> QED
  BY <1>2, <1>3, <1>4, <1>5, <1>6

\* A candidate that goes round adds a request for votes.
LEMMA AroundType ==
    ASSUME NEW s \in Server, NEW plan, Typed(plan)
    PROVE  Typed(Around(s, plan))
<1> DEFINE end == Stage(plan, Len(plan.todo))
           longer == [plan EXCEPT !.todo = Append(@, Ask(s, end))]
<1>1. /\ plan.todo \in Seq(Pending) /\ Len(plan.todo) \in Nat
      /\ end \in NodeState
  BY StageType DEF Typed
<1>2. end = IF plan.todo = <<>> THEN plan.now ELSE Last(plan.todo).after
  BY <1>1 DEF Stage, Last
<1>3. Around(s, plan) = IF end.role = "Candidate" THEN longer ELSE plan
  BY <1>2 DEF Around
<1>4. ASSUME end.role = "Candidate" PROVE Typed(longer)
  <2> DEFINE todo == Append(plan.todo, Ask(s, end))
  <2>1. /\ DOMAIN longer = {"now", "todo"} /\ longer.now = plan.now
        /\ longer.todo = todo
    BY DEF Typed
  <2>2. Ask(s, end) \in Pending
    BY <1>1, AskBeatType
  <2> HIDE DEF longer, end
  <2>3. /\ todo \in Seq(Pending) /\ Len(todo) = Len(plan.todo) + 1
        /\ \A i \in 1 .. Len(plan.todo) : todo[i] = plan.todo[i]
    BY <1>1, <2>2
  <2> HIDE DEF todo
  <2>4. \A i \in 0 .. Len(plan.todo) : Stage(longer, i) = Stage(plan, i)
    BY <1>1, <2>1, <2>3 DEF Stage
  <2>5. Lasting(longer)
    BY <1>1, <1>4, <2>1, <2>3, <2>4 DEF Typed, Lasting, end
  <2> QED
    BY <2>1, <2>3, <2>5 DEF Typed
<1> QED
  BY <1>3, <1>4

LEMMA OnTimerType ==
    ASSUME NEW n \in NodeState, n.role # "Dead", NEW s \in Server
    PROVE  Typed(OnTimer(s, n))
<1> DEFINE k == BecomeCandidate(s, n)
<1>1. k \in NodeState /\ k.role = "Candidate"
  BY BecomeCandidateType DEF BecomeCandidate, NodeState
<1>2. n.role \in {"Follower", "Candidate", "Leader"}
  BY DEF NodeState
<1>3. CASE n.role = "Follower"
  <2>1. OnTimer(s, n) = Plan(k, <<Ask(s, k)>>)
    BY <1>3 DEF OnTimer
  <2> QED
    BY <1>1, <2>1, AskBeatType, ShortPlans
<1>4. CASE n.role = "Candidate"
  <2>1. OnTimer(s, n) = Plan(n, <<Ask(s, n)>>)
    BY <1>4 DEF OnTimer
  <2> QED
    BY <2>1, AskBeatType, ShortPlans
<1>5. CASE n.role = "Leader"
  <2>1. OnTimer(s, n) = Plan(n, <<Beat(s, n)>>)
    BY <1>5 DEF OnTimer
  <2> QED
    BY <2>1, AskBeatType, ShortPlans
<1> QED
  BY <1>2, <1>3, <1>4, <1>5

\* The leader's node once it has marked the first i peers of an order.
Marked(n, order, i) ==
    [n EXCEPT !.last_sent_index =
        [p \in Server |-> IF \E j \in 1 .. i : order[j] = p
                          THEN LastIndex(n.log) ELSE @[p]]]

LEMMA MarkedType ==
    ASSUME NEW n \in NodeState, n.log # <<>>, NEW order, NEW i
    PROVE  /\ Marked(n, order, i) \in NodeState
           /\ Marked(n, order, i).log = n.log
           /\ Marked(n, order, i).role = n.role
           /\ Marked(n, order, i).current_term = n.current_term
           /\ Marked(n, order, i).commit_index = n.commit_index
           /\ Marked(n, order, i).last_applied = n.last_applied
           /\ Marked(n, order, i).store = n.store
           /\ Marked(n, order, i).next_index = n.next_index
           /\ \A p \in Server :
                \/ Marked(n, order, i).last_sent_index[p] = LastIndex(n.log)
                \/ Marked(n, order, i).last_sent_index[p] = n.last_sent_index[p]
<1> DEFINE sent == [p \in Server |-> IF \E j \in 1 .. i : order[j] = p
                                     THEN LastIndex(n.log)
                                     ELSE n.last_sent_index[p]]
<1>1. Marked(n, order, i) = [n EXCEPT !.last_sent_index = sent]
  BY DEF Marked, NodeState
<1>2. sent \in [Server -> Nat]
  BY LogEnd DEF NodeState
<1>3. \A p \in Server : \/ sent[p] = LastIndex(n.log)
                         \/ sent[p] = n.last_sent_index[p]
  OBVIOUS
<1> HIDE DEF sent
<1> QED
  BY <1>1, <1>2, <1>3 DEF NodeState

\* The stages of handle_set_command: all peers of the order up to one that is
\* not announceable.
LEMMA SetPlanStages ==
    ASSUME NEW n \in NodeState, n.log # <<>>, n.role = "Leader",
           NEW s \in Server, NEW order \in SetToSeqs(Peers(s)),
           NEW k \in 0 .. Cardinality(Peers(s)), Reaches(n, order, k)
    PROVE  LET plan == SetPlan(n, order, k)
           IN  /\ Typed(plan) /\ Len(plan.todo) = k
               /\ \A i \in 1 .. k : plan.todo[i].msg = Announcement(n, order[i])
               /\ \A i \in 0 .. k :
                    \/ k < Len(order) /\ i = k /\ Stage(plan, i) = Panicked(n)
                    \/ \E j : Stage(plan, i) = Marked(n, order, j)
<1> DEFINE Reached(i) == IF i = k + 1 /\ k < Len(order) THEN Panicked(n)
                         ELSE Marked(n, order, Min({i, Len(order)}))
           Send(i) == Sending(ToSet(order), Announcement(n, order[i]),
                              Reached(i + 1))
           todo == [i \in 1 .. k |-> Send(i)]
           plan == SetPlan(n, order, k)
<1>1. plan = Plan(Reached(1), todo)
  BY DEF SetPlan, Marked
<1>2. /\ k \in Nat /\ Len(order) \in Nat /\ Len(order) = Cardinality(Peers(s))
      /\ \A i \in 1 .. Len(order) : order[i] \in Peers(s)
  BY OrderVisits, VisitingOrder
<1>3. \A i : /\ Reached(i) \in NodeState
             /\ Reached(i).role = "Dead" => i = k + 1 /\ k < Len(order)
             /\ Resume(Reached(i)) = Reached(i)
  <2> TAKE i
  <2>1. CASE i = k + 1 /\ k < Len(order)
    <3>1. Panicked(n) \in NodeState /\ Panicked(n).role = "Dead"
      BY PanickedType DEF Panicked, NodeState
    <3> QED
      BY <2>1, <3>1 DEF Resume
  <2>2. CASE ~ (i = k + 1 /\ k < Len(order))
    <3>1. /\ Marked(n, order, Min({i, Len(order)})) \in NodeState
          /\ Marked(n, order, Min({i, Len(order)})).role = "Leader"
      BY MarkedType
    <3> QED
      BY <2>2, <3>1 DEF Resume
  <2> QED
    BY <2>1, <2>2
<1>4. \A i \in 1 .. k : Announcement(n, order[i]) \in Message
  BY <1>2, AnnouncementType, VisitingOrder DEF Reaches, Peers
<1>5. ToSet(order) \in SUBSET Server
  <2>1. order \in [1 .. Cardinality(Peers(s)) -> Peers(s)]
    BY DEF SetToSeqs
  <2> QED
    BY <2>1 DEF ToSet, Peers
<1>6. \A i \in 1 .. k : /\ Send(i) \in Pending
                        /\ Send(i).after = Reached(i + 1)
                        /\ Send(i).msg = Announcement(n, order[i])
  BY <1>3, <1>4, <1>5, SendingType
<1> HIDE DEF Reached, Send
<1>7. todo \in Seq(Pending) /\ Len(todo) = k
  BY <1>2, <1>6
<1>8. /\ plan.todo = todo /\ plan.now = Reached(1)
      /\ DOMAIN plan = {"now", "todo"}
  BY <1>1 DEF Plan
<1> HIDE DEF plan
<1>9. \A i \in 0 .. k : Stage(plan, i) = Reached(i + 1)
  BY <1>2, <1>6, <1>8 DEF Stage
<1>10. Typed(plan)
  <2>1. Lasting(plan)
    BY <1>2, <1>3, <1>7, <1>8, <1>9 DEF Lasting
  <2> QED
    BY <1>3, <1>7, <1>8, <2>1 DEF Typed
<1>11. \A i \in 0 .. k :
         \/ k < Len(order) /\ i = k /\ Stage(plan, i) = Panicked(n)
         \/ \E j : Stage(plan, i) = Marked(n, order, j)
  <2> TAKE i \in 0 .. k
  <2>1. Stage(plan, i) = Reached(i + 1) /\ i \in Int /\ k \in Int
    BY <1>2, <1>9
  <2>2. CASE i = k /\ k < Len(order)
    BY <2>1, <2>2 DEF Reached
  <2>3. CASE ~ (i = k /\ k < Len(order))
    <3>1. ~ (i + 1 = k + 1 /\ k < Len(order))
      BY <2>1, <2>3
    <3> QED
      BY <2>1, <3>1, Zenon DEF Reached
  <2> QED
    BY <2>2, <2>3
<1>12. \A i \in 1 .. k : plan.todo[i].msg = Announcement(n, order[i])
  BY <1>6, <1>8
<1> QED
  BY <1>7, <1>8, <1>10, <1>11, <1>12 DEF plan

-----------------------------------------------------------------------------
(* The server task goes on with a plan                                     *)

\* What is left of a plan after its first k sends.
Rest(plan, k) == Plan(Stage(plan, k), SubSeq(plan.todo, k + 1, Len(plan.todo)))

LEMMA RestStages ==
    ASSUME NEW plan, Typed(plan), NEW k \in 0 .. Len(plan.todo)
    PROVE  LET rest == Rest(plan, k)
           IN  /\ Typed(rest) /\ Len(rest.todo) = Len(plan.todo) - k
               /\ rest.now = Stage(plan, k)
               /\ \A i \in 0 .. Len(rest.todo) :
                    /\ k + i \in 0 .. Len(plan.todo)
                    /\ Stage(rest, i) = Stage(plan, k + i)
               /\ \A i \in 1 .. Len(rest.todo) :
                    rest.todo[i] = plan.todo[k + i]
<1> DEFINE rest == Rest(plan, k)
           todo == SubSeq(plan.todo, k + 1, Len(plan.todo))
<1>1. plan.todo \in Seq(Pending) /\ Len(plan.todo) \in Nat /\ k \in Nat
  BY DEF Typed
<1>2. /\ todo \in Seq(Pending) /\ Len(todo) = Len(plan.todo) - k
      /\ \A i \in 1 .. Len(todo) : todo[i] = plan.todo[k + i]
  BY <1>1
<1>3. /\ rest.todo = todo /\ rest.now = Stage(plan, k)
      /\ DOMAIN rest = {"now", "todo"}
  BY DEF Rest, Plan
<1> HIDE DEF rest, todo
<1>4. \A i \in 0 .. Len(todo) : /\ k + i \in 0 .. Len(plan.todo)
                               /\ Stage(rest, i) = Stage(plan, k + i)
  <2> TAKE i \in 0 .. Len(todo)
  <2>1. k + i \in 0 .. Len(plan.todo)
    BY <1>1, <1>2
  <2>2. CASE i = 0
    <3>1. k + i = k
      BY <1>1, <2>2
    <3> QED
      BY <1>3, <2>1, <2>2, <3>1 DEF Stage
  <2>3. CASE i # 0
    <3>1. i \in 1 .. Len(todo) /\ k + i # 0
      BY <1>1, <1>2, <2>3
    <3> QED
      BY <1>2, <1>3, <2>1, <2>3, <3>1 DEF Stage
  <2> QED
    BY <2>2, <2>3
<1>5. Lasting(rest)
  <2> SUFFICES ASSUME NEW i \in 0 .. Len(todo) - 1
               PROVE  Stage(rest, i).role # "Dead"
    BY <1>3 DEF Lasting
  <2>1. i \in 0 .. Len(todo) /\ k + i \in 0 .. Len(plan.todo) - 1
    BY <1>1, <1>2
  <2> QED
    BY <1>4, <2>1 DEF Typed, Lasting
<1>6. Typed(rest)
  <2>1. Stage(plan, k) \in NodeState
    BY StageType
  <2> QED
    BY <1>2, <1>3, <1>5, <2>1 DEF Typed
<1> QED
  BY <1>2, <1>3, <1>4, <1>6 DEF rest

\* The letters of the first k sends of a plan.
Letters(plan, k) ==
    [i \in 1 .. k |-> [to |-> plan.todo[i].to, msg |-> plan.todo[i].msg]]

LEMMA LettersType ==
    ASSUME NEW plan, Typed(plan), NEW k \in 0 .. Len(plan.todo)
    PROVE  Letters(plan, k) \in Seq(Letter) /\ Len(Letters(plan, k)) = k
<1>1. plan.todo \in Seq(Pending) /\ k \in Nat /\ Len(plan.todo) \in Nat
  BY DEF Typed
<1>2. \A p \in Pending : [to |-> p.to, msg |-> p.msg] \in Letter
  BY DEF Pending, Letter
<1>3. \A i \in 1 .. k : plan.todo[i] \in Pending
  BY <1>1
<1> QED
  BY <1>1, <1>2, <1>3 DEF Letters

LEMMA GoTakesPlan ==
    ASSUME TypeOK, NEW s \in Server, NEW plan, Typed(plan), Go(s, plan)
    PROVE  \E k \in 0 .. Len(plan.todo) :
              /\ Len(outbox[s]) + k <= Channel
              /\ node' = [node EXCEPT ![s] = Stage(plan, k)]
              /\ outbox' = [outbox EXCEPT ![s] = outbox[s] \o Letters(plan, k)]
              /\ task' = [task EXCEPT ![s] = Rest(plan, k).todo]
<1> DEFINE room == Channel - Len(outbox[s])
           k == Min({Len(plan.todo), room})
<1>1. /\ Len(plan.todo) \in Nat /\ Len(outbox[s]) \in Nat /\ Channel \in Nat
      /\ Len(outbox[s]) <= Channel
  BY ChannelAssumption DEF TypeOK, Typed
<1>2. /\ node' = [node EXCEPT ![s] = IF k = 0 THEN plan.now
                                              ELSE plan.todo[k].after]
      /\ outbox' = [outbox EXCEPT ![s] = @ \o Letters(plan, k)]
      /\ task' = [task EXCEPT ![s] = SubSeq(plan.todo, k + 1, Len(plan.todo))]
  BY DEF Go, Letters
<1>3. k \in 0 .. Len(plan.todo) /\ Len(outbox[s]) + k <= Channel
  <2>1. Len(plan.todo) \in Int /\ room \in Int /\ room >= 0
    BY <1>1
  <2>2. k = IF Len(plan.todo) <= room THEN Len(plan.todo) ELSE room
    BY <2>1, MinOfPair
  <2> HIDE DEF k, room
  <2>3. k \in 0 .. Len(plan.todo) /\ k <= room
    <3>1. CASE Len(plan.todo) <= room
      BY <1>1, <2>1, <2>2, <3>1
    <3>2. CASE ~ (Len(plan.todo) <= room)
      BY <1>1, <2>1, <2>2, <3>2
    <3> QED
      BY <3>1, <3>2
  <2> QED
    BY <1>1, <2>1, <2>3 DEF room
<1> HIDE DEF k
<1>4. node' = [node EXCEPT ![s] = Stage(plan, k)]
  BY <1>2 DEF Stage
<1>5. outbox' = [outbox EXCEPT ![s] = outbox[s] \o Letters(plan, k)]
  BY <1>2 DEF TypeOK
<1>6. task' = [task EXCEPT ![s] = Rest(plan, k).todo]
  BY <1>2 DEF Rest, Plan
<1> QED
  BY <1>3, <1>4, <1>5, <1>6

\* Going on keeps the types of the queues it changes, and their bounds.
LEMMA GoKeepsTypes ==
    ASSUME TypeOK, TasksLast, NEW s \in Server, NEW plan, Typed(plan),
           Go(s, plan)
    PROVE  /\ node' \in [Server -> NodeState] /\ task' \in [Server -> Seq(Pending)]
           /\ outbox' \in [Server -> Seq(Letter)]
           /\ \A t \in Server : Len(outbox'[t]) <= Channel
           /\ TasksLast'
<1>1. PICK k \in 0 .. Len(plan.todo) :
        /\ Len(outbox[s]) + k <= Channel
        /\ node' = [node EXCEPT ![s] = Stage(plan, k)]
        /\ outbox' = [outbox EXCEPT ![s] = outbox[s] \o Letters(plan, k)]
        /\ task' = [task EXCEPT ![s] = Rest(plan, k).todo]
  BY GoTakesPlan
<1> DEFINE rest == Rest(plan, k)
           more == Letters(plan, k)
<1>2. /\ Typed(rest) /\ rest.now = Stage(plan, k) /\ Stage(plan, k) \in NodeState
  BY RestStages, StageType
<1>3. more \in Seq(Letter) /\ Len(more) = k
  BY LettersType
<1>4. rest = Plan(Stage(plan, k), rest.todo)
  BY DEF Rest, Plan
<1> HIDE DEF rest, more
<1>5. rest.todo \in Seq(Pending) /\ Lasting(rest)
  BY <1>2 DEF Typed
<1>6. node' \in [Server -> NodeState]
  BY <1>1, <1>2 DEF TypeOK
<1>7. task' \in [Server -> Seq(Pending)]
  BY <1>1, <1>5 DEF TypeOK, rest
<1>8. /\ outbox' \in [Server -> Seq(Letter)]
      /\ \A t \in Server : Len(outbox'[t]) <= Channel
  <2>1. outbox[s] \in Seq(Letter)
    BY DEF TypeOK
  <2>2. /\ outbox[s] \o more \in Seq(Letter)
        /\ Len(outbox[s] \o more) = Len(outbox[s]) + k
    BY <1>3, <2>1, Joined
  <2> QED
    BY <1>1, <2>2 DEF TypeOK, more
<1>9. TasksLast'
  <2> SUFFICES ASSUME NEW t \in Server
               PROVE  Lasting(Plan(node'[t], task'[t]))
    BY DEF TasksLast, Course
  <2>1. CASE t = s
    <3>1. Plan(node'[s], task'[s]) = rest
      BY <1>1, <1>4 DEF TypeOK, rest
    <3> QED
      BY <1>5, <2>1, <3>1
  <2>2. CASE t # s
    <3>1. node'[t] = node[t] /\ task'[t] = task[t]
      BY <1>1, <2>2 DEF TypeOK
    <3> QED
      BY <3>1 DEF TasksLast, Course
  <2> QED
    BY <2>1, <2>2
<1> QED
  BY <1>6, <1>7, <1>8, <1>9

LEMMA CourseType ==
    ASSUME TypeOK, TasksLast, NEW s \in Server
    PROVE  /\ Typed(Course(s)) /\ Course(s).now = node[s]
           /\ Course(s).todo = task[s] /\ Stage(Course(s), 0) = node[s]
           /\ node[s] \in NodeState
<1>1. node[s] \in NodeState /\ task[s] \in Seq(Pending) /\ Lasting(Course(s))
  BY DEF TypeOK, TasksLast
<1> QED
  BY <1>1 DEF Typed, Course, Plan, Stage

\* Whoever is idle, or waits, is alive.
LEMMA Alive ==
    ASSUME TypeOK, TasksLast, NEW s \in Server, Idle(s) \/ task[s] # <<>>
    PROVE  node[s].role # "Dead"
<1>1. CASE Idle(s)
  BY <1>1 DEF Idle
<1>2. CASE task[s] # <<>>
  <2>1. task[s] \in Seq(Pending) /\ Len(task[s]) > 0
    BY <1>2 DEF TypeOK
  <2>2. Lasting(Course(s)) /\ Course(s).todo = task[s]
        /\ Stage(Course(s), 0) = node[s]
    BY CourseType DEF TasksLast
  <2> QED
    BY <2>1, <2>2 DEF Lasting
<1> QED
  BY <1>1, <1>2

-----------------------------------------------------------------------------
(* Every step keeps the types                                              *)

\* Only clients are None, and they only send requests.
LEMMA LetterKinds ==
    ASSUME NEW i \in Incoming
    PROVE  /\ ~ FromClient(i) => i \in [from : Server, msg : Message]
           /\ FromClient(i) => i.from = None /\ i.msg.request \in Request
           /\ i.from \in Server => i.msg \in Message
<1>1. CASE i \in [from : Server, msg : Message]
  <2>1. ~ FromClient(i)
    BY <1>1 DEF FromClient, Message
  <2> QED
    BY <1>1, <2>1
<1>2. CASE i \in [from : {None},
                  msg : [kind : {"ClientRequest"}, request : Request]]
  BY <1>2, NoneAssumption DEF FromClient
<1> QED
  BY <1>1, <1>2 DEF Incoming

\* No message gets into an inbox.
InboxKept ==
    \A d \in Server : \A i \in 1 .. Len(inbox'[d]) :
        \E j \in 1 .. Len(inbox[d]) : inbox'[d][i] = inbox[d][j]

\* The server task takes a letter out of its inbox.
LEMMA TakesLetter ==
    ASSUME TypeOK, NEW s \in Server, inbox[s] # <<>>,
           inbox' = [inbox EXCEPT ![s] = Tail(@)]
    PROVE  /\ Head(inbox[s]) \in Incoming
           /\ Head(inbox[s]) = inbox[s][1] /\ 1 \in 1 .. Len(inbox[s])
           /\ inbox' \in [Server -> Seq(Incoming)]
           /\ \A t \in Server : Len(inbox'[t]) <= Channel
           /\ InboxKept
<1>1. inbox[s] \in Seq(Incoming) /\ Len(inbox[s]) <= Channel
  BY DEF TypeOK
<1>2. /\ Head(inbox[s]) \in Incoming /\ Head(inbox[s]) = inbox[s][1]
      /\ 1 \in 1 .. Len(inbox[s]) /\ Tail(inbox[s]) \in Seq(Incoming)
      /\ Len(Tail(inbox[s])) = Len(inbox[s]) - 1 /\ Len(inbox[s]) \in Nat
      /\ \A j \in 1 .. Len(Tail(inbox[s])) : Tail(inbox[s])[j] = inbox[s][j + 1]
  BY <1>1, HeadTail
<1>3. inbox' \in [Server -> Seq(Incoming)]
  BY <1>2 DEF TypeOK
<1>4. Len(Tail(inbox[s])) <= Channel
  BY <1>1, <1>2, ChannelAssumption
<1>5. \A t \in Server : Len(inbox'[t]) <= Channel
  BY <1>4 DEF TypeOK
<1>6. ASSUME NEW d \in Server, NEW j \in 1 .. Len(inbox'[d])
      PROVE  \E k \in 1 .. Len(inbox[d]) : inbox'[d][j] = inbox[d][k]
  <2>1. CASE d = s
    <3>1. inbox'[d] = Tail(inbox[s])
      BY <2>1 DEF TypeOK
    <3>2. j \in 1 .. Len(Tail(inbox[s]))
      BY <1>6, <2>1, <3>1, Zenon
    <3>3. j + 1 \in 1 .. Len(inbox[s])
      BY <1>2, <3>2
    <3> QED
      BY <1>2, <2>1, <3>1, <3>2, <3>3
  <2>2. CASE d # s
    <3>1. inbox'[d] = inbox[d]
      BY <2>2 DEF TypeOK
    <3> QED
      BY <3>1
  <2> QED
    BY <2>1, <2>2
<1> QED
  BY <1>2, <1>3, <1>5, <1>6 DEF InboxKept

LEMMA HandleMessagePlan ==
    ASSUME TypeOK, TasksLast, NEW s \in Server, HandleMessage(s)
    PROVE  /\ Head(inbox[s]) \in [from : Server, msg : Message]
           /\ node[s] \in NodeState /\ node[s].role # "Dead"
           /\ Typed(On(s, node[s], Head(inbox[s])))
           /\ Typed(Around(s, On(s, node[s], Head(inbox[s]))))
<1>1. /\ Idle(s) /\ inbox[s] # <<>> /\ ~ FromClient(Head(inbox[s]))
      /\ inbox' = [inbox EXCEPT ![s] = Tail(@)]
      /\ node[s] \in NodeState
  BY DEF HandleMessage, TypeOK
<1>2. Head(inbox[s]) \in [from : Server, msg : Message]
  BY <1>1, TakesLetter, LetterKinds
<1>3. node[s].role # "Dead"
  BY <1>1, Alive
<1> QED
  BY <1>1, <1>2, <1>3, OnType, AroundType

\* A plan for a letter that has been taken in.
LEMMA LetterHandled ==
    ASSUME TypeOK, TasksLast, NEW s \in Server, NEW plan, Typed(plan),
           Go(s, plan), inbox[s] # <<>>,
           inbox' = [inbox EXCEPT ![s] = Tail(@)],
           submitted' \subseteq Request, ignored' \subseteq Request,
           UNCHANGED <<hand, pipe, answered>>
    PROVE  TypeOK' /\ TasksLast'
<1>1. /\ inbox' \in [Server -> Seq(Incoming)]
      /\ \A t \in Server : Len(inbox'[t]) <= Channel
  BY TakesLetter
<1> QED
  BY <1>1, GoKeepsTypes DEF TypeOK

LEMMA TaskStepsType ==
    ASSUME TypeOK, TasksLast, NEW s \in Server,
           HandleMessage(s) \/ IgnoreClient(s) \/ Proceed(s) \/ Timeout(s)
    PROVE  TypeOK' /\ TasksLast'
<1>1. CASE HandleMessage(s)
  <2> DEFINE plan == Around(s, On(s, node[s], Head(inbox[s])))
  <2>1. Typed(plan) /\ Go(s, plan)
    BY <1>1, HandleMessagePlan DEF HandleMessage
  <2>2. /\ inbox[s] # <<>> /\ inbox' = [inbox EXCEPT ![s] = Tail(@)]
        /\ UNCHANGED <<hand, pipe, answered>>
        /\ submitted' \subseteq Request /\ ignored' \subseteq Request
    BY <1>1 DEF HandleMessage, TypeOK
  <2> HIDE DEF plan
  <2> QED
    BY <2>1, <2>2, LetterHandled
<1>2. CASE IgnoreClient(s)
  <2> DEFINE plan == Around(s, Done(node[s]))
  <2>1. Typed(plan) /\ Go(s, plan)
    BY <1>2, DoneType, AroundType DEF IgnoreClient, TypeOK
  <2>2. /\ inbox[s] # <<>> /\ inbox' = [inbox EXCEPT ![s] = Tail(@)]
        /\ FromClient(Head(inbox[s]))
        /\ UNCHANGED <<hand, pipe, answered>> /\ submitted' \subseteq Request
    BY <1>2 DEF IgnoreClient, TypeOK
  <2>3. Head(inbox[s]).msg.request \in Request
    BY <2>2, TakesLetter, LetterKinds
  <2>4. ignored' \subseteq Request
    BY <1>2, <2>3 DEF IgnoreClient, TypeOK
  <2> HIDE DEF plan
  <2> QED
    BY <2>1, <2>2, <2>4, LetterHandled
<1>3. CASE Proceed(s)
  <2>1. Typed(Course(s)) /\ Go(s, Course(s))
    BY <1>3, CourseType DEF Proceed, Course
  <2> QED
    BY <1>3, <2>1, GoKeepsTypes DEF Proceed, TypeOK
<1>4. CASE Timeout(s)
  <2>1. node[s].role # "Dead" /\ node[s] \in NodeState
    BY <1>4, Alive DEF Timeout, Expires, TypeOK
  <2>2. Typed(OnTimer(s, node[s]))
    BY <2>1, OnTimerType
  <2> QED
    BY <1>4, <2>2, GoKeepsTypes DEF Timeout, TypeOK
<1> QED
  BY <1>1, <1>2, <1>3, <1>4

LEMMA ClientSetType ==
    ASSUME TypeOK, TasksLast, NEW s \in Server, ClientSet(s)
    PROVE  TypeOK' /\ TasksLast'
<1> DEFINE r == Head(inbox[s]).msg.request
           n == [node[s] EXCEPT !.log = Append(@, NewEntry(node[s], r))]
<1>1. /\ node[s] \in NodeState /\ node[s].role = "Leader"
      /\ FromClient(Head(inbox[s])) /\ inbox[s] # <<>>
      /\ submitted' = submitted \union {r}
      /\ inbox' = [inbox EXCEPT ![s] = Tail(@)]
      /\ UNCHANGED <<hand, pipe, answered>> /\ ignored' \subseteq Request
  BY DEF ClientSet, TypeOK
<1>2. PICK order \in SetToSeqs(Peers(s)), k \in 0 .. Cardinality(Peers(s)) :
        Reaches(n, order, k) /\ Go(s, SetPlan(n, order, k))
  BY DEF ClientSet
<1>3. r \in Request
  BY <1>1, TakesLetter, LetterKinds
<1> HIDE DEF r
<1>4. n \in NodeState /\ n.log # <<>> /\ n.role = "Leader"
  BY <1>1, <1>3, PushType DEF NodeState
<1> HIDE DEF n
<1>5. Typed(SetPlan(n, order, k))
  BY <1>2, <1>4, SetPlanStages
<1>6. submitted' \subseteq Request
  BY <1>1, <1>3 DEF TypeOK
<1> QED
  BY <1>1, <1>2, <1>5, <1>6, LetterHandled

\* What the dispatcher makes of a letter: one copy for each place it goes to.
LEMMA CopiesType ==
    ASSUME NEW o \in Letter, NEW order \in SetToSeqs(o.to)
    PROVE  /\ [i \in DOMAIN order |-> [to |-> {order[i]}, msg |-> o.msg]]
                \in Seq([to : SUBSET Server, msg : Message])
           /\ \A i \in DOMAIN order : order[i] \in o.to
           /\ \E size \in Nat : DOMAIN order = 1 .. size
<1>1. o.to \subseteq Server
  BY DEF Letter
<1>2. IsFiniteSet(o.to)
  BY <1>1, ServerAssumption, FS_Subset
<1>3. PICK size \in Nat : size = Cardinality(o.to)
  BY <1>2, FS_CardinalityType
<1>4. order \in [1 .. size -> o.to]
  BY <1>3 DEF SetToSeqs
<1> DEFINE Copies == [i \in DOMAIN order |-> [to |-> {order[i]}, msg |-> o.msg]]
           T == [to : SUBSET Server, msg : Message]
<1>5. ASSUME o.to = {} PROVE Copies \in Seq(T)
  <2>1. size = 0
    BY <1>3, <1>5, FS_EmptySet
  <2>2. DOMAIN order = {}
    BY <1>4, <2>1
  <2>3. [i \in DOMAIN order |-> [to |-> {order[i]}, msg |-> o.msg]] = <<>>
    BY <2>2
  <2> QED
    BY <2>3
<1>6. ASSUME o.to # {} PROVE Copies \in Seq(T)
  <2>1. o.msg \in Message
    BY <1>6 DEF Letter
  <2>2. \A i \in 1 .. size : [to |-> {order[i]}, msg |-> o.msg]
                               \in [to : SUBSET Server, msg : Message]
    BY <1>1, <1>4, <2>1
  <2> QED
    BY <1>4, <2>2
<1>7. /\ \A i \in DOMAIN order : order[i] \in o.to
      /\ DOMAIN order = 1 .. size
  BY <1>4
<1> QED
  BY <1>5, <1>6, <1>7

LEMMA QueueStepsType ==
    ASSUME TypeOK, TasksLast,
           \/ \E s \in Server : Take(s)
           \/ \E p \in Link : Deliver(p[1], p[2]) \/ Read(p[1], p[2])
           \/ \E s \in Server, r \in Request : ClientSend(r, s)
    PROVE  TypeOK' /\ TasksLast'
<1>1. ASSUME NEW s \in Server, Take(s)
      PROVE  TypeOK' /\ TasksLast'
  <2> DEFINE o == Head(outbox[s])
  <2>1. /\ outbox[s] # <<>> /\ outbox[s] \in Seq(Letter) /\ Len(outbox[s]) \in Nat
        /\ Len(outbox[s]) <= Channel
        /\ outbox' = [outbox EXCEPT ![s] = Tail(outbox[s])]
        /\ UNCHANGED <<node, task, inbox, pipe, submitted, ignored>>
    BY <1>1 DEF Take, TypeOK
  <2>2. PICK order \in SetToSeqs(o.to) :
          hand' = [hand EXCEPT ![s] =
            [i \in DOMAIN order |-> [to |-> {order[i]}, msg |-> o.msg]]]
    BY <1>1 DEF Take
  <2>3. o \in Letter /\ Tail(outbox[s]) \in Seq(Letter)
        /\ Len(Tail(outbox[s])) = Len(outbox[s]) - 1
    BY <2>1, HeadTail
  <2>4. answered' \subseteq {<<r.client, r.id>> : r \in Request}
    <3>1. o.msg.kind = "ClientResponse" => o.msg \in Answer
      BY <2>3 DEF Letter, Message
    <3>2. o.msg \in Answer => o.msg.client \in {<<r.client, r.id>> : r \in Request}
      BY DEF Answer
    <3> QED
      BY <1>1, <3>1, <3>2 DEF Take, TypeOK
  <2> HIDE DEF o
  <2>5. hand' \in [Server -> Seq([to : SUBSET Server, msg : Message])]
    BY <2>2, <2>3, CopiesType DEF TypeOK
  <2>6. /\ outbox' \in [Server -> Seq(Letter)]
        /\ \A t \in Server : Len(outbox'[t]) <= Channel
    BY <2>1, <2>3, ChannelAssumption DEF TypeOK
  <2> QED
    BY <2>1, <2>4, <2>5, <2>6 DEF TypeOK, TasksLast, Course
<1>2. ASSUME NEW p \in Link, Deliver(p[1], p[2])
      PROVE  TypeOK' /\ TasksLast'
  <2> DEFINE s == p[1]
             d == p[2]
             e == Head(hand[s])
  <2>1. p = <<s, d>> /\ s \in Server /\ d \in Server
    BY DEF Link
  <2>2. /\ hand[s] # <<>> /\ hand[s] \in Seq([to : SUBSET Server, msg : Message])
        /\ pipe[p] \in Seq(Message) /\ Len(pipe[p]) < Pipe
        /\ pipe' = [pipe EXCEPT ![p] = Append(pipe[p], e.msg)]
        /\ hand' = [hand EXCEPT ![s] = Tail(hand[s])]
        /\ UNCHANGED <<node, task, inbox, outbox, submitted, ignored, answered>>
    BY <1>2, <2>1 DEF Deliver, TypeOK
  <2>3. /\ e \in [to : SUBSET Server, msg : Message]
        /\ Tail(hand[s]) \in Seq([to : SUBSET Server, msg : Message])
    BY <2>2, HeadTail
  <2> HIDE DEF e
  <2>4. /\ Append(pipe[p], e.msg) \in Seq(Message)
        /\ Len(Append(pipe[p], e.msg)) <= Pipe
    BY <2>2, <2>3, Appended, ChannelAssumption
  <2>5. /\ pipe' \in [Link -> Seq(Message)]
        /\ \A q \in Link : Len(pipe'[q]) <= Pipe
    BY <2>2, <2>4 DEF TypeOK
  <2>6. hand' \in [Server -> Seq([to : SUBSET Server, msg : Message])]
    BY <2>1, <2>2, <2>3 DEF TypeOK
  <2> QED
    BY <2>2, <2>5, <2>6 DEF TypeOK, TasksLast, Course
<1>3. ASSUME NEW p \in Link, Read(p[1], p[2])
      PROVE  TypeOK' /\ TasksLast'
  <2> DEFINE a == p[1]
             b == p[2]
             e == [from |-> a, msg |-> Head(pipe[p])]
  <2>1. p = <<a, b>> /\ a \in Server /\ b \in Server
    BY DEF Link
  <2>2. /\ pipe[p] # <<>> /\ pipe[p] \in Seq(Message) /\ Len(pipe[p]) <= Pipe
        /\ inbox[b] \in Seq(Incoming)
        /\ Len(inbox[b]) < Channel
        /\ inbox' = [inbox EXCEPT ![b] = Append(inbox[b], e)]
        /\ pipe' = [pipe EXCEPT ![p] = Tail(pipe[p])]
        /\ UNCHANGED <<node, task, outbox, hand, submitted, ignored, answered>>
    BY <1>3, <2>1 DEF Read, TypeOK
  <2>3. e \in Incoming /\ Tail(pipe[p]) \in Seq(Message)
        /\ Len(Tail(pipe[p])) = Len(pipe[p]) - 1 /\ Len(pipe[p]) \in Nat
    BY <2>1, <2>2, HeadTail DEF Incoming
  <2> HIDE DEF e
  <2>4. /\ Append(inbox[b], e) \in Seq(Incoming)
        /\ Len(Append(inbox[b], e)) <= Channel
    BY <2>2, <2>3, Appended, ChannelAssumption
  <2>5. /\ inbox' \in [Server -> Seq(Incoming)]
        /\ \A t \in Server : Len(inbox'[t]) <= Channel
    BY <2>1, <2>2, <2>4 DEF TypeOK
  <2>6. /\ pipe' \in [Link -> Seq(Message)]
        /\ \A q \in Link : Len(pipe'[q]) <= Pipe
    BY <2>2, <2>3, ChannelAssumption DEF TypeOK
  <2> QED
    BY <2>2, <2>5, <2>6 DEF TypeOK, TasksLast, Course
<1>4. ASSUME NEW s \in Server, NEW r \in Request, ClientSend(r, s)
      PROVE  TypeOK' /\ TasksLast'
  <2> DEFINE e == ClientRequest(r)
  <2>1. /\ inbox[s] \in Seq(Incoming) /\ Len(inbox[s]) < Channel
        /\ inbox' = [inbox EXCEPT ![s] = Append(inbox[s], e)]
        /\ UNCHANGED <<node, task, outbox, hand, pipe, submitted, ignored, answered>>
    BY <1>4 DEF ClientSend, TypeOK
  <2>2. e \in Incoming
    BY DEF ClientRequest, Incoming
  <2> HIDE DEF e
  <2>3. /\ Append(inbox[s], e) \in Seq(Incoming)
        /\ Len(Append(inbox[s], e)) <= Channel
    BY <2>1, <2>2, Appended, ChannelAssumption
  <2>4. /\ inbox' \in [Server -> Seq(Incoming)]
        /\ \A t \in Server : Len(inbox'[t]) <= Channel
    BY <2>1, <2>3 DEF TypeOK
  <2> QED
    BY <2>1, <2>4 DEF TypeOK, TasksLast, Course
<1> QED
  BY <1>1, <1>2, <1>3, <1>4

\* In every execution, with any number of nodes, places and candidates, no
\* channel of main.rs and network.rs holds more than its places, what is in it
\* has the type of its messages, and every node keeps its type between any two
\* sends of a handler, cut or not.
THEOREM QueuesTyped == Spec => []TypeOK
<1>1. Init => TypeOK /\ TasksLast
  <2>1. Init => TypeOK
    BY InitialNodeType, ChannelAssumption DEF Init, TypeOK
  <2>2. Init => TasksLast
    BY DEF Init, TasksLast, Course, Plan, Lasting
  <2> QED
    BY <2>1, <2>2
<1>2. TypeOK /\ TasksLast /\ [Next]_vars => TypeOK' /\ TasksLast'
  <2> SUFFICES ASSUME TypeOK, TasksLast, [Next]_vars
               PROVE  TypeOK' /\ TasksLast'
    OBVIOUS
  <2>1. CASE UNCHANGED vars
    BY <2>1 DEF vars, TypeOK, TasksLast, Course
  <2> QED
    BY <2>1, TaskStepsType, ClientSetType, QueueStepsType DEF Next, Receive
<1> QED
  BY <1>1, <1>2, PTL DEF Spec

-----------------------------------------------------------------------------
(* One history, wherever it is: the inductive invariant                    *)

\* s has sent m, or its server task waits to send it, and it has not been
\* handled yet.
Afloat(s, m) ==
    \/ \E i \in 1 .. Len(task[s]) : m = task[s][i].msg
    \/ \E i \in 1 .. Len(outbox[s]) : m = outbox[s][i].msg
    \/ \E i \in 1 .. Len(hand[s]) : m = hand[s][i].msg
    \/ \E d \in Peers(s) : \E i \in 1 .. Len(pipe[<<s, d>>]) :
          m = pipe[<<s, d>>][i]
    \/ \E d \in Peers(s) : \E i \in 1 .. Len(inbox[d]) :
          inbox[d][i].from = s /\ m = inbox[d][i].msg

\* What a message or an answer of s, whose log is l, says of the leader c.
LetterSound(m, s, l, c) ==
    IF m.kind = "ClientResponse" THEN HasApplied(c, m.client)
    ELSE /\ m.kind \in {"RequestVote", "AppendEntries"} => s = Chief
         /\ Truthful(m, l, c)

\* Each stage of a plan goes on from those before it.
Onward(plan) ==
    \A i \in 0 .. Len(plan.todo) : \A j \in i .. Len(plan.todo) :
        Forward(Stage(plan, i), Stage(plan, j))

\* A plan of the leader changes its office and its log before the first send.
ChiefPlan(plan) ==
    /\ Onward(plan)
    /\ \A i \in 0 .. Len(plan.todo) :
          LET k == Stage(plan, i)
          IN  /\ ChiefSound(k)
              /\ k.role = plan.now.role /\ k.log = plan.now.log
              /\ k.current_term = plan.now.current_term

FollowerPlan(plan, c) ==
    /\ Onward(plan)
    /\ \A i \in 0 .. Len(plan.todo) : FollowerSound(Stage(plan, i), c)

OneHistory ==
    /\ ChiefPlan(Course(Chief)) /\ node[Chief].current_term <= MaxTerm
    /\ \A s \in Server \ {Chief} : FollowerPlan(Course(s), node[Chief])
    /\ \A s \in Server : \A i \in 1 .. Len(inbox[s]) : inbox[s][i].from # s
    /\ \A s \in Server : \A m :
          Afloat(s, m) => LetterSound(m, s, node[s].log, node[Chief])
    /\ \A a \in answered : HasApplied(node[Chief], a)

-----------------------------------------------------------------------------
(* The plans of a follower and of the leader are sound                     *)

\* Plans that send nothing or once.
LEMMA ShortStages ==
    ASSUME NEW n, NEW p
    PROVE  /\ Plan(n, <<>>).now = n /\ Len(Plan(n, <<>>).todo) = 0
           /\ Stage(Plan(n, <<>>), 0) = n
           /\ Plan(n, <<p>>).now = n /\ Len(Plan(n, <<p>>).todo) = 1
           /\ Plan(n, <<p>>).todo[1] = p
           /\ Stage(Plan(n, <<p>>), 0) = n
           /\ Stage(Plan(n, <<p>>), 1) = p.after
BY DEF Plan, Stage

LEMMA ShortOnward ==
    ASSUME NEW n \in NodeState, NEW k \in NodeState, Forward(n, k)
    PROVE  /\ Onward(Plan(n, <<>>))
           /\ \A p : p.after = k => Onward(Plan(n, <<p>>))
<1>1. Forward(n, n) /\ Forward(k, k)
  BY ForwardStays
<1>2. Onward(Plan(n, <<>>))
  <2> DEFINE plan == Plan(n, <<>>)
  <2>1. Len(plan.todo) = 0 /\ Stage(plan, 0) = n
    BY ShortStages
  <2> HIDE DEF plan
  <2> QED
    BY <1>1, <2>1 DEF Onward, plan
<1>3. ASSUME NEW p, p.after = k PROVE Onward(Plan(n, <<p>>))
  <2> DEFINE plan == Plan(n, <<p>>)
  <2>1. Len(plan.todo) = 1 /\ Stage(plan, 0) = n /\ Stage(plan, 1) = k
    BY <1>3, ShortStages
  <2> HIDE DEF plan
  <2>2. Onward(plan)
    BY <1>1, <2>1 DEF Onward
  <2> QED
    BY <2>2 DEF plan
<1> QED
  BY <1>2, <1>3

LEMMA FollowerShort ==
    ASSUME NEW c \in NodeState, NEW n \in NodeState, FollowerSound(n, c)
    PROVE  /\ FollowerPlan(Done(n), c) /\ Forward(n, Done(n).now)
           /\ Len(Done(n).todo) = 0
           /\ \A to, m : LET plan == Reply(to, m, n)
                         IN  /\ FollowerPlan(plan, c) /\ plan.now = n
                             /\ Len(plan.todo) = 1 /\ plan.todo[1].msg = m
<1> DEFINE k == Resume(n)
<1>1. /\ k \in NodeState /\ k.log = n.log /\ SameOffice(n, k) /\ Consistent(k)
      /\ k.commit_index = n.commit_index
      /\ k.last_applied >= n.last_applied
  BY ResumeAdvances DEF FollowerSound
<1> HIDE DEF k
<1>2. FollowerSound(k, c)
  BY <1>1 DEF FollowerSound, SameOffice
<1>3. Forward(n, k) /\ Forward(k, k)
  BY <1>1, NumbersOf, ForwardStays DEF Forward
<1>4. /\ FollowerPlan(Done(n), c) /\ Forward(n, Done(n).now)
      /\ Len(Done(n).todo) = 0
  <2> DEFINE plan == Plan(k, <<>>)
  <2>1. /\ Onward(plan) /\ plan.now = k /\ Len(plan.todo) = 0
        /\ Stage(plan, 0) = k
    BY <1>1, <1>3, ShortStages, ShortOnward
  <2>2. Done(n) = plan
    BY DEF Done, k
  <2> HIDE DEF plan
  <2>3. FollowerPlan(plan, c)
    BY <1>2, <2>1 DEF FollowerPlan
  <2> QED
    BY <1>3, <2>1, <2>2, <2>3
<1>5. ASSUME NEW to, NEW m
      PROVE  LET plan == Reply(to, m, n)
             IN  /\ FollowerPlan(plan, c) /\ plan.now = n
                 /\ Len(plan.todo) = 1 /\ plan.todo[1].msg = m
  <2> DEFINE p == Sending({to}, m, n)
             plan == Plan(n, <<p>>)
  <2>1. p.after = k /\ p.msg = m
    BY DEF Sending, k
  <2>2. Reply(to, m, n) = plan
    BY DEF Reply
  <2> HIDE DEF p
  <2>3. /\ Onward(plan) /\ plan.now = n /\ Len(plan.todo) = 1
        /\ plan.todo[1] = p /\ Stage(plan, 0) = n /\ Stage(plan, 1) = k
    BY <1>1, <1>3, <2>1, ShortStages, ShortOnward
  <2> HIDE DEF plan
  <2>4. FollowerPlan(plan, c)
    BY <1>2, <2>3 DEF FollowerPlan
  <2> QED
    BY <2>1, <2>2, <2>3, <2>4
<1> QED
  BY <1>4, <1>5

\* A message that a follower may send tells only of its term and its log.
LEMMA AnswersSound ==
    ASSUME NEW n \in NodeState, NEW c \in NodeState, FollowerSound(n, c),
           c.role # "Follower", NEW s, NEW b
    PROVE  /\ LetterSound(RequestVoteResponse(n, b), s, n.log, c)
           /\ n.log # <<>> =>
                LetterSound(AppendEntriesResponse(n, b), s, n.log, c)
BY DEF LetterSound, Truthful, RequestVoteResponse, AppendEntriesResponse,
       FollowerSound

LEMMA FollowerAppends ==
    ASSUME NEW c \in NodeState, NEW n \in NodeState, FollowerSound(n, c),
           n.role = "Follower", NEW s \in Server, NEW src \in Server,
           NEW m \in Message, m.kind = "AppendEntries", NEW l,
           LetterSound(m, src, l, c)
    PROVE  LET plan == OnAppendEntries(n, src, m)
           IN  /\ FollowerPlan(plan, c) /\ Forward(n, plan.now)
               /\ \A j \in 1 .. Len(plan.todo) :
                    LetterSound(plan.todo[j].msg, s, plan.now.log, c)
<1> DEFINE o == Observe(n, m)
           k == Store(o, m)
           plan == OnAppendEntries(n, src, m)
<1>1. /\ m.term = c.current_term /\ m.leader_commit <= c.commit_index
      /\ m.entries # <<>> => m.leader_commit <= Newest(m.entries)
      /\ Excerpt(m.entries, c.log) /\ c.role # "Follower"
  BY DEF LetterSound, Truthful
<1>2. n.current_term \in Nat /\ c.current_term \in Nat
      /\ n.current_term <= c.current_term
  BY NumbersOf DEF FollowerSound
<1>3. o \in NodeState /\ o.log = n.log /\ FollowerSound(o, c) /\ Forward(n, o)
  BY <1>1, ObserveFollows
<1>4. Forward(n, n)
  BY ForwardStays
<1> HIDE DEF o
<1>5. CASE Rejects(n, m)
  <2> DEFINE a == AppendEntriesResponse(n, FALSE)
  <2>1. plan = Reply(src, a, n)
    BY <1>5 DEF OnAppendEntries, Accepts
  <2>2. n.log # <<>>
    <3>1. ~ PrevLogMatches(n.log, m.prev_log_index, m.prev_log_term)
      BY <1>1, <1>2, <1>5 DEF Rejects
    <3> QED
      BY <3>1 DEF PrevLogMatches, Has, LastIndex
  <2>3. LetterSound(a, s, n.log, c)
    BY <1>1, <2>2, AnswersSound
  <2> HIDE DEF a, plan
  <2>4. /\ FollowerPlan(plan, c) /\ plan.now = n /\ Len(plan.todo) = 1
        /\ plan.todo[1].msg = a
    BY <2>1, FollowerShort
  <2> QED
    BY <1>4, <2>3, <2>4 DEF plan
<1>6. ~ StepsDown(n, m)
  BY DEF StepsDown
<1>7. CASE Accepts(n, m) /\ m.entries = <<>>
  <2>1. plan = Done(o)
    BY <1>7 DEF OnAppendEntries, Accepts, LeavesGap, NewPositions, o
  <2> HIDE DEF plan
  <2>2. FollowerPlan(plan, c) /\ Forward(o, plan.now) /\ Len(plan.todo) = 0
    BY <1>3, <2>1, FollowerShort
  <2>3. Forward(n, plan.now)
    <3>1. Resume(o) \in NodeState /\ plan.now = Resume(o)
      BY <1>3, <2>1, ResumeType DEF Done, Plan
    <3> QED
      BY <1>3, <2>2, <3>1, ForwardOn
  <2> QED
    BY <2>2, <2>3 DEF plan
<1>8. CASE Accepts(n, m) /\ m.entries # <<>> /\ LeavesGap(n.log, m.entries)
  <2> DEFINE d == Panicked(o)
  <2>1. plan = Done(d)
    BY <1>8 DEF OnAppendEntries, Accepts, o
  <2>2. /\ d \in NodeState /\ d.log = o.log /\ d.commit_index = o.commit_index
        /\ d.last_applied = o.last_applied /\ d.store = o.store
        /\ d.role = "Dead" /\ d.current_term = o.current_term
    BY <1>3, PanickedType DEF Panicked, NodeState
  <2> HIDE DEF d, plan
  <2>3. FollowerSound(d, c) /\ Forward(n, d)
    BY <1>3, <2>2 DEF FollowerSound, Consistent, Forward
  <2>4. FollowerPlan(plan, c) /\ Forward(d, plan.now) /\ Len(plan.todo) = 0
    BY <2>1, <2>2, <2>3, FollowerShort
  <2>5. Forward(n, plan.now)
    <3>1. Resume(d) \in NodeState /\ plan.now = Resume(d)
      BY <2>1, <2>2, ResumeType DEF Done, Plan
    <3> QED
      BY <2>2, <2>3, <2>4, <3>1, ForwardOn
  <2> QED
    BY <2>4, <2>5 DEF plan
<1>9. CASE Accepts(n, m) /\ m.entries # <<>> /\ ~ LeavesGap(n.log, m.entries)
  <2> DEFINE a == AppendEntriesResponse(k, TRUE)
  <2>1. plan = Reply(src, a, k)
    BY <1>9 DEF OnAppendEntries, Accepts, o
  <2>2. k \in NodeState /\ k.log # <<>> /\ FollowerSound(k, c) /\ Forward(o, k)
    BY <1>1, <1>3, <1>9, StoreFollows
  <2> HIDE DEF k
  <2>3. Forward(n, k)
    BY <1>3, <2>2, ForwardOn
  <2>4. LetterSound(a, s, k.log, c)
    BY <1>1, <2>2, AnswersSound
  <2> HIDE DEF a, plan
  <2>5. /\ FollowerPlan(plan, c) /\ plan.now = k /\ Len(plan.todo) = 1
        /\ plan.todo[1].msg = a
    BY <2>1, <2>2, FollowerShort
  <2> QED
    BY <2>3, <2>4, <2>5 DEF plan
<1> QED
  BY <1>5, <1>6, <1>7, <1>8, <1>9 DEF Accepts

LEMMA FollowerOn ==
    ASSUME NEW c \in NodeState, NEW n \in NodeState, FollowerSound(n, c),
           n.role = "Follower", NEW s \in Server,
           NEW i \in [from : Server, msg : Message], NEW l,
           LetterSound(i.msg, i.from, l, c)
    PROVE  LET plan == On(s, n, i)
           IN  /\ FollowerPlan(plan, c) /\ Forward(n, plan.now)
               /\ \A j \in 1 .. Len(plan.todo) :
                    LetterSound(plan.todo[j].msg, s, plan.now.log, c)
<1> DEFINE m == i.msg
           plan == On(s, n, i)
<1>1. m \in Message /\ i.from \in Server /\ Forward(n, n)
  BY ForwardStays
<1>2. m.kind \in {"AppendEntries", "RequestVote", "RequestVoteResponse",
                  "AppendEntriesResponse"}
  BY <1>1 DEF Message
<1>3. CASE m.kind = "AppendEntries"
  <2>1. plan = OnAppendEntries(n, i.from, m)
    BY <1>3 DEF On
  <2> QED
    BY <1>1, <1>3, <2>1, FollowerAppends
<1>4. CASE m.kind = "RequestVote"
  <2> DEFINE a == RequestVoteResponse(n, ~ DeniesVote(n, m))
  <2>1. plan = Reply(m.candidate_id, a, n)
    BY <1>4 DEF On, OnRequestVote
  <2>2. LetterSound(a, s, n.log, c)
    <3>1. c.role # "Follower"
      BY <1>4 DEF LetterSound, Truthful
    <3> QED
      BY <3>1, AnswersSound
  <2> HIDE DEF a, plan
  <2>3. /\ FollowerPlan(plan, c) /\ plan.now = n /\ Len(plan.todo) = 1
        /\ plan.todo[1].msg = a
    BY <2>1, FollowerShort
  <2> QED
    BY <1>1, <2>2, <2>3 DEF plan
<1>5. CASE m.kind \in {"RequestVoteResponse", "AppendEntriesResponse"}
  <2>1. plan = Done(n)
    BY <1>5 DEF On, OnVoteResponse, OnAppendEntriesResponse
  <2> HIDE DEF plan
  <2>2. FollowerPlan(plan, c) /\ Forward(n, plan.now) /\ Len(plan.todo) = 0
    BY <2>1, FollowerShort
  <2> QED
    BY <2>2 DEF plan
<1> QED
  BY <1>2, <1>3, <1>4, <1>5

\* A follower does not ask for votes again.
LEMMA FollowerAround ==
    ASSUME NEW plan, Typed(plan), NEW c, FollowerPlan(plan, c), NEW s
    PROVE  Around(s, plan) = plan
<1> DEFINE end == Stage(plan, Len(plan.todo))
<1>1. plan.todo \in Seq(Pending) /\ Len(plan.todo) \in Nat
  BY DEF Typed
<1>2. end = IF plan.todo = <<>> THEN plan.now ELSE Last(plan.todo).after
  BY <1>1 DEF Stage, Last
<1>3. end.role # "Candidate"
  BY <1>1 DEF FollowerPlan, FollowerSound
<1> QED
  BY <1>2, <1>3 DEF Around

\* A plan of the leader that sends nothing, or once.
LEMMA ChiefShort ==
    ASSUME NEW n \in NodeState, ChiefSound(n), NEW k \in NodeState,
           ChiefSound(k), Forward(n, k), k.role = n.role, k.log = n.log,
           k.current_term = n.current_term
    PROVE  /\ ChiefPlan(Plan(n, <<>>))
           /\ \A p : p.after = k => ChiefPlan(Plan(n, <<p>>))
<1>1. ChiefPlan(Plan(n, <<>>))
  <2> DEFINE plan == Plan(n, <<>>)
  <2>1. /\ Len(plan.todo) = 0 /\ Stage(plan, 0) = n /\ plan.now = n
        /\ Onward(plan)
    BY ShortStages, ShortOnward
  <2> HIDE DEF plan
  <2>2. ChiefPlan(plan)
    BY <2>1 DEF ChiefPlan
  <2> QED
    BY <2>2 DEF plan
<1>2. ASSUME NEW p, p.after = k PROVE ChiefPlan(Plan(n, <<p>>))
  <2> DEFINE plan == Plan(n, <<p>>)
  <2>1. /\ Len(plan.todo) = 1 /\ Stage(plan, 0) = n /\ Stage(plan, 1) = k
        /\ plan.now = n /\ Onward(plan)
    BY <1>2, ShortStages, ShortOnward
  <2> HIDE DEF plan
  <2>2. ChiefPlan(plan)
    BY <2>1 DEF ChiefPlan
  <2> QED
    BY <2>2 DEF plan
<1> QED
  BY <1>1, <1>2

\* The leader is no follower: it does not apply when it goes round.
LEMMA ChiefDone ==
    ASSUME NEW n \in NodeState, n.role # "Follower"
    PROVE  /\ Resume(n) = n /\ Done(n) = Plan(n, <<>>)
           /\ \A to, m : /\ Sending(to, m, n).after = n
                         /\ Uncut(Sending(to, m, n)).after = n
                         /\ Sending(to, m, n).msg = m
                         /\ Uncut(Sending(to, m, n)).msg = m
BY DEF Resume, Done, Sending, Uncut

\* What a handler of the leader, at the node n, may do.
ChiefDoes(n, plan) ==
    /\ ChiefPlan(plan) /\ Forward(n, plan.now) /\ plan.now.log = n.log
    /\ plan.now.current_term = n.current_term /\ plan.now.role # "Follower"
    /\ \A j \in 1 .. Len(plan.todo) :
          LetterSound(plan.todo[j].msg, Chief, plan.now.log, plan.now)

LEMMA ChiefDoesDone ==
    ASSUME NEW n \in NodeState, NEW k \in NodeState, ChiefSound(k),
           Forward(n, k), k.log = n.log, k.current_term = n.current_term,
           k.role # "Follower"
    PROVE  ChiefDoes(n, Done(k))
<1> DEFINE plan == Plan(k, <<>>)
<1>1. Done(k) = plan
  BY ChiefDone
<1>2. ChiefPlan(plan) /\ plan.now = k /\ Len(plan.todo) = 0
  BY ForwardStays, ChiefShort, ShortStages
<1> HIDE DEF plan
<1> QED
  BY <1>1, <1>2 DEF ChiefDoes

LEMMA ChiefDoesSend ==
    ASSUME NEW n \in NodeState, NEW k \in NodeState, ChiefSound(k),
           Forward(n, k), k.log = n.log, k.current_term = n.current_term,
           k.role # "Follower",
           NEW j \in NodeState, ChiefSound(j), Forward(k, j), j.role = k.role,
           j.log = k.log, j.current_term = k.current_term,
           NEW p, p.after = j, LetterSound(p.msg, Chief, k.log, k)
    PROVE  ChiefDoes(n, Plan(k, <<p>>))
<1> DEFINE plan == Plan(k, <<p>>)
<1>1. /\ ChiefPlan(plan) /\ plan.now = k /\ Len(plan.todo) = 1
      /\ plan.todo[1] = p
  BY ChiefShort, ShortStages
<1> HIDE DEF plan
<1>2. ChiefDoes(n, plan)
  BY <1>1 DEF ChiefDoes
<1> QED
  BY <1>2 DEF plan

\* The messages of the leader as letters.
LEMMA ChiefLetters ==
    ASSUME NEW n \in NodeState, ChiefSound(n), n.role # "Follower", NEW l
    PROVE  /\ LetterSound(Heartbeat(n), Chief, l, n)
           /\ LetterSound(RequestVote(Chief, n), Chief, l, n)
           /\ \A p \in Server : Has(n.log, n.next_index[p])
                 => LetterSound(Retry(n, p), Chief, l, n)
           /\ \A a : HasApplied(n, a)
                 => LetterSound([kind |-> "ClientResponse", client |-> a],
                                Chief, l, n)
<1>1. /\ Truthful(Heartbeat(n), l, n)
      /\ Truthful(RequestVote(Chief, n), l, n)
      /\ \A p \in Server : Has(n.log, n.next_index[p])
            => Truthful(Retry(n, p), l, n)
  BY ChiefMessages
<1>2. /\ Heartbeat(n).kind = "AppendEntries"
      /\ RequestVote(Chief, n).kind = "RequestVote"
      /\ \A p : Retry(n, p).kind = "AppendEntries"
  BY DEF Heartbeat, AppendEntries, RequestVote, Retry
<1> QED
  BY <1>1, <1>2 DEF LetterSound

LEMMA ChiefVotes ==
    ASSUME NEW n \in NodeState, ChiefSound(n), n.role # "Follower",
           NEW m \in Message, m.kind = "RequestVoteResponse",
           m.term <= n.current_term, Chief \in Server
    PROVE  ChiefDoes(n, OnVoteResponse(Chief, n, m))
<1> DEFINE v == Counted(n)
           k == TakeOffice(v)
           plan == OnVoteResponse(Chief, n, m)
<1>1. /\ v \in NodeState /\ ChiefSound(v) /\ Forward(n, v) /\ v.log = n.log
      /\ v.role = n.role /\ v.current_term = n.current_term
  BY CountedSound
<1>2. m.term \in Nat /\ n.current_term \in Nat /\ ~ (m.term > n.current_term)
  BY MessageFields, NumbersOf
<1>3. CASE n.role = "Candidate" /\ m.vote_granted /\ Wins(v)
  <2>1. plan = Plan(k, <<Beat(Chief, k)>>)
    BY <1>2, <1>3 DEF OnVoteResponse
  <2> HIDE DEF v
  <2>2. /\ k \in NodeState /\ ChiefSound(k) /\ Forward(v, k)
        /\ k.role = "Leader" /\ k.log = v.log
        /\ k.current_term = v.current_term
    BY <1>1, <1>3, OfficeSound
  <2> HIDE DEF k
  <2>3. Forward(n, k) /\ Forward(k, k)
    BY <1>1, <2>2, ForwardOn, ForwardStays
  <2>4. Beat(Chief, k).after = k /\ Beat(Chief, k).msg = Heartbeat(k)
    BY <2>2, ChiefDone DEF Beat
  <2>5. LetterSound(Heartbeat(k), Chief, k.log, k)
    BY <2>2, ChiefLetters
  <2> QED
    BY <1>1, <2>1, <2>2, <2>3, <2>4, <2>5, ChiefDoesSend
<1>4. CASE n.role = "Candidate" /\ m.vote_granted /\ ~ Wins(v)
  <2>1. plan = Done(v)
    BY <1>2, <1>4 DEF OnVoteResponse
  <2> QED
    BY <1>1, <2>1, ChiefDoesDone
<1>5. CASE ~ (n.role = "Candidate" /\ m.vote_granted)
  <2>1. plan = Done(n)
    BY <1>2, <1>5 DEF OnVoteResponse
  <2> QED
    BY <2>1, ForwardStays, ChiefDoesDone
<1> QED
  BY <1>3, <1>4, <1>5

LEMMA ChiefResponses ==
    ASSUME NEW n \in NodeState, ChiefSound(n), n.role # "Follower",
           NEW m \in Message, m.kind = "AppendEntriesResponse",
           m.term <= n.current_term, n.log # <<>>, NEW src \in Server,
           Chief \in Server
    PROVE  ChiefDoes(n, OnAppendEntriesResponse(Chief, n, src, m))
<1> DEFINE a == Acknowledged(n, src)
           b == BackedOff(n, src)
           c == AdvanceCommit(a)
           plan == OnAppendEntriesResponse(Chief, n, src, m)
<1>1. /\ a \in NodeState /\ ChiefSound(a) /\ b \in NodeState /\ ChiefSound(b)
      /\ Has(n.log, b.next_index[src])
  BY EstimatesInside
<1>2. m.term \in Nat /\ n.current_term \in Nat /\ ~ (m.term > n.current_term)
  BY MessageFields, NumbersOf
<1>3. /\ a.log = n.log /\ a.role = n.role /\ a.current_term = n.current_term
      /\ a.commit_index = n.commit_index /\ a.last_applied = n.last_applied
      /\ b.log = n.log /\ b.role = n.role /\ b.current_term = n.current_term
      /\ b.commit_index = n.commit_index /\ b.last_applied = n.last_applied
  BY DEF Acknowledged, BackedOff, NodeState
<1>4. Forward(n, n) /\ Forward(n, a) /\ Forward(n, b)
  BY <1>3, ForwardStays
<1>5. CASE n.role # "Leader"
  <2>1. plan = Done(n)
    BY <1>5 DEF OnAppendEntriesResponse
  <2> QED
    BY <1>4, <2>1, ChiefDoesDone
<1>6. CASE n.role = "Leader" /\ ~ m.success
  <2> DEFINE j == AdvanceCommit(b)
             p == Sending({src}, Retry(b, src), j)
  <2>1. plan = Plan(b, <<p>>)
    BY <1>1, <1>2, <1>6 DEF OnAppendEntriesResponse
  <2> HIDE DEF b
  <2>2. /\ j \in NodeState /\ ChiefSound(j) /\ Forward(b, j) /\ j.log = b.log
        /\ j.role = b.role /\ j.current_term = b.current_term
    BY <1>1, CommitAdvances
  <2>3. LetterSound(Retry(b, src), Chief, b.log, b)
    BY <1>1, <1>3, ChiefLetters
  <2> HIDE DEF j
  <2>4. p.after = j /\ p.msg = Retry(b, src)
    BY <1>3, <2>2, ChiefDone
  <2> QED
    BY <1>1, <1>3, <1>4, <2>1, <2>2, <2>3, <2>4, ChiefDoesSend
<1>7. CASE n.role = "Leader" /\ m.success /\ Committable(a) = {}
  <2>1. plan = Done(a)
    BY <1>2, <1>7 DEF OnAppendEntriesResponse
  <2> QED
    BY <1>1, <1>3, <1>4, <2>1, ChiefDoesDone
<1>8. CASE n.role = "Leader" /\ m.success /\ Committable(a) # {}
  <2> DEFINE k == ApplyOwn(Chief, c)
             x == [kind |-> "ClientResponse", client |-> ClientOf(c)]
             p == Sending({}, x, k)
  <2>1. plan = Plan(k, <<p>>)
    BY <1>2, <1>8 DEF OnAppendEntriesResponse
  <2>2. /\ c \in NodeState /\ ChiefSound(c) /\ Forward(a, c) /\ c.log = a.log
        /\ c.role = a.role /\ c.current_term = a.current_term
    BY <1>1, CommitAdvances
  <2>3. c.commit_index \in Nat
    BY <1>1, <1>8, CommittableRange DEF AdvanceCommit, NodeState
  <2> HIDE DEF c, a
  <2>4. /\ k \in NodeState /\ ChiefSound(k) /\ Forward(c, k) /\ k.log = c.log
        /\ k.role = c.role /\ k.current_term = c.current_term
        /\ HasApplied(k, ClientOf(c))
    BY <2>2, <2>3, OwnApplied
  <2> HIDE DEF k
  <2>5. Forward(n, k) /\ Forward(k, k)
    <3>1. Forward(n, c)
      BY <1>1, <1>4, <2>2, ForwardOn
    <3> QED
      BY <2>2, <2>4, <3>1, ForwardOn, ForwardStays
  <2>6. p.after = k /\ p.msg = x
    BY <1>3, <2>2, <2>4, ChiefDone
  <2>7. LetterSound(x, Chief, k.log, k)
    BY <1>3, <2>2, <2>4, ChiefLetters
  <2> HIDE DEF p, x
  <2> QED
    BY <1>3, <2>1, <2>2, <2>4, <2>5, <2>6, <2>7, ChiefDoesSend
<1> QED
  BY <1>5, <1>6, <1>7, <1>8

\* What the leader does with a message: it has campaigned, nobody is ahead of
\* its term or asks it for anything, and a response to entries comes from a
\* follower that has some.
LEMMA ChiefOn ==
    ASSUME NEW n \in NodeState, ChiefSound(n), Chief \in Server,
           NEW i \in [from : Server, msg : Message], i.from # Chief,
           NEW f \in NodeState, FollowerSound(f, n),
           LetterSound(i.msg, i.from, f.log, n)
    PROVE  ChiefDoes(n, On(Chief, n, i))
<1> DEFINE m == i.msg
<1>1. /\ m \in Message /\ i.from \in Server
      /\ m.kind \in {"AppendEntries", "RequestVote", "RequestVoteResponse",
                     "AppendEntriesResponse"}
  BY DEF Message
<1>2. /\ m.kind \notin {"RequestVote", "AppendEntries"}
      /\ Truthful(m, f.log, n)
  BY <1>1 DEF LetterSound
<1>3. n.role # "Follower" /\ m.term <= n.current_term
  BY <1>2 DEF Truthful
<1>4. CASE m.kind = "RequestVoteResponse"
  <2>1. On(Chief, n, i) = OnVoteResponse(Chief, n, m)
    BY <1>4 DEF On
  <2> QED
    BY <1>1, <1>3, <1>4, <2>1, ChiefVotes
<1>5. CASE m.kind = "AppendEntriesResponse"
  <2>1. On(Chief, n, i) = OnAppendEntriesResponse(Chief, n, i.from, m)
    BY <1>5 DEF On
  <2>2. n.log # <<>>
    <3>1. f.log # <<>> /\ Prefix(f.log, n.log)
      BY <1>2, <1>5 DEF Truthful, FollowerSound
    <3>2. f.log \in Seq(Entry) /\ n.log \in Seq(Entry) /\ Prefix(n.log, n.log)
      BY NumbersOf DEF Prefix
    <3> QED
      BY <3>1, <3>2, PrefixFacts
  <2> QED
    BY <1>1, <1>3, <1>5, <2>1, <2>2, ChiefResponses
<1> QED
  BY <1>1, <1>2, <1>4, <1>5

\* A candidate that asks again.
LEMMA ChiefAround ==
    ASSUME NEW n \in NodeState, NEW plan, Typed(plan), ChiefDoes(n, plan),
           Chief \in Server
    PROVE  ChiefDoes(n, Around(Chief, plan))
<1> DEFINE end == Stage(plan, Len(plan.todo))
           e == Ask(Chief, end)
           longer == [plan EXCEPT !.todo = Append(@, e)]
           size == Len(plan.todo)
<1>1. /\ plan.todo \in Seq(Pending) /\ size \in Nat /\ end \in NodeState
  BY StageType DEF Typed
<1>2. end = IF plan.todo = <<>> THEN plan.now ELSE Last(plan.todo).after
  BY <1>1 DEF Stage, Last
<1>3. Around(Chief, plan) = IF end.role = "Candidate" THEN longer ELSE plan
  BY <1>2 DEF Around
<1>4. /\ ChiefSound(end) /\ end.role = plan.now.role /\ end.log = plan.now.log
      /\ end.current_term = plan.now.current_term
      /\ \A i \in 0 .. size : Forward(Stage(plan, i), end)
  BY <1>1 DEF ChiefDoes, ChiefPlan, Onward
<1>5. ASSUME end.role = "Candidate" PROVE ChiefDoes(n, longer)
  <2> DEFINE todo == Append(plan.todo, e)
  <2>1. longer.now = plan.now /\ longer.todo = todo
    BY DEF Typed
  <2>2. e \in Pending /\ e.after = end /\ e.msg = RequestVote(Chief, end)
    BY <1>1, <1>5, AskBeatType, ChiefDone DEF Ask
  <2> HIDE DEF longer, end, e
  <2>3. /\ Len(todo) = size + 1 /\ todo[size + 1] = e
        /\ \A i \in 1 .. size : todo[i] = plan.todo[i]
    BY <1>1, <2>2, Appended
  <2> HIDE DEF todo, size
  <2>4. /\ \A i \in 0 .. size : Stage(longer, i) = Stage(plan, i)
        /\ Stage(longer, size + 1) = end
    BY <1>1, <2>1, <2>2, <2>3 DEF Stage
  <2>5. Onward(longer)
    <3> SUFFICES ASSUME NEW i \in 0 .. size + 1, NEW j \in i .. size + 1
                 PROVE  Forward(Stage(longer, i), Stage(longer, j))
      BY <2>1, <2>3 DEF Onward
    <3>1. CASE j <= size
      <4>1. i \in 0 .. size /\ j \in i .. size /\ j \in 0 .. size
        BY <1>1, <3>1
      <4> QED
        BY <2>4, <4>1 DEF ChiefDoes, ChiefPlan, Onward, size
    <3>2. CASE j = size + 1 /\ i <= size
      <4>1. i \in 0 .. size
        BY <1>1, <3>2
      <4> QED
        BY <1>4, <2>4, <3>2, <4>1
    <3>3. CASE j = size + 1 /\ i = size + 1
      BY <1>1, <2>4, <3>3, ForwardStays
    <3> QED
      BY <1>1, <3>1, <3>2, <3>3
  <2>6. ASSUME NEW i \in 0 .. size + 1
        PROVE  LET k == Stage(longer, i)
               IN  /\ ChiefSound(k)
                   /\ k.role = plan.now.role /\ k.log = plan.now.log
                   /\ k.current_term = plan.now.current_term
    <3>1. CASE i \in 0 .. size
      BY <2>4, <3>1 DEF ChiefDoes, ChiefPlan, size
    <3>2. CASE i = size + 1
      BY <1>4, <2>4, <3>2
    <3> QED
      BY <1>1, <3>1, <3>2
  <2>7. ChiefPlan(longer)
    BY <2>1, <2>3, <2>5, <2>6 DEF ChiefPlan
  <2>8. ASSUME NEW j \in 1 .. size + 1
        PROVE  LetterSound(todo[j].msg, Chief, plan.now.log, plan.now)
    <3>1. CASE j \in 1 .. size
      BY <2>3, <3>1 DEF ChiefDoes, size
    <3>2. CASE j = size + 1
      <4>1. LetterSound(RequestVote(Chief, end), Chief, plan.now.log, end)
        BY <1>1, <1>4, <1>5, ChiefLetters
      <4>2. LetterSound(RequestVote(Chief, end), Chief, plan.now.log, plan.now)
        BY <1>4, <4>1 DEF LetterSound, Truthful, RequestVote
      <4> QED
        BY <2>2, <2>3, <3>2, <4>2
    <3> QED
      BY <1>1, <3>1, <3>2
  <2> QED
    BY <2>1, <2>3, <2>7, <2>8 DEF ChiefDoes
<1> QED
  BY <1>3, <1>5

LEMMA ChiefTimer ==
    ASSUME NEW n \in NodeState, ChiefSound(n), Chief \in Server
    PROVE  LET plan == OnTimer(Chief, n)
           IN  /\ ChiefPlan(plan) /\ ChiefForward(n, plan.now)
               /\ plan.now.log = n.log
               /\ plan.now.current_term = IF n.role = "Follower"
                                          THEN n.current_term + 1
                                          ELSE n.current_term
               /\ \A j \in 1 .. Len(plan.todo) :
                     LetterSound(plan.todo[j].msg, Chief, plan.now.log, plan.now)
<1> DEFINE k == BecomeCandidate(Chief, n)
<1>1. n.role \in {"Follower", "Candidate", "Leader"}
  BY DEF ChiefSound
<1>2. CASE n.role = "Follower"
  <2>1. OnTimer(Chief, n) = Plan(k, <<Ask(Chief, k)>>)
    BY <1>2 DEF OnTimer
  <2>2. /\ k \in NodeState /\ ChiefSound(k) /\ ChiefForward(n, k)
        /\ k.role = "Candidate" /\ k.log = n.log
        /\ k.current_term = n.current_term + 1
    BY <1>2, CandidateSound
  <2> HIDE DEF k
  <2>3. Ask(Chief, k).after = k /\ Ask(Chief, k).msg = RequestVote(Chief, k)
    BY <2>2, ChiefDone DEF Ask
  <2>4. ChiefDoes(k, Plan(k, <<Ask(Chief, k)>>))
    BY <2>2, <2>3, ForwardStays, ChiefLetters, ChiefDoesSend
  <2>5. Plan(k, <<Ask(Chief, k)>>).now = k
    BY ShortStages
  <2> QED
    BY <1>2, <2>1, <2>2, <2>4, <2>5 DEF ChiefDoes
<1>3. CASE n.role # "Follower"
  <2>1. PICK m \in {RequestVote(Chief, n), Heartbeat(n)} :
          OnTimer(Chief, n) = Plan(n, <<Uncut(Sending(Peers(Chief), m, n))>>)
    BY <1>1, <1>3 DEF OnTimer, Ask, Beat
  <2> DEFINE p == Uncut(Sending(Peers(Chief), m, n))
  <2>2. p.after = n /\ p.msg = m
    BY <1>3, ChiefDone
  <2>3. LetterSound(m, Chief, n.log, n)
    BY <1>3, <2>1, ChiefLetters
  <2> HIDE DEF p
  <2>4. ChiefDoes(n, Plan(n, <<p>>))
    BY <1>3, <2>2, <2>3, ForwardStays, ChiefDoesSend
  <2>5. Plan(n, <<p>>).now = n
    BY ShortStages
  <2> QED
    BY <1>3, <2>1, <2>4, <2>5, ChiefForwardStays DEF ChiefDoes, p
<1> QED
  BY <1>2, <1>3

\* The leader marks its peers one after the other, and sends them its new entry.
LEMMA ChiefSet ==
    ASSUME NEW c \in NodeState, ChiefSound(c), c.role = "Leader",
           NEW r \in Request, Chief \in Server,
           NEW order \in SetToSeqs(Peers(Chief)),
           NEW k \in 0 .. Cardinality(Peers(Chief)),
           Reaches([c EXCEPT !.log = Append(@, NewEntry(c, r))], order, k)
    PROVE  LET plan == SetPlan([c EXCEPT !.log = Append(@, NewEntry(c, r))],
                               order, k)
           IN  /\ Typed(plan) /\ ChiefPlan(plan) /\ ChiefForward(c, plan.now)
               /\ plan.now.current_term = c.current_term
               /\ \A i \in 0 .. Len(plan.todo) : Pushes(c, Stage(plan, i))
               /\ \A j \in 1 .. Len(plan.todo) :
                     LetterSound(plan.todo[j].msg, Chief, plan.now.log, plan.now)
<1> DEFINE n == [c EXCEPT !.log = Append(@, NewEntry(c, r))]
           plan == SetPlan(n, order, k)
<1>1. /\ n \in NodeState /\ ChiefSound(n) /\ ChiefForward(c, n) /\ Pushes(c, n)
      /\ n.role = "Leader" /\ n.log # <<>> /\ LastIndex(n.log) \in Nat
      /\ \A p \in Server : n.next_index[p] <= LastIndex(n.log)
  BY PushSound
<1>2. n.current_term = c.current_term
  BY DEF NodeState
<1>3. Reaches(n, order, k)
  OBVIOUS
<1> HIDE DEF n
<1>4. k = Len(order)
  BY <1>1, <1>3, EveryPeerReached
<1>5. /\ Typed(plan) /\ Len(plan.todo) = k
      /\ \A i \in 1 .. k : plan.todo[i].msg = Announcement(n, order[i])
      /\ \A i \in 0 .. k : \E j : Stage(plan, i) = Marked(n, order, j)
  BY <1>1, <1>3, <1>4, SetPlanStages
<1> HIDE DEF plan
<1>6. ASSUME NEW i \in 0 .. k
      PROVE  LET x == Stage(plan, i)
             IN  /\ x \in NodeState /\ ChiefSound(x) /\ x.role = n.role
                 /\ x.log = n.log /\ x.current_term = n.current_term
                 /\ x.commit_index = n.commit_index
                 /\ x.last_applied = n.last_applied /\ x.store = n.store
  <2>1. PICK j : Stage(plan, i) = Marked(n, order, j)
    BY <1>5
  <2> DEFINE x == Marked(n, order, j)
  <2>2. /\ x \in NodeState /\ x.log = n.log /\ x.role = n.role
        /\ x.current_term = n.current_term
        /\ x.commit_index = n.commit_index
        /\ x.last_applied = n.last_applied /\ x.store = n.store
        /\ x.next_index = n.next_index
        /\ \A p \in Server : \/ x.last_sent_index[p] = LastIndex(n.log)
                             \/ x.last_sent_index[p] = n.last_sent_index[p]
    BY <1>1, MarkedType
  <2> HIDE DEF x
  <2>3. Consistent(x)
    BY <1>1, <2>2 DEF ChiefSound, Consistent
  <2>4. IndicesInside(x)
    <3>1. LastIndex(n.log) < Len(n.log)
      BY <1>1, NumbersOf DEF LastIndex
    <3> QED
      BY <1>1, <2>2, <3>1 DEF ChiefSound, IndicesInside
  <2>5. ChiefSound(x)
    BY <1>1, <2>2, <2>3, <2>4, ChiefKept
  <2> QED
    BY <2>1, <2>2, <2>5 DEF x
<1>7. plan.now = Stage(plan, 0) /\ 0 \in 0 .. k /\ k \in Nat
  BY <1>4, OrderVisits DEF Stage
<1>8. ChiefPlan(plan)
  <2>1. Onward(plan)
    <3> SUFFICES ASSUME NEW i \in 0 .. k, NEW j \in i .. k
                 PROVE  Forward(Stage(plan, i), Stage(plan, j))
      BY <1>5 DEF Onward
    <3>1. j \in 0 .. k
      BY <1>7
    <3> QED
      BY <1>6, <3>1, ForwardStays
  <2> QED
    BY <1>5, <1>6, <1>7, <2>1 DEF ChiefPlan
<1>9. ChiefForward(c, plan.now) /\ plan.now.current_term = c.current_term
  BY <1>1, <1>2, <1>6, <1>7 DEF ChiefForward, Forward
<1>10. \A i \in 0 .. k : Pushes(c, Stage(plan, i))
  BY <1>1, <1>6 DEF Pushes
<1>11. ASSUME NEW j \in 1 .. k
       PROVE  LetterSound(plan.todo[j].msg, Chief, plan.now.log, plan.now)
  <2> DEFINE m == Announcement(n, order[j])
  <2>1. Truthful(m, plan.now.log, n) /\ m.kind = "AppendEntries"
    BY <1>1, AnnouncementTells DEF Announcement, AppendEntries
  <2>2. Truthful(m, plan.now.log, plan.now)
    BY <1>6, <1>7, <2>1 DEF Truthful
  <2> QED
    BY <1>5, <2>1, <2>2 DEF LetterSound
<1> QED
  BY <1>5, <1>8, <1>9, <1>10, <1>11 DEF plan, n


-----------------------------------------------------------------------------
(* Letters on their way                                                    *)

LEMMA LetterKept ==
    ASSUME NEW c \in NodeState, NEW n \in NodeState, ChiefForward(c, n),
           Consistent(c), NEW m \in Message \union Answer, NEW s,
           NEW l \in Seq(Entry), NEW k \in Seq(Entry), Len(k) >= Len(l),
           LetterSound(m, s, l, c)
    PROVE  LetterSound(m, s, k, n)
<1>1. CASE m.kind = "ClientResponse"
  <2>1. HasApplied(c, m.client)
    BY <1>1 DEF LetterSound
  <2> QED
    BY <1>1, <2>1, ChiefForwardKeeps DEF LetterSound
<1>2. CASE m.kind # "ClientResponse"
  <2>1. m \in Message
    BY <1>2 DEF Answer
  <2>2. Truthful(m, l, c)
    BY <1>2 DEF LetterSound
  <2>3. Truthful(m, l, n)
    BY <2>1, <2>2, ChiefForwardKeeps
  <2>4. Truthful(m, k, n)
    BY <2>3, SoundKept
  <2> QED
    BY <1>2, <2>4 DEF LetterSound
<1> QED
  BY <1>1, <1>2

LEMMA MemberType ==
    ASSUME NEW T, NEW q \in Seq(T), NEW i \in 1 .. Len(q)
    PROVE  q[i] \in T
OBVIOUS

LEMMA AfloatType ==
    ASSUME TypeOK, NEW s \in Server, NEW m, Afloat(s, m)
    PROVE  m \in Message \union Answer
<1>1. ASSUME NEW i \in 1 .. Len(task[s]), m = task[s][i].msg
      PROVE  m \in Message \union Answer
  <2>1. task[s][i] \in Pending
    BY DEF TypeOK
  <2> QED
    BY <1>1, <2>1 DEF Pending
<1>2. ASSUME NEW i \in 1 .. Len(outbox[s]), m = outbox[s][i].msg
      PROVE  m \in Message \union Answer
  <2>1. outbox[s][i] \in Letter
    BY DEF TypeOK
  <2> QED
    BY <1>2, <2>1 DEF Letter
<1>3. ASSUME NEW i \in 1 .. Len(hand[s]), m = hand[s][i].msg
      PROVE  m \in Message \union Answer
  <2>1. hand[s] \in Seq([to : SUBSET Server, msg : Message])
    BY DEF TypeOK
  <2>2. hand[s][i] \in [to : SUBSET Server, msg : Message]
    BY <2>1, MemberType, Zenon
  <2> QED
    BY <1>3, <2>2
<1>4. ASSUME NEW d \in Peers(s), NEW i \in 1 .. Len(pipe[<<s, d>>]),
             m = pipe[<<s, d>>][i]
      PROVE  m \in Message \union Answer
  <2>1. <<s, d>> \in Link
    BY DEF Peers, Link
  <2>2. pipe[<<s, d>>] \in Seq(Message)
    BY <2>1 DEF TypeOK
  <2> QED
    BY <1>4, <2>2
<1>5. ASSUME NEW d \in Peers(s), NEW i \in 1 .. Len(inbox[d]),
             inbox[d][i].from = s, m = inbox[d][i].msg
      PROVE  m \in Message \union Answer
  <2>1. inbox[d] \in Seq(Incoming)
    BY DEF TypeOK, Peers
  <2>2. inbox[d][i] \in Incoming
    BY <2>1, MemberType, Zenon
  <2>3. m \in Message
    BY <1>5, <2>2, LetterKinds
  <2> QED
    BY <2>3
<1> QED
  BY <1>1, <1>2, <1>3, <1>4, <1>5 DEF Afloat

\* A server task that goes on with a plan sends what is in the plan.
LEMMA AfloatGo ==
    ASSUME TypeOK, NEW s \in Server, NEW plan, Typed(plan), Go(s, plan),
           InboxKept, UNCHANGED <<hand, pipe>>, NEW t \in Server, NEW m,
           Afloat(t, m)'
    PROVE  \/ Afloat(t, m)
           \/ t = s /\ \E j \in 1 .. Len(plan.todo) : m = plan.todo[j].msg
<1>1. PICK k \in 0 .. Len(plan.todo) :
        /\ outbox' = [outbox EXCEPT ![s] = outbox[s] \o Letters(plan, k)]
        /\ task' = [task EXCEPT ![s] = Rest(plan, k).todo]
  <2>1. \E k \in 0 .. Len(plan.todo) :
          /\ Len(outbox[s]) + k <= Channel
          /\ node' = [node EXCEPT ![s] = Stage(plan, k)]
          /\ outbox' = [outbox EXCEPT ![s] = outbox[s] \o Letters(plan, k)]
          /\ task' = [task EXCEPT ![s] = Rest(plan, k).todo]
    BY GoTakesPlan
  <2> QED
    BY <2>1, Zenon
<1>2. /\ Len(plan.todo) \in Nat /\ k \in Nat
      /\ Len(Rest(plan, k).todo) = Len(plan.todo) - k
      /\ \A i \in 1 .. Len(Rest(plan, k).todo) :
            Rest(plan, k).todo[i] = plan.todo[k + i]
  BY RestStages DEF Typed
<1>3. ASSUME NEW i \in 1 .. Len(task'[t]), m = task'[t][i].msg
      PROVE  \/ Afloat(t, m)
             \/ t = s /\ \E j \in 1 .. Len(plan.todo) : m = plan.todo[j].msg
  <2>1. CASE t = s
    <3>1. task'[t] = Rest(plan, k).todo
      BY <1>1, <2>1 DEF TypeOK
    <3>2. i \in 1 .. Len(Rest(plan, k).todo)
      BY <1>3, <3>1, Zenon
    <3>4. k + i \in 1 .. Len(plan.todo)
      BY <1>2, <3>2
    <3>3. m = plan.todo[k + i].msg
      BY <1>2, <1>3, <3>1, <3>2
    <3> QED
      BY <2>1, <3>3, <3>4
  <2>2. CASE t # s
    <3>1. task'[t] = task[t]
      BY <1>1, <2>2 DEF TypeOK
    <3> QED
      BY <1>3, <3>1 DEF Afloat
  <2> QED
    BY <2>1, <2>2
<1>4. ASSUME NEW i \in 1 .. Len(outbox'[t]), m = outbox'[t][i].msg
      PROVE  \/ Afloat(t, m)
             \/ t = s /\ \E j \in 1 .. Len(plan.todo) : m = plan.todo[j].msg
  <2>1. CASE t = s
    <3> DEFINE more == Letters(plan, k)
    <3>1. outbox'[t] = outbox[s] \o more
      BY <1>1, <2>1 DEF TypeOK
    <3>2. outbox[s] \in Seq(Letter) /\ more \in Seq(Letter) /\ Len(more) = k
      BY LettersType DEF TypeOK
    <3>3. \A j \in 1 .. k : more[j].msg = plan.todo[j].msg
      BY DEF Letters
    <3> HIDE DEF more
    <3>4. /\ Len(outbox[s] \o more) = Len(outbox[s]) + k
          /\ Len(outbox[s]) \in Nat
          /\ \A j \in 1 .. Len(outbox[s]) : (outbox[s] \o more)[j] = outbox[s][j]
          /\ \A j \in 1 .. k : (outbox[s] \o more)[Len(outbox[s]) + j] = more[j]
      <4>1. /\ Len(outbox[s] \o more) = Len(outbox[s]) + Len(more)
            /\ Len(outbox[s]) \in Nat
            /\ \A j \in 1 .. Len(outbox[s]) :
                  (outbox[s] \o more)[j] = outbox[s][j]
            /\ \A j \in 1 .. Len(more) :
                  (outbox[s] \o more)[Len(outbox[s]) + j] = more[j]
        <5>1. outbox[s] \in Seq(Letter)
          BY <3>2
        <5>2. more \in Seq(Letter)
          BY <3>2
        <5> QED
          BY <5>1, <5>2, Joined
      <4> QED
        BY <3>2, <4>1, Zenon
    <3>5. CASE i <= Len(outbox[s])
      <4>1. i \in 1 .. Len(outbox[s])
        BY <3>4, <3>5
      <4>2. m = outbox[s][i].msg
        BY <1>4, <3>1, <3>4, <4>1
      <4> QED
        BY <2>1, <4>1, <4>2 DEF Afloat
    <3>6. CASE ~ (i <= Len(outbox[s]))
      <4> DEFINE j == i - Len(outbox[s])
      <4>1. j \in 1 .. k /\ i = Len(outbox[s]) + j
        BY <1>2, <1>4, <3>1, <3>4, <3>6
      <4> HIDE DEF j
      <4>2. m = plan.todo[j].msg
        BY <1>4, <3>1, <3>3, <3>4, <4>1
      <4>3. j \in 1 .. Len(plan.todo)
        BY <1>2, <4>1
      <4> QED
        BY <2>1, <4>2, <4>3
    <3> QED
      BY <3>5, <3>6
  <2>2. CASE t # s
    <3>1. outbox'[t] = outbox[t]
      BY <1>1, <2>2 DEF TypeOK
    <3> QED
      BY <1>4, <3>1 DEF Afloat
  <2> QED
    BY <2>1, <2>2
<1>5. ASSUME \E i \in 1 .. Len(hand'[t]) : m = hand'[t][i].msg
      PROVE  Afloat(t, m)
  BY <1>5 DEF Afloat
<1>6. ASSUME \E d \in Peers(t) : \E i \in 1 .. Len(pipe'[<<t, d>>]) :
                m = pipe'[<<t, d>>][i]
      PROVE  Afloat(t, m)
  BY <1>6 DEF Afloat
<1>7. ASSUME NEW d \in Peers(t), NEW i \in 1 .. Len(inbox'[d]),
             inbox'[d][i].from = t, m = inbox'[d][i].msg
      PROVE  Afloat(t, m)
  <2>1. PICK j \in 1 .. Len(inbox[d]) : inbox'[d][i] = inbox[d][j]
    BY DEF InboxKept, Peers
  <2> QED
    BY <1>7, <2>1 DEF Afloat
<1> QED
  BY <1>3, <1>4, <1>5, <1>6, <1>7 DEF Afloat

\* The dispatchers and the readers only hand on, and never to the sender; what
\* clients send is from no node.
LEMMA AfloatHandedOn ==
    ASSUME TypeOK,
           \/ \E s \in Server : Take(s)
           \/ \E p \in Link : Deliver(p[1], p[2]) \/ Read(p[1], p[2])
           \/ \E s \in Server, r \in Request : ClientSend(r, s)
    PROVE  /\ \A t \in Server : \A m : Afloat(t, m)' => Afloat(t, m)
           /\ \A d \in Server : \A i \in 1 .. Len(inbox'[d]) :
                 \/ inbox'[d][i].from # d
                 \/ \E j \in 1 .. Len(inbox[d]) : inbox'[d][i] = inbox[d][j]
<1>1. ASSUME NEW s \in Server, Take(s), NEW t \in Server, NEW m, Afloat(t, m)'
      PROVE  Afloat(t, m)
  <2> DEFINE o == Head(outbox[s])
  <2>1. /\ outbox[s] # <<>> /\ outbox[s] \in Seq(Letter)
        /\ outbox' = [outbox EXCEPT ![s] = Tail(outbox[s])]
        /\ UNCHANGED <<node, task, inbox, pipe, submitted>>
    BY <1>1 DEF Take, TypeOK
  <2>2. PICK order \in SetToSeqs(o.to) :
          hand' = [hand EXCEPT ![s] =
            [i \in DOMAIN order |-> [to |-> {order[i]}, msg |-> o.msg]]]
    BY <1>1 DEF Take
  <2>3. /\ o \in Letter /\ o = outbox[s][1] /\ 1 \in 1 .. Len(outbox[s])
        /\ Len(outbox[s]) \in Nat
        /\ Len(Tail(outbox[s])) = Len(outbox[s]) - 1
        /\ \A i \in 1 .. Len(Tail(outbox[s])) : Tail(outbox[s])[i] = outbox[s][i + 1]
    BY <2>1, HeadTail
  <2> HIDE DEF o
  <2>4. PICK size \in Nat : DOMAIN order = 1 .. size
    BY <2>2, <2>3, CopiesType
  <2>5. ASSUME NEW i \in 1 .. Len(outbox'[t]), m = outbox'[t][i].msg
        PROVE  Afloat(t, m)
    <3>1. CASE t = s
      <4>1. outbox'[t] = Tail(outbox[s])
        BY <2>1, <3>1 DEF TypeOK
      <4>2. i \in 1 .. Len(Tail(outbox[s])) /\ i + 1 \in 1 .. Len(outbox[s])
        BY <2>3, <2>5, <4>1
      <4>3. m = outbox[s][i + 1].msg
        BY <2>3, <2>5, <4>1, <4>2
      <4> QED
        BY <3>1, <4>2, <4>3 DEF Afloat
    <3>2. CASE t # s
      BY <2>1, <2>5, <3>2 DEF Afloat, TypeOK
    <3> QED
      BY <3>1, <3>2
  <2>6. ASSUME NEW i \in 1 .. Len(hand'[t]), m = hand'[t][i].msg
        PROVE  Afloat(t, m)
    <3>1. CASE t = s
      <4> DEFINE Copies == [j \in 1 .. size |-> [to |-> {order[j]}, msg |-> o.msg]]
      <4>1. hand'[t] = Copies
        BY <2>2, <2>4, <3>1 DEF TypeOK
      <4>2. Len(Copies) = size
        BY <2>4
      <4>3. m = o.msg
        BY <2>6, <4>1, <4>2
      <4> QED
        BY <2>3, <3>1, <4>3 DEF Afloat
    <3>2. CASE t # s
      BY <2>2, <2>6, <3>2 DEF Afloat, TypeOK
    <3> QED
      BY <3>1, <3>2
  <2>7. ASSUME ~ \E i \in 1 .. Len(outbox'[t]) : m = outbox'[t][i].msg,
               ~ \E i \in 1 .. Len(hand'[t]) : m = hand'[t][i].msg
        PROVE  Afloat(t, m)
    BY <1>1, <2>1, <2>7 DEF Afloat
  <2> QED
    BY <2>5, <2>6, <2>7
<1>2. ASSUME NEW s \in Server, NEW d \in Server, s # d, Deliver(s, d),
             NEW t \in Server, NEW m, Afloat(t, m)'
      PROVE  Afloat(t, m)
  <2> DEFINE p == <<s, d>>
             e == Head(hand[s])
             T == [to : SUBSET Server, msg : Message]
  <2>1. /\ p \in Link /\ hand[s] # <<>> /\ hand[s] \in Seq(T)
        /\ pipe[p] \in Seq(Message)
        /\ pipe' = [pipe EXCEPT ![p] = Append(pipe[p], e.msg)]
        /\ hand' = [hand EXCEPT ![s] = Tail(hand[s])]
        /\ UNCHANGED <<node, task, inbox, outbox, submitted, answered>>
    BY <1>2 DEF Deliver, TypeOK, Link
  <2>2. /\ e \in T /\ e = hand[s][1] /\ 1 \in 1 .. Len(hand[s])
        /\ Len(hand[s]) \in Nat /\ Len(Tail(hand[s])) = Len(hand[s]) - 1
        /\ \A i \in 1 .. Len(Tail(hand[s])) : Tail(hand[s])[i] = hand[s][i + 1]
    BY <2>1, HeadTail
  <2> HIDE DEF e
  <2>3. /\ Len(Append(pipe[p], e.msg)) = Len(pipe[p]) + 1 /\ Len(pipe[p]) \in Nat
        /\ \A i \in 1 .. Len(pipe[p]) : Append(pipe[p], e.msg)[i] = pipe[p][i]
        /\ Append(pipe[p], e.msg)[Len(pipe[p]) + 1] = e.msg
    BY <2>1, <2>2, Appended
  <2>4. ASSUME NEW i \in 1 .. Len(hand'[t]), m = hand'[t][i].msg
        PROVE  Afloat(t, m)
    <3>1. CASE t = s
      <4>1. hand'[t] = Tail(hand[s])
        BY <2>1, <3>1 DEF TypeOK
      <4>2. i \in 1 .. Len(Tail(hand[s])) /\ i + 1 \in 1 .. Len(hand[s])
        BY <2>2, <2>4, <4>1
      <4>3. m = hand[s][i + 1].msg
        BY <2>2, <2>4, <4>1, <4>2
      <4> QED
        BY <3>1, <4>2, <4>3 DEF Afloat
    <3>2. CASE t # s
      BY <2>1, <2>4, <3>2 DEF Afloat, TypeOK
    <3> QED
      BY <3>1, <3>2
  <2>5. ASSUME NEW b \in Peers(t), NEW i \in 1 .. Len(pipe'[<<t, b>>]),
               m = pipe'[<<t, b>>][i]
        PROVE  Afloat(t, m)
    <3>1. CASE <<t, b>> = p
      <4>1. t = s /\ pipe'[<<t, b>>] = Append(pipe[p], e.msg)
        BY <2>1, <3>1 DEF TypeOK
      <4>2. CASE i = Len(pipe[p]) + 1
        <5>1. m = hand[s][1].msg
          BY <2>2, <2>3, <2>5, <4>1, <4>2
        <5> QED
          BY <2>2, <4>1, <5>1 DEF Afloat
      <4>3. CASE i # Len(pipe[p]) + 1
        <5>1. i \in 1 .. Len(pipe[p])
          BY <2>3, <2>5, <4>1, <4>3
        <5>2. m = pipe[<<t, b>>][i]
          BY <2>3, <2>5, <3>1, <4>1, <5>1
        <5> QED
          BY <3>1, <5>1, <5>2 DEF Afloat
      <4> QED
        BY <4>2, <4>3
    <3>2. CASE <<t, b>> # p
      <4>1. <<t, b>> \in Link
        BY DEF Peers, Link
      <4>2. pipe'[<<t, b>>] = pipe[<<t, b>>]
        BY <2>1, <3>2, <4>1 DEF TypeOK
      <4> QED
        BY <2>5, <4>2 DEF Afloat
    <3> QED
      BY <3>1, <3>2
  <2>6. ASSUME ~ \E i \in 1 .. Len(hand'[t]) : m = hand'[t][i].msg,
               ~ \E b \in Peers(t) : \E i \in 1 .. Len(pipe'[<<t, b>>]) :
                    m = pipe'[<<t, b>>][i]
        PROVE  Afloat(t, m)
    BY <1>2, <2>1, <2>6 DEF Afloat
  <2> QED
    BY <2>4, <2>5, <2>6
<1>3. ASSUME NEW a \in Server, NEW b \in Server, a # b, Read(a, b)
      PROVE  /\ \A t \in Server : \A m : Afloat(t, m)' => Afloat(t, m)
             /\ \A d \in Server : \A i \in 1 .. Len(inbox'[d]) :
                   \/ inbox'[d][i].from # d
                   \/ \E j \in 1 .. Len(inbox[d]) : inbox'[d][i] = inbox[d][j]
  <2> DEFINE p == <<a, b>>
             e == [from |-> a, msg |-> Head(pipe[p])]
  <2>1. /\ p \in Link /\ pipe[p] # <<>> /\ pipe[p] \in Seq(Message)
        /\ inbox[b] \in Seq(Incoming)
        /\ inbox' = [inbox EXCEPT ![b] = Append(inbox[b], e)]
        /\ pipe' = [pipe EXCEPT ![p] = Tail(pipe[p])]
        /\ UNCHANGED <<node, task, outbox, hand, submitted, answered>>
    BY <1>3 DEF Read, TypeOK, Link
  <2>2. /\ Head(pipe[p]) \in Message /\ Head(pipe[p]) = pipe[p][1]
        /\ 1 \in 1 .. Len(pipe[p])
        /\ Len(pipe[p]) \in Nat /\ Len(Tail(pipe[p])) = Len(pipe[p]) - 1
        /\ \A i \in 1 .. Len(Tail(pipe[p])) : Tail(pipe[p])[i] = pipe[p][i + 1]
    BY <2>1, HeadTail
  <2>3. e \in Incoming /\ e.from = a /\ e.msg = pipe[p][1]
    BY <2>2 DEF Incoming
  <2> HIDE DEF e
  <2>4. /\ Len(Append(inbox[b], e)) = Len(inbox[b]) + 1 /\ Len(inbox[b]) \in Nat
        /\ \A i \in 1 .. Len(inbox[b]) : Append(inbox[b], e)[i] = inbox[b][i]
        /\ Append(inbox[b], e)[Len(inbox[b]) + 1] = e
    BY <2>1, <2>3, Appended
  <2>5. ASSUME NEW d \in Server, NEW i \in 1 .. Len(inbox'[d])
        PROVE  \/ d = b /\ inbox'[d][i] = e
               \/ \E j \in 1 .. Len(inbox[d]) : inbox'[d][i] = inbox[d][j]
    <3>1. CASE d = b
      <4>1. inbox'[d] = Append(inbox[b], e)
        BY <2>1, <3>1 DEF TypeOK
      <4>2. i \in 1 .. Len(inbox[b]) \/ i = Len(inbox[b]) + 1
        BY <2>4, <2>5, <4>1
      <4> QED
        BY <2>4, <3>1, <4>1, <4>2
    <3>2. CASE d # b
      BY <2>1, <3>2 DEF TypeOK
    <3> QED
      BY <3>1, <3>2
  <2>6. ASSUME NEW t \in Server, NEW m, Afloat(t, m)'
        PROVE  Afloat(t, m)
    <3>1. ASSUME NEW d \in Peers(t), NEW i \in 1 .. Len(pipe'[<<t, d>>]),
                 m = pipe'[<<t, d>>][i]
          PROVE  Afloat(t, m)
      <4>1. CASE <<t, d>> = p
        <5>1. pipe'[<<t, d>>] = Tail(pipe[p])
          BY <2>1, <4>1 DEF TypeOK
        <5>2. i \in 1 .. Len(Tail(pipe[p])) /\ i + 1 \in 1 .. Len(pipe[p])
          BY <2>2, <3>1, <5>1
        <5>3. m = pipe[<<t, d>>][i + 1]
          BY <2>2, <3>1, <4>1, <5>1, <5>2
        <5> QED
          BY <4>1, <5>2, <5>3 DEF Afloat
      <4>2. CASE <<t, d>> # p
        <5>1. <<t, d>> \in Link
          BY DEF Peers, Link
        <5>2. pipe'[<<t, d>>] = pipe[<<t, d>>]
          BY <2>1, <4>2, <5>1 DEF TypeOK
        <5> QED
          BY <3>1, <5>2 DEF Afloat
      <4> QED
        BY <4>1, <4>2
    <3>2. ASSUME NEW d \in Peers(t), NEW i \in 1 .. Len(inbox'[d]),
                 inbox'[d][i].from = t, m = inbox'[d][i].msg
          PROVE  Afloat(t, m)
      <4>1. CASE \E j \in 1 .. Len(inbox[d]) : inbox'[d][i] = inbox[d][j]
        BY <3>2, <4>1 DEF Afloat
      <4>2. CASE d = b /\ inbox'[d][i] = e
        <5>1. t = a /\ m = pipe[<<t, d>>][1] /\ 1 \in 1 .. Len(pipe[<<t, d>>])
          BY <2>2, <2>3, <3>2, <4>2
        <5> QED
          BY <5>1 DEF Afloat
      <4> QED
        BY <2>5, <4>1, <4>2 DEF Peers
    <3>3. ASSUME ~ \E d \in Peers(t) : \E i \in 1 .. Len(pipe'[<<t, d>>]) :
                      m = pipe'[<<t, d>>][i],
                 ~ \E d \in Peers(t) : \E i \in 1 .. Len(inbox'[d]) :
                      inbox'[d][i].from = t /\ m = inbox'[d][i].msg
          PROVE  Afloat(t, m)
      BY <2>1, <2>6, <3>3 DEF Afloat
    <3> QED
      BY <3>1, <3>2, <3>3
  <2>7. ASSUME NEW d \in Server, NEW i \in 1 .. Len(inbox'[d])
        PROVE  \/ inbox'[d][i].from # d
               \/ \E j \in 1 .. Len(inbox[d]) : inbox'[d][i] = inbox[d][j]
    BY <1>3, <2>3, <2>5
  <2> QED
    BY <2>6, <2>7
<1>4. ASSUME \/ \E s \in Server : Take(s)
             \/ \E s, d : Deliver(s, d)
      PROVE  inbox' = inbox
  BY <1>4 DEF Take, Deliver
<1>5. \A p \in Link : /\ p[1] \in Server /\ p[2] \in Server /\ p[1] # p[2]
  BY DEF Link
<1>6. CASE \E s \in Server : Take(s)
  BY <1>1, <1>4, <1>6
<1>7. CASE \E p \in Link : Deliver(p[1], p[2])
  BY <1>2, <1>4, <1>5, <1>7
<1>8. CASE \E p \in Link : Read(p[1], p[2])
  BY <1>3, <1>5, <1>8
<1>9. CASE \E s \in Server, r \in Request : ClientSend(r, s)
  <2>1. PICK b \in Server, r \in Request : ClientSend(r, b)
    BY <1>9
  <2> DEFINE e == ClientRequest(r)
  <2>2. /\ inbox[b] \in Seq(Incoming)
        /\ inbox' = [inbox EXCEPT ![b] = Append(inbox[b], e)]
        /\ UNCHANGED <<node, task, outbox, hand, pipe, submitted, answered>>
    BY <2>1 DEF ClientSend, TypeOK
  <2>3. e \in Incoming /\ e.from \notin Server
    BY NoneAssumption DEF ClientRequest, Incoming
  <2> HIDE DEF e
  <2>4. /\ Len(Append(inbox[b], e)) = Len(inbox[b]) + 1 /\ Len(inbox[b]) \in Nat
        /\ \A i \in 1 .. Len(inbox[b]) : Append(inbox[b], e)[i] = inbox[b][i]
        /\ Append(inbox[b], e)[Len(inbox[b]) + 1] = e
    BY <2>2, <2>3, Appended
  <2>5. ASSUME NEW d \in Server, NEW i \in 1 .. Len(inbox'[d])
        PROVE  \/ inbox'[d][i].from \notin Server
               \/ \E j \in 1 .. Len(inbox[d]) : inbox'[d][i] = inbox[d][j]
    <3>1. CASE d = b
      <4>1. inbox'[d] = Append(inbox[b], e)
        BY <2>2, <3>1 DEF TypeOK
      <4>2. i \in 1 .. Len(inbox[b]) \/ i = Len(inbox[b]) + 1
        BY <2>4, <2>5, <4>1
      <4> QED
        BY <2>3, <2>4, <3>1, <4>1, <4>2
    <3>2. CASE d # b
      BY <2>2, <3>2 DEF TypeOK
    <3> QED
      BY <3>1, <3>2
  <2>6. ASSUME NEW t \in Server, NEW m, Afloat(t, m)'
        PROVE  Afloat(t, m)
    <3>1. ASSUME NEW d \in Peers(t), NEW i \in 1 .. Len(inbox'[d]),
                 inbox'[d][i].from = t, m = inbox'[d][i].msg
          PROVE  Afloat(t, m)
      <4>1. PICK j \in 1 .. Len(inbox[d]) : inbox'[d][i] = inbox[d][j]
        BY <2>5, <3>1 DEF Peers
      <4> QED
        BY <3>1, <4>1 DEF Afloat
    <3>2. ASSUME ~ \E d \in Peers(t) : \E i \in 1 .. Len(inbox'[d]) :
                      inbox'[d][i].from = t /\ m = inbox'[d][i].msg
          PROVE  Afloat(t, m)
      BY <2>2, <2>6, <3>2 DEF Afloat
    <3> QED
      BY <3>1, <3>2
  <2> QED
    BY <2>5, <2>6
<1> QED
  BY <1>6, <1>7, <1>8, <1>9

-----------------------------------------------------------------------------
(* Steps of the server tasks                                               *)

LEMMA RestSound ==
    ASSUME NEW plan, Typed(plan), NEW k \in 0 .. Len(plan.todo)
    PROVE  /\ ChiefPlan(plan) => ChiefPlan(Rest(plan, k))
           /\ \A c : FollowerPlan(plan, c) => FollowerPlan(Rest(plan, k), c)
<1> DEFINE rest == Rest(plan, k)
<1>1. /\ Len(plan.todo) \in Nat /\ k \in Nat
      /\ Len(rest.todo) = Len(plan.todo) - k /\ rest.now = Stage(plan, k)
      /\ \A i \in 0 .. Len(rest.todo) :
           /\ k + i \in 0 .. Len(plan.todo) /\ Stage(rest, i) = Stage(plan, k + i)
  <2>1. plan.todo \in Seq(Pending)
    BY DEF Typed
  <2>2. Len(plan.todo) \in Nat /\ k \in Nat
    BY <2>1
  <2> QED
    BY <2>2, RestStages, Zenon
<1> HIDE DEF rest
<1>2. ASSUME Onward(plan) PROVE Onward(rest)
  <2> SUFFICES ASSUME NEW i \in 0 .. Len(rest.todo), NEW j \in i .. Len(rest.todo)
               PROVE  Forward(Stage(rest, i), Stage(rest, j))
    BY DEF Onward
  <2>1. j \in 0 .. Len(rest.todo)
    BY <1>1
  <2>2. k + i \in 0 .. Len(plan.todo) /\ k + j \in (k + i) .. Len(plan.todo)
    BY <1>1, <2>1
  <2>3. Forward(Stage(plan, k + i), Stage(plan, k + j))
    BY <1>2, <2>2 DEF Onward
  <2> QED
    BY <1>1, <2>1, <2>3
<1>3. ASSUME ChiefPlan(plan) PROVE ChiefPlan(rest)
  <2>1. /\ Stage(plan, k).role = plan.now.role /\ Stage(plan, k).log = plan.now.log
        /\ Stage(plan, k).current_term = plan.now.current_term
    BY <1>3 DEF ChiefPlan
  <2> QED
    BY <1>1, <1>2, <1>3, <2>1 DEF ChiefPlan
<1>4. ASSUME NEW c, FollowerPlan(plan, c) PROVE FollowerPlan(rest, c)
  BY <1>1, <1>2, <1>4 DEF FollowerPlan
<1> QED
  BY <1>3, <1>4 DEF rest

\* A follower goes on with a plan under a leader that moves forward.
LEMMA PlanKept ==
    ASSUME NEW c \in NodeState, NEW n \in NodeState, ChiefForward(c, n),
           Consistent(c), NEW plan, Typed(plan), FollowerPlan(plan, c)
    PROVE  FollowerPlan(plan, n)
<1>1. \A i \in 0 .. Len(plan.todo) : Stage(plan, i) \in NodeState
  BY StageType
<1> QED
  BY <1>1, ChiefForwardKeeps DEF FollowerPlan

LEMMA CoursesAfterGo ==
    ASSUME TypeOK, NEW s \in Server, NEW plan, Typed(plan), Go(s, plan)
    PROVE  \E k \in 0 .. Len(plan.todo) :
              /\ node' = [node EXCEPT ![s] = Stage(plan, k)]
              /\ Stage(plan, k) \in NodeState
              /\ Course(s)' = Rest(plan, k)
              /\ \A t \in Server \ {s} : Course(t)' = Course(t)
<1>1. \E k \in 0 .. Len(plan.todo) :
        /\ Len(outbox[s]) + k <= Channel
        /\ node' = [node EXCEPT ![s] = Stage(plan, k)]
        /\ outbox' = [outbox EXCEPT ![s] = outbox[s] \o Letters(plan, k)]
        /\ task' = [task EXCEPT ![s] = Rest(plan, k).todo]
  BY GoTakesPlan
<1>2. PICK k \in 0 .. Len(plan.todo) :
        /\ node' = [node EXCEPT ![s] = Stage(plan, k)]
        /\ task' = [task EXCEPT ![s] = Rest(plan, k).todo]
  BY <1>1, Zenon
<1>3. Rest(plan, k) = Plan(Stage(plan, k), Rest(plan, k).todo)
  BY DEF Rest, Plan
<1>4. node'[s] = Stage(plan, k) /\ task'[s] = Rest(plan, k).todo
  BY <1>2 DEF TypeOK
<1>5. Course(s)' = Rest(plan, k)
  BY <1>3, <1>4 DEF Course
<1>6. \A t \in Server \ {s} : Course(t)' = Course(t)
  BY <1>2 DEF TypeOK, Course
<1> QED
  BY <1>2, <1>5, <1>6, StageType

FollowerStep(s) ==
    /\ s # Chief
    /\ \E n \in NodeState : /\ node' = [node EXCEPT ![s] = n]
                            /\ FollowerSound(n, node[Chief]) /\ Forward(node[s], n)

ChiefStep ==
    \E n \in NodeState :
        /\ node' = [node EXCEPT ![Chief] = n]
        /\ ChiefSound(n) /\ ChiefForward(node[Chief], n)
        /\ n.log = node[Chief].log \/ Pushes(node[Chief], n)

LEMMA FollowerGoes ==
    ASSUME TypeOK, TasksLast, OneHistory, Chief \in Server,
           NEW s \in Server \ {Chief}, NEW plan, Typed(plan),
           FollowerPlan(plan, node[Chief]), Forward(node[s], plan.now),
           \A j \in 1 .. Len(plan.todo) :
              LetterSound(plan.todo[j].msg, s, plan.now.log, node[Chief]),
           Go(s, plan), InboxKept, UNCHANGED <<hand, pipe, answered>>
    PROVE  OneHistory' /\ FollowerStep(s)
<1> DEFINE c == node[Chief]
<1>1. PICK k \in 0 .. Len(plan.todo) :
        /\ node' = [node EXCEPT ![s] = Stage(plan, k)]
        /\ Stage(plan, k) \in NodeState
        /\ Course(s)' = Rest(plan, k)
        /\ \A t \in Server \ {s} : Course(t)' = Course(t)
  BY CoursesAfterGo
<1>2. /\ c \in NodeState /\ node[s] \in NodeState /\ plan.now \in NodeState
      /\ node'[Chief] = c /\ node'[s] = Stage(plan, k)
      /\ \A t \in Server \ {s} : node'[t] = node[t]
  BY <1>1 DEF TypeOK, Typed
<1>3. /\ FollowerSound(Stage(plan, k), c) /\ Forward(plan.now, Stage(plan, k))
  <2>1. /\ 0 \in 0 .. Len(plan.todo) /\ k \in 0 .. Len(plan.todo)
        /\ Stage(plan, 0) = plan.now
    BY DEF Typed, Stage
  <2> QED
    BY <2>1 DEF FollowerPlan, Onward
<1>4. Forward(node[s], Stage(plan, k))
  BY <1>1, <1>2, <1>3, ForwardOn
<1>5. FollowerStep(s)
  BY <1>1, <1>3, <1>4 DEF FollowerStep
<1>6. ChiefPlan(Course(Chief)') /\ node'[Chief].current_term <= MaxTerm
  BY <1>1, <1>2 DEF OneHistory
<1>7. \A t \in Server \ {Chief} : FollowerPlan(Course(t)', c)
  BY <1>1, RestSound DEF OneHistory
<1>8. \A d \in Server : \A i \in 1 .. Len(inbox'[d]) : inbox'[d][i].from # d
  BY DEF InboxKept, OneHistory
<1>9. ASSUME NEW t \in Server, NEW m, Afloat(t, m)'
      PROVE  LetterSound(m, t, node'[t].log, c)
  <2>1. CASE Afloat(t, m)
    <3>1. LetterSound(m, t, node[t].log, c) /\ m \in Message \union Answer
      BY <2>1, AfloatType DEF OneHistory
    <3>2. /\ node[t].log \in Seq(Entry) /\ node'[t].log \in Seq(Entry)
          /\ Len(node'[t].log) >= Len(node[t].log)
      <4>1. node[t] \in NodeState /\ node'[t] \in NodeState
        BY <1>1, <1>2 DEF TypeOK
      <4>2. node'[t] = node[t] \/ Forward(node[t], node'[t])
        BY <1>2, <1>4
      <4> QED
        BY <4>1, <4>2, NumbersOf DEF Forward
    <3>3. ChiefForward(c, c) /\ Consistent(c)
      <4>1. ChiefSound(Stage(Course(Chief), 0)) /\ Stage(Course(Chief), 0) = c
        <5>1. Typed(Course(Chief)) /\ Stage(Course(Chief), 0) = c
          BY CourseType
        <5>2. 0 \in 0 .. Len(Course(Chief).todo)
          BY <5>1 DEF Typed
        <5> QED
          BY <5>1, <5>2 DEF OneHistory, ChiefPlan
      <4> QED
        BY <1>2, <4>1, ChiefForwardStays DEF ChiefSound
    <3> HIDE DEF c
    <3> QED
      BY <1>2, <3>1, <3>2, <3>3, LetterKept
  <2>2. CASE t = s /\ \E j \in 1 .. Len(plan.todo) : m = plan.todo[j].msg
    <3>1. PICK j \in 1 .. Len(plan.todo) : m = plan.todo[j].msg
      BY <2>2
    <3>2. LetterSound(m, s, plan.now.log, c)
      BY <3>1
    <3>3. /\ plan.now.log \in Seq(Entry) /\ Stage(plan, k).log \in Seq(Entry)
          /\ Len(Stage(plan, k).log) >= Len(plan.now.log)
      BY <1>1, <1>2, <1>3, NumbersOf DEF Forward
    <3>4. LetterSound(m, s, Stage(plan, k).log, c)
      BY <3>2, <3>3, SoundKept DEF LetterSound
    <3> QED
      BY <1>2, <2>2, <3>4
  <2> QED
    BY <1>9, <2>1, <2>2, AfloatGo
<1>10. \A a \in answered' : HasApplied(c, a)
  BY DEF OneHistory
<1> HIDE DEF c
<1> QED
  BY <1>2, <1>5, <1>6, <1>7, <1>8, <1>9, <1>10 DEF OneHistory

LEMMA ChiefNode ==
    ASSUME TypeOK, TasksLast, OneHistory, Chief \in Server
    PROVE  /\ node[Chief] \in NodeState /\ ChiefSound(node[Chief])
           /\ Typed(Course(Chief)) /\ Consistent(node[Chief])
<1>1. /\ Typed(Course(Chief)) /\ Stage(Course(Chief), 0) = node[Chief]
      /\ node[Chief] \in NodeState
  BY CourseType
<1>2. 0 \in 0 .. Len(Course(Chief).todo)
  BY <1>1 DEF Typed
<1> QED
  BY <1>1, <1>2 DEF OneHistory, ChiefPlan, ChiefSound

LEMMA ChiefGoes ==
    ASSUME TypeOK, TasksLast, OneHistory, Chief \in Server,
           NEW plan, Typed(plan), ChiefPlan(plan),
           ChiefForward(node[Chief], plan.now), plan.now.current_term <= MaxTerm,
           \A i \in 0 .. Len(plan.todo) :
              \/ Stage(plan, i).log = node[Chief].log
              \/ Pushes(node[Chief], Stage(plan, i)),
           \A j \in 1 .. Len(plan.todo) :
              LetterSound(plan.todo[j].msg, Chief, plan.now.log, plan.now),
           Go(Chief, plan), InboxKept, UNCHANGED <<hand, pipe, answered>>
    PROVE  OneHistory' /\ ChiefStep
<1> DEFINE c == node[Chief]
           now == plan.now
<1>1. PICK k \in 0 .. Len(plan.todo) :
        /\ node' = [node EXCEPT ![Chief] = Stage(plan, k)]
        /\ Stage(plan, k) \in NodeState
        /\ Course(Chief)' = Rest(plan, k)
        /\ \A t \in Server \ {Chief} : Course(t)' = Course(t)
  BY CoursesAfterGo
<1> DEFINE n == Stage(plan, k)
<1>2. /\ c \in NodeState /\ ChiefSound(c) /\ Consistent(c) /\ now \in NodeState
      /\ node'[Chief] = n /\ \A t \in Server \ {Chief} : node'[t] = node[t]
  BY <1>1, ChiefNode DEF TypeOK, Typed
<1>3. /\ ChiefSound(n) /\ ChiefSound(now) /\ Forward(now, n) /\ n.role = now.role
      /\ n.log = now.log /\ n.current_term = now.current_term
  <2>1. /\ 0 \in 0 .. Len(plan.todo) /\ k \in 0 .. Len(plan.todo)
        /\ Stage(plan, 0) = now
    BY DEF Typed, Stage
  <2> QED
    BY <2>1 DEF ChiefPlan, Onward
<1>4. ChiefForward(now, n)
  BY <1>1, <1>2, <1>3, ChiefForwardSame
<1>5. ChiefForward(c, n)
  BY <1>1, <1>2, <1>4, ChiefForwardOn
<1>6. n \in NodeState /\ Consistent(now)
  BY <1>1, <1>3 DEF ChiefSound
<1>7. ChiefStep
  <2>1. n.log = c.log \/ Pushes(c, n)
    OBVIOUS
  <2> QED
    BY <1>1, <1>3, <1>5, <1>6, <2>1 DEF ChiefStep
<1>8. ChiefPlan(Course(Chief)') /\ n.current_term <= MaxTerm
  BY <1>1, <1>3, RestSound
<1>9. ASSUME NEW t \in Server \ {Chief}
      PROVE  FollowerPlan(Course(t)', n)
  <2>1. Typed(Course(t)) /\ FollowerPlan(Course(t), c)
    BY CourseType DEF OneHistory
  <2> HIDE DEF c, n
  <2>2. FollowerPlan(Course(t), n)
    BY <1>2, <1>5, <1>6, <2>1, PlanKept
  <2> QED
    BY <1>1, <2>2
<1>10. \A d \in Server : \A i \in 1 .. Len(inbox'[d]) : inbox'[d][i].from # d
  BY DEF InboxKept, OneHistory
<1>11. ASSUME NEW t \in Server, NEW m, Afloat(t, m)'
       PROVE  LetterSound(m, t, node'[t].log, n)
  <2>1. CASE Afloat(t, m)
    <3>1. LetterSound(m, t, node[t].log, c) /\ m \in Message \union Answer
      BY <2>1, AfloatType DEF OneHistory
    <3>2. /\ node[t].log \in Seq(Entry) /\ node'[t].log \in Seq(Entry)
          /\ Len(node'[t].log) >= Len(node[t].log)
      <4>1. node[t] \in NodeState /\ node'[t] \in NodeState
        BY <1>1, <1>2 DEF TypeOK
      <4>2. node'[t] = node[t] \/ Forward(node[t], node'[t])
        BY <1>2, <1>5 DEF ChiefForward
      <4> QED
        BY <4>1, <4>2, NumbersOf DEF Forward
    <3> HIDE DEF c, n
    <3> QED
      BY <1>2, <1>5, <1>6, <3>1, <3>2, LetterKept
  <2>2. CASE t = Chief /\ \E j \in 1 .. Len(plan.todo) : m = plan.todo[j].msg
    <3>1. PICK j \in 1 .. Len(plan.todo) : m = plan.todo[j].msg
      BY <2>2
    <3>2. LetterSound(m, Chief, now.log, now)
      BY <3>1
    <3>3. m \in Message \union Answer
      BY <3>1, MemberType DEF Typed, Pending
    <3>4. /\ now.log \in Seq(Entry) /\ n.log \in Seq(Entry)
          /\ Len(n.log) >= Len(now.log)
      BY <1>2, <1>3, NumbersOf
    <3> HIDE DEF now, n
    <3>5. LetterSound(m, Chief, n.log, n)
      BY <1>2, <1>4, <1>6, <3>2, <3>3, <3>4, LetterKept
    <3> QED
      BY <1>2, <2>2, <3>5
  <2> QED
    BY <1>11, <2>1, <2>2, AfloatGo
<1>12. \A a \in answered' : HasApplied(n, a)
  <2>1. \A a \in answered' : HasApplied(c, a)
    BY DEF OneHistory
  <2> HIDE DEF c, n
  <2> QED
    BY <1>2, <1>5, <1>6, <2>1, ChiefForwardKeeps
<1> HIDE DEF c, n
<1> QED
  BY <1>2, <1>7, <1>8, <1>9, <1>10, <1>11, <1>12 DEF OneHistory

\* The leader ignores a client before it is elected, and goes round.
LEMMA ChiefIgnores ==
    ASSUME NEW c \in NodeState, ChiefSound(c), Chief \in Server
    PROVE  LET plan == Around(Chief, Done(c))
           IN  /\ Typed(plan) /\ ChiefPlan(plan) /\ ChiefForward(c, plan.now)
               /\ plan.now.log = c.log
               /\ plan.now.current_term = c.current_term
               /\ \A j \in 1 .. Len(plan.todo) :
                     LetterSound(plan.todo[j].msg, Chief, plan.now.log, plan.now)
<1> DEFINE plan == Around(Chief, Done(c))
<1>1. Typed(Done(c)) /\ Typed(plan)
  BY DoneType, AroundType
<1>2. CASE c.role = "Follower"
  <2> DEFINE k == Resume(c)
  <2>1. /\ k \in NodeState /\ k.log = c.log /\ SameOffice(c, k) /\ Consistent(k)
        /\ k.commit_index = c.commit_index
        /\ k.last_applied >= c.last_applied
    BY ResumeAdvances DEF ChiefSound
  <2> HIDE DEF k
  <2>2. ChiefSound(k)
    BY <2>1, ChiefKept DEF SameOffice, ChiefSound, IndicesInside
  <2>3. ChiefForward(c, k)
    <3>1. Forward(c, k)
      BY <2>1, NumbersOf DEF Forward
    <3> QED
      BY <1>2, <2>1, <3>1, ChiefForwardSame DEF SameOffice
  <2>4. Done(c) = Plan(k, <<>>)
    BY DEF Done, k
  <2>5. Around(Chief, Plan(k, <<>>)) = Plan(k, <<>>)
    BY <1>2, <2>1 DEF Around, Plan, SameOffice
  <2>6. ChiefPlan(Plan(k, <<>>))
    BY <2>1, <2>2, ForwardStays, ChiefShort
  <2>7. plan = Plan(k, <<>>)
    BY <2>4, <2>5, Zenon
  <2>8. plan.now = k /\ Len(plan.todo) = 0
    BY <2>7 DEF Plan
  <2> HIDE DEF plan
  <2> QED
    BY <1>1, <2>1, <2>3, <2>6, <2>7, <2>8 DEF plan, SameOffice
<1>3. CASE c.role # "Follower"
  <2>1. ChiefDoes(c, Done(c))
    BY <1>3, ForwardStays, ChiefDoesDone
  <2>2. ChiefDoes(c, plan)
    BY <1>1, <2>1, ChiefAround
  <2>3. plan.now \in NodeState
    BY <1>1 DEF Typed
  <2> HIDE DEF plan
  <2>4. ChiefForward(c, plan.now)
    BY <2>2, <2>3, ChiefForwardSame DEF ChiefDoes
  <2> QED
    BY <1>1, <2>2, <2>4 DEF ChiefDoes, plan
<1> QED
  BY <1>2, <1>3

LEMMA IgnoreClientGoes ==
    ASSUME TypeOK, TasksLast, OneHistory, Chief \in Server, NEW s \in Server,
           IgnoreClient(s)
    PROVE  OneHistory' /\ (FollowerStep(s) \/ ChiefStep)
<1> DEFINE c == node[Chief]
           plan == Around(s, Done(node[s]))
<1>1. /\ Go(s, plan) /\ InboxKept /\ UNCHANGED <<hand, pipe, answered>>
      /\ node[s] \in NodeState
  BY TakesLetter DEF IgnoreClient, TypeOK
<1>2. c \in NodeState /\ ChiefSound(c) /\ c.current_term <= MaxTerm
  BY ChiefNode DEF OneHistory
<1>3. CASE s # Chief
  <2> DEFINE first == Done(node[s])
  <2>1. FollowerSound(node[s], c)
    <3>1. Typed(Course(s)) /\ Stage(Course(s), 0) = node[s]
      BY CourseType
    <3>2. 0 \in 0 .. Len(Course(s).todo)
      BY <3>1 DEF Typed
    <3> QED
      BY <1>3, <3>1, <3>2 DEF OneHistory, FollowerPlan
  <2>2. /\ Typed(first) /\ FollowerPlan(first, c) /\ Forward(node[s], first.now)
        /\ Len(first.todo) = 0
    BY <1>1, <1>2, <2>1, DoneType, FollowerShort
  <2>3. plan = first
    BY <2>2, FollowerAround
  <2> HIDE DEF plan, c, first
  <2> QED
    BY <1>1, <1>3, <2>2, <2>3, FollowerGoes DEF c
<1>4. CASE s = Chief
  <2>1. /\ Typed(plan) /\ ChiefPlan(plan) /\ ChiefForward(c, plan.now)
        /\ plan.now.log = c.log /\ plan.now.current_term = c.current_term
        /\ \A j \in 1 .. Len(plan.todo) :
              LetterSound(plan.todo[j].msg, Chief, plan.now.log, plan.now)
    <3>1. plan = Around(Chief, Done(c))
      BY <1>4
    <3> HIDE DEF plan, c
    <3> QED
      BY <1>2, <3>1, ChiefIgnores
  <2> HIDE DEF plan
  <2>2. /\ plan.now.current_term <= MaxTerm
        /\ \A j \in 0 .. Len(plan.todo) : Stage(plan, j).log = c.log
    BY <1>2, <2>1 DEF ChiefPlan
  <2> QED
    BY <1>1, <1>4, <2>1, <2>2, ChiefGoes
<1> QED
  BY <1>3, <1>4

LEMMA HandleMessageGoes ==
    ASSUME TypeOK, TasksLast, OneHistory, Chief \in Server, NEW s \in Server,
           HandleMessage(s)
    PROVE  OneHistory' /\ (FollowerStep(s) \/ ChiefStep)
<1> DEFINE i == Head(inbox[s])
           T == [from : Server, msg : Message]
           c == node[Chief]
           plan == Around(s, On(s, node[s], i))
<1>1. /\ i \in T /\ node[s] \in NodeState /\ node[s].role # "Dead"
      /\ Typed(On(s, node[s], i)) /\ Typed(plan)
  BY HandleMessagePlan
<1>2. /\ inbox[s] # <<>> /\ inbox' = [inbox EXCEPT ![s] = Tail(@)]
  BY DEF HandleMessage
<1>3. /\ Go(s, plan) /\ UNCHANGED <<hand, pipe, answered>>
  BY DEF HandleMessage
<1>4. i = inbox[s][1] /\ 1 \in 1 .. Len(inbox[s]) /\ InboxKept
  BY <1>2, TakesLetter
<1> DEFINE f == node[i.from]
<1>5. /\ i.from \in Server /\ i.from # s
      /\ LetterSound(i.msg, i.from, f.log, c)
  <2>1. i.from \in Server /\ i.from # s
    BY <1>1, <1>4 DEF OneHistory
  <2>2. Afloat(i.from, i.msg)
    BY <1>4, <2>1 DEF Afloat, Peers
  <2> QED
    BY <2>1, <2>2 DEF OneHistory
<1>6. c \in NodeState /\ ChiefSound(c)
  BY ChiefNode
<1>7. ASSUME NEW t \in Server \ {Chief}
      PROVE  node[t] \in NodeState /\ FollowerSound(node[t], c)
  <2>1. /\ Typed(Course(t)) /\ Stage(Course(t), 0) = node[t]
        /\ node[t] \in NodeState
    BY CourseType
  <2>2. 0 \in 0 .. Len(Course(t).todo)
    BY <2>1 DEF Typed
  <2> QED
    BY <2>1, <2>2 DEF OneHistory, FollowerPlan
<1> HIDE DEF i, f, T
<1>8. CASE s # Chief
  <2>1. node[s].role = "Follower" /\ FollowerSound(node[s], c)
    BY <1>1, <1>7, <1>8 DEF FollowerSound
  <2> DEFINE first == On(s, node[s], i)
  <2>2. /\ FollowerPlan(first, c) /\ Forward(node[s], first.now)
        /\ \A j \in 1 .. Len(first.todo) :
              LetterSound(first.todo[j].msg, s, first.now.log, c)
    BY <1>1, <1>5, <1>6, <2>1, FollowerOn DEF T
  <2>3. plan = first
    BY <1>1, <2>2, FollowerAround
  <2> HIDE DEF plan, c, first
  <2> QED
    BY <1>1, <1>3, <1>4, <1>8, <2>2, <2>3, FollowerGoes DEF c
<1>9. CASE s = Chief
  <2>1. f \in NodeState /\ FollowerSound(f, c)
    BY <1>5, <1>7, <1>9 DEF f
  <2>2. ChiefDoes(c, On(Chief, c, i))
    <3> HIDE DEF c
    <3> QED
      BY <1>1, <1>5, <1>6, <1>9, <2>1, ChiefOn DEF T
  <2>3. ChiefDoes(c, plan) /\ Typed(plan)
    BY <1>1, <1>6, <1>9, <2>2, ChiefAround
  <2>4. plan.now \in NodeState
    BY <2>3 DEF Typed
  <2> HIDE DEF plan
  <2>5. ChiefForward(c, plan.now)
    BY <1>6, <2>3, <2>4, ChiefForwardSame DEF ChiefDoes
  <2>6. /\ ChiefPlan(plan) /\ plan.now.current_term <= MaxTerm
        /\ \A j \in 0 .. Len(plan.todo) : Stage(plan, j).log = c.log
        /\ \A j \in 1 .. Len(plan.todo) :
              LetterSound(plan.todo[j].msg, Chief, plan.now.log, plan.now)
    BY <2>3 DEF ChiefDoes, ChiefPlan, OneHistory
  <2> QED
    BY <1>3, <1>4, <1>9, <2>3, <2>5, <2>6, ChiefGoes
<1> QED
  BY <1>8, <1>9

LEMMA ProceedGoes ==
    ASSUME TypeOK, TasksLast, OneHistory, Chief \in Server, NEW s \in Server,
           Proceed(s)
    PROVE  OneHistory' /\ (FollowerStep(s) \/ ChiefStep)
<1> DEFINE plan == Course(s)
<1>1. /\ Go(s, plan) /\ InboxKept /\ UNCHANGED <<hand, pipe, answered>>
  BY DEF Proceed, Course, InboxKept
<1>2. /\ Typed(plan) /\ plan.now = node[s] /\ plan.todo = task[s]
      /\ node[s] \in NodeState
  BY CourseType
<1>3. \A j \in 1 .. Len(plan.todo) :
         LetterSound(plan.todo[j].msg, s, plan.now.log, node[Chief])
  BY <1>2 DEF OneHistory, Afloat
<1> HIDE DEF plan
<1>4. CASE s # Chief
  <2>1. FollowerPlan(plan, node[Chief])
    BY <1>4 DEF OneHistory, plan
  <2>2. Forward(node[s], plan.now)
    BY <1>2, ForwardStays
  <2> QED
    BY <1>1, <1>2, <1>3, <1>4, <2>1, <2>2, FollowerGoes
<1>5. CASE s = Chief
  <2>1. /\ ChiefPlan(plan) /\ plan.now.current_term <= MaxTerm
        /\ \A j \in 0 .. Len(plan.todo) : Stage(plan, j).log = node[Chief].log
    BY <1>2, <1>5 DEF OneHistory, ChiefPlan, plan
  <2>2. ChiefForward(node[Chief], plan.now)
    BY <1>2, <1>5, ChiefForwardStays
  <2> QED
    BY <1>1, <1>2, <1>3, <1>5, <2>1, <2>2, ChiefGoes
<1> QED
  BY <1>4, <1>5

\* With one electable node no other timer does anything.
LEMMA TimeoutGoes ==
    ASSUME Electable = {Chief}, TypeOK, TasksLast, OneHistory, Chief \in Server,
           NEW s \in Server, Timeout(s)
    PROVE  OneHistory' /\ s = Chief /\ ChiefStep
<1> DEFINE c == node[Chief]
           plan == OnTimer(Chief, c)
<1>1. node[s] \in NodeState /\ node[s].role # "Dead"
  BY Alive DEF Timeout, Expires, TypeOK
<1>2. s = Chief
  <2> SUFFICES ASSUME s # Chief PROVE FALSE
    OBVIOUS
  <2>1. /\ Typed(Course(s)) /\ Stage(Course(s), 0) = node[s]
    BY CourseType
  <2>2. 0 \in 0 .. Len(Course(s).todo)
    BY <2>1 DEF Typed
  <2>3. node[s].role = "Follower"
    BY <1>1, <2>1, <2>2 DEF OneHistory, FollowerPlan, FollowerSound
  <2> QED
    BY <2>3 DEF Timeout
<1>3. /\ Go(Chief, plan) /\ InboxKept /\ UNCHANGED <<hand, pipe, answered>>
      /\ c.role = "Follower" => c.current_term < MaxTerm
  BY <1>2 DEF Timeout, InboxKept
<1>4. /\ c \in NodeState /\ ChiefSound(c) /\ c.role # "Dead"
      /\ c.current_term <= MaxTerm /\ c.current_term \in Nat /\ MaxTerm \in Nat
  BY <1>1, <1>2, ChiefNode, NumbersOf, ElectionAssumption DEF OneHistory
<1> HIDE DEF c
<1>5. Typed(plan)
  BY <1>4, OnTimerType
<1>6. /\ ChiefPlan(plan) /\ ChiefForward(c, plan.now)
      /\ plan.now.log = c.log
      /\ plan.now.current_term = IF c.role = "Follower" THEN c.current_term + 1
                                                         ELSE c.current_term
      /\ \A j \in 1 .. Len(plan.todo) :
            LetterSound(plan.todo[j].msg, Chief, plan.now.log, plan.now)
  BY <1>4, ChiefTimer
<1> HIDE DEF plan
<1>7. plan.now.current_term <= MaxTerm
  BY <1>3, <1>4, <1>6
<1>8. \A j \in 0 .. Len(plan.todo) : Stage(plan, j).log = c.log
  BY <1>6 DEF ChiefPlan
<1> QED
  BY <1>2, <1>3, <1>5, <1>6, <1>7, <1>8, ChiefGoes DEF c

LEMMA ClientSetGoes ==
    ASSUME TypeOK, TasksLast, OneHistory, Chief \in Server, NEW s \in Server,
           ClientSet(s)
    PROVE  OneHistory' /\ s = Chief /\ ChiefStep
<1> DEFINE c == node[Chief]
           r == Head(inbox[s]).msg.request
           n == [c EXCEPT !.log = Append(@, NewEntry(c, r))]
<1>1. s = Chief /\ c.role = "Leader"
  <2> SUFFICES ASSUME s # Chief PROVE FALSE
    BY DEF ClientSet
  <2>1. /\ Typed(Course(s)) /\ Stage(Course(s), 0) = node[s]
    BY CourseType
  <2>2. 0 \in 0 .. Len(Course(s).todo)
    BY <2>1 DEF Typed
  <2>3. node[s].role \in {"Follower", "Dead"}
    BY <2>1, <2>2 DEF OneHistory, FollowerPlan, FollowerSound
  <2> QED
    BY <2>3 DEF ClientSet
<1>2. /\ c \in NodeState /\ ChiefSound(c) /\ c.current_term <= MaxTerm
  BY ChiefNode DEF OneHistory
<1>3. PICK order \in SetToSeqs(Peers(Chief)), k \in 0 .. Cardinality(Peers(Chief)) :
        Reaches(n, order, k) /\ Go(Chief, SetPlan(n, order, k))
  BY <1>1 DEF ClientSet
<1>4. /\ inbox[s] # <<>> /\ inbox' = [inbox EXCEPT ![s] = Tail(@)]
      /\ FromClient(Head(inbox[s])) /\ UNCHANGED <<hand, pipe, answered>>
  BY DEF ClientSet
<1>6. InboxKept /\ r \in Request
  BY <1>4, TakesLetter, LetterKinds
<1> DEFINE plan == SetPlan(n, order, k)
<1>5. /\ Typed(plan) /\ ChiefPlan(plan) /\ ChiefForward(c, plan.now)
      /\ plan.now.current_term = c.current_term
      /\ \A i \in 0 .. Len(plan.todo) : Pushes(c, Stage(plan, i))
      /\ \A j \in 1 .. Len(plan.todo) :
            LetterSound(plan.todo[j].msg, Chief, plan.now.log, plan.now)
  <2> HIDE DEF c, r
  <2> QED
    BY <1>1, <1>2, <1>3, <1>6, ChiefSet
<1> HIDE DEF plan
<1> QED
  BY <1>1, <1>2, <1>3, <1>4, <1>5, <1>6, ChiefGoes DEF plan

\* The dispatcher answers clients with what the leader has applied.
LEMMA QueueStepSound ==
    ASSUME TypeOK, TasksLast, OneHistory,
           \/ \E s \in Server : Take(s)
           \/ \E p \in Link : Deliver(p[1], p[2]) \/ Read(p[1], p[2])
           \/ \E s \in Server, r \in Request : ClientSend(r, s)
    PROVE  OneHistory' /\ UNCHANGED node
<1>1. UNCHANGED <<node, task>>
  BY DEF Take, Deliver, Read, ClientSend
<1>2. \A d \in Server : \A i \in 1 .. Len(inbox'[d]) : inbox'[d][i].from # d
  BY AfloatHandedOn DEF OneHistory
<1>3. \A t \in Server : \A m :
         Afloat(t, m)' => LetterSound(m, t, node[t].log, node[Chief])
  BY AfloatHandedOn DEF OneHistory
<1>4. \A a \in answered' : HasApplied(node[Chief], a)
  <2>1. ASSUME NEW s \in Server, Take(s)
        PROVE  \A a \in answered' : HasApplied(node[Chief], a)
    <3> DEFINE m == Head(outbox[s]).msg
    <3>1. answered' = IF m.kind = "ClientResponse"
                      THEN answered \union {m.client} ELSE answered
      BY <2>1 DEF Take
    <3>2. Afloat(s, m)
      <4>1. outbox[s] # <<>> /\ outbox[s] \in Seq(Letter)
        BY <2>1 DEF Take, TypeOK
      <4>2. Head(outbox[s]) = outbox[s][1] /\ 1 \in 1 .. Len(outbox[s])
        BY <4>1, HeadTail
      <4> QED
        BY <4>2 DEF Afloat
    <3>3. m.kind = "ClientResponse" => HasApplied(node[Chief], m.client)
      BY <3>2 DEF OneHistory, LetterSound
    <3> HIDE DEF m
    <3> QED
      BY <3>1, <3>3 DEF OneHistory
  <2>2. ASSUME \/ \E p \in Link : Deliver(p[1], p[2]) \/ Read(p[1], p[2])
               \/ \E s \in Server, r \in Request : ClientSend(r, s)
        PROVE  answered' = answered
    BY <2>2 DEF Deliver, Read, ClientSend
  <2> QED
    BY <2>1, <2>2 DEF OneHistory
<1>5. \A s \in Server : Course(s)' = Course(s)
  BY <1>1 DEF Course
<1>6. Course(Chief)' = Course(Chief)
  BY <1>1 DEF Course
<1> QED
  BY <1>1, <1>2, <1>3, <1>4, <1>5, <1>6 DEF OneHistory

\* Every step is a step of the leader, of one follower, or of the queues.
LEMMA EveryStep ==
    ASSUME Electable = {Chief}, TypeOK, TasksLast, OneHistory, [Next]_vars
    PROVE  /\ OneHistory'
           /\ \/ \E s \in Server : FollowerStep(s)
              \/ ChiefStep
              \/ UNCHANGED node
<1>1. Chief \in Server
  BY ElectionAssumption
<1>2. CASE \E s \in Server : HandleMessage(s)
  BY <1>1, <1>2, HandleMessageGoes
<1>3. CASE \E s \in Server : Proceed(s)
  BY <1>1, <1>3, ProceedGoes
<1>4. CASE \E s \in Server : Timeout(s)
  BY <1>1, <1>4, TimeoutGoes
<1>5. CASE \E s \in Server : ClientSet(s)
  BY <1>1, <1>5, ClientSetGoes
<1>8. CASE \E s \in Server : IgnoreClient(s)
  BY <1>1, <1>8, IgnoreClientGoes
<1>6. CASE \/ \E s \in Server : Take(s)
           \/ \E p \in Link : Deliver(p[1], p[2]) \/ Read(p[1], p[2])
           \/ \E s \in Server, r \in Request : ClientSend(r, s)
  BY <1>6, QueueStepSound
<1>7. CASE UNCHANGED vars
  <2>1. UNCHANGED node
    BY <1>7 DEF vars
  <2>2. OneHistory'
    BY <1>7 DEF vars, OneHistory, Course, Afloat
  <2> QED
    BY <2>1, <2>2
<1> QED
  BY <1>2, <1>3, <1>4, <1>5, <1>6, <1>7, <1>8 DEF Next, Receive

LEMMA InitialHistory ==
    ASSUME Electable = {Chief}
    PROVE  Init => TypeOK /\ TasksLast /\ OneHistory
<1> SUFFICES ASSUME Init PROVE TypeOK /\ TasksLast /\ OneHistory
  OBVIOUS
<1>1. TypeOK
  BY InitialNodeType, ChannelAssumption DEF Init, TypeOK
<1>2. TasksLast
  BY DEF Init, TasksLast, Course, Plan, Lasting
<1>3. Chief \in Server /\ 0 <= MaxTerm
  BY ElectionAssumption
<1>4. \A s \in Server : /\ Course(s) = Plan(InitialNode, <<>>)
                        /\ node[s] = InitialNode
  BY DEF Init, Course
<1>5. /\ ChiefSound(InitialNode) /\ FollowerSound(InitialNode, InitialNode)
      /\ InitialNode \in NodeState
      /\ Forward(InitialNode, InitialNode) /\ InitialNode.current_term = 0
  <2>1. InitialNode.current_term = 0
    BY DEF InitialNode
  <2> QED
    BY <2>1, InitialSound, InitialNodeType, ForwardStays
<1>6. ChiefPlan(Plan(InitialNode, <<>>))
  BY <1>5, ChiefShort
<1>7. FollowerPlan(Plan(InitialNode, <<>>), InitialNode)
  <2>1. /\ Onward(Plan(InitialNode, <<>>)) /\ Len(Plan(InitialNode, <<>>).todo) = 0
        /\ Stage(Plan(InitialNode, <<>>), 0) = InitialNode
    BY <1>5, ShortOnward, ShortStages
  <2> QED
    BY <1>5, <2>1 DEF FollowerPlan
<1>8. \A s \in Server : \A m : ~ Afloat(s, m)
  <2>1. /\ \A s \in Server : Len(task[s]) = 0
        /\ \A s \in Server : Len(outbox[s]) = 0
        /\ \A s \in Server : Len(hand[s]) = 0
        /\ \A s \in Server : Len(inbox[s]) = 0
        /\ \A p \in Link : Len(pipe[p]) = 0
    BY DEF Init
  <2>2. \A s \in Server : \A d \in Peers(s) : <<s, d>> \in Link /\ d \in Server
    BY DEF Peers, Link
  <2>3. \A i \in 1 .. 0 : FALSE
    OBVIOUS
  <2> SUFFICES ASSUME NEW s \in Server, NEW m, Afloat(s, m) PROVE FALSE
    OBVIOUS
  <2>4. \A i \in 1 .. Len(task[s]) : FALSE
    BY <2>1, <2>3
  <2>5. \A i \in 1 .. Len(outbox[s]) : FALSE
    BY <2>1, <2>3
  <2>6. \A i \in 1 .. Len(hand[s]) : FALSE
    BY <2>1, <2>3
  <2>7. \A d \in Peers(s) : \A i \in 1 .. Len(pipe[<<s, d>>]) : FALSE
    BY <2>1, <2>2, <2>3
  <2>8. \A d \in Peers(s) : \A i \in 1 .. Len(inbox[d]) : FALSE
    BY <2>1, <2>2, <2>3
  <2> QED
    BY <2>4, <2>5, <2>6, <2>7, <2>8, Zenon DEF Afloat
<1>9. OneHistory
  BY <1>3, <1>4, <1>5, <1>6, <1>7, <1>8 DEF Init, OneHistory
<1> QED
  BY <1>1, <1>2, <1>9

LEMMA OneHistoryHolds ==
    ASSUME Electable = {Chief}
    PROVE  Spec => [](TypeOK /\ TasksLast /\ OneHistory)
<1>1. Init => TypeOK /\ TasksLast /\ OneHistory
  BY InitialHistory
<1>2. TypeOK /\ TasksLast /\ OneHistory /\ [Next]_vars
        => (TypeOK /\ TasksLast /\ OneHistory)'
  <2> SUFFICES ASSUME TypeOK, TasksLast, OneHistory, [Next]_vars
               PROVE  TypeOK' /\ TasksLast' /\ OneHistory'
    OBVIOUS
  <2>1. TypeOK' /\ TasksLast'
    <3>1. CASE UNCHANGED vars
      BY <3>1 DEF vars, TypeOK, TasksLast, Course
    <3> QED
      BY <3>1, TaskStepsType, ClientSetType, QueueStepsType DEF Next, Receive
  <2>2. OneHistory'
    BY EveryStep
  <2> QED
    BY <2>1, <2>2
<1> QED
  BY <1>1, <1>2, PTL DEF Spec

-----------------------------------------------------------------------------
(* Cut handlers                                                            *)

\* With one electable node, any number of nodes and any room in the channels, no
\* client is told of success before the leader has applied its entry and counts
\* it as committed, although handle_append_entries_response can be cut between
\* the commit and the answer, and the answer waits in the outbox while other
\* handlers run (src/server.rs: the arms of tokio::select! in leader()).
THEOREM CutHandlersAnswerInTime ==
    ASSUME Electable = {Chief}
    PROVE  Spec => []CutKeepsAnswers
<1>1. OneHistory => CutKeepsAnswers
  BY DEF OneHistory, HasApplied, CutKeepsAnswers
<1> QED
  BY <1>1, OneHistoryHolds, PTL

-----------------------------------------------------------------------------
(* The replicated log                                                      *)

Replicas == [s \in Server |-> Mapped(node[s])]

LEMMA AbstractReplica ==
    ASSUME NEW l, NEW h, NEW c, NEW a
    PROVE  Abstract!ReplicaOf(l, h, c, a) = Replica(l, h, c, a)
<1>1. Abstract!Replay(InitialNode.store, l, 0, a - 1)
        = Replay(InitialNode.store, l, 0, a - 1)
  BY Zenon DEF Abstract!Replay, Abstract!At, Abstract!Max, Replay, At, Max
<1> QED
  BY <1>1, Zenon DEF Abstract!ReplicaOf, Replica

\* A node that moves forward takes a step of the abstract specification.
LEMMA ForwardAdvances ==
    ASSUME TypeOK, Chief \in Server, NEW s \in Server, NEW n \in NodeState,
           node' = [node EXCEPT ![s] = n], node'[Chief].log = node[Chief].log,
           Prefix(n.log, node[Chief].log), Consistent(n),
           Forward(node[s], n),
           s # Chief => n.commit_index <= node[Chief].commit_index
    PROVE  Abstract!Advance(s)
<1> DEFINE l == node[Chief].log
           behind == s # Chief
<1>1. Replicas' = [Replicas EXCEPT ![s] = Mapped(n)]
  BY DEF Replicas, TypeOK
<1>2. /\ Replicas[s] = Mapped(node[s]) /\ Replicas[Chief] = Mapped(node[Chief])
      /\ node[s] \in NodeState /\ node[Chief] \in NodeState /\ l \in Seq(Entry)
  BY NumbersOf DEF Replicas, TypeOK
<1>3. /\ behind \in BOOLEAN
      /\ behind => n.commit_index <= node[Chief].commit_index
  OBVIOUS
<1> HIDE DEF behind
<1>4. \E i \in Len(Mapped(node[s]).log) .. Len(l) :
      \E j \in Mapped(node[s]).committed .. i :
      \E k \in Mapped(node[s]).applied .. j :
         /\ behind => j <= Mapped(node[Chief]).committed
         /\ Mapped(n) = Replica(l, i, j, k)
  BY <1>2, <1>3, ReplicaAdvances
<1>5. (node[Chief].log)' = l
  OBVIOUS
<1> HIDE DEF l
<1>6. \E i \in Len(Replicas[s].log) .. Len(l) :
      \E j \in Replicas[s].committed .. i :
      \E k \in Replicas[s].applied .. j :
         /\ s # Chief => j <= Replicas[Chief].committed
         /\ Replicas' = [Replicas EXCEPT ![s] = Abstract!ReplicaOf(l, i, j, k)]
  BY <1>1, <1>2, <1>4, AbstractReplica DEF behind
<1> QED
  BY <1>5, <1>6 DEF Abstract!Advance, Replicas, Mapped, l

LEMMA PushSubmits ==
    ASSUME TypeOK, OneHistory, Chief \in Server, ChiefSound(node[Chief]),
           NEW n \in NodeState,
           node' = [node EXCEPT ![Chief] = n], Pushes(node[Chief], n)
    PROVE  Abstract!Submit
<1> DEFINE c == node[Chief]
<1>1. c \in NodeState /\ c.current_term \in 1 .. MaxTerm
  <2>1. c.current_term >= 1 /\ c.current_term <= MaxTerm
    BY DEF Pushes, OneHistory, ChiefSound
  <2>2. c \in NodeState
    BY DEF TypeOK
  <2> QED
    BY <2>1, <2>2, ElectionAssumption, NumbersOf
<1>2. (node[Chief].log)' = n.log
  BY DEF TypeOK
<1>3. Replicas' = [Replicas EXCEPT ![Chief].log = n.log]
  <2>1. Replicas' = [Replicas EXCEPT ![Chief] = Mapped(n)]
    BY DEF Replicas, TypeOK
  <2>2. Replicas[Chief] = Mapped(c)
    BY DEF Replicas
  <2>3. Mapped(n) = [Mapped(c) EXCEPT !.log = n.log]
    BY <1>1, PushMapped
  <2> QED
    BY <2>1, <2>2, <2>3
<1>4. \E u \in 1 .. MaxTerm, q \in Request :
         n.log = Append(c.log, [term |-> u, index |-> Len(c.log), request |-> q])
  BY <1>1, PushMapped
<1>5. /\ \E u \in 1 .. MaxTerm, q \in Request :
         (node[Chief].log)' = Append(node[Chief].log,
            [term |-> u, index |-> Len(node[Chief].log), request |-> q])
      /\ Replicas' = [Replicas EXCEPT ![Chief].log = (node[Chief].log)']
  BY <1>2, <1>3, <1>4
<1> QED
  BY <1>5 DEF Abstract!Submit, Replicas, Mapped

LEMMA AbstractInitial ==
    ASSUME Electable = {Chief}
    PROVE  Init => Abstract!Init
<1> SUFFICES ASSUME Init PROVE Abstract!Init
  OBVIOUS
<1>1. /\ Chief \in Server /\ InitialNode \in NodeState
      /\ \A s \in Server : node[s] = InitialNode
      /\ InitialNode.log = <<>> /\ <<>> \in Seq(Entry) /\ Len(<<>>) = 0
      /\ InitialNode.commit_index = -1 /\ InitialNode.last_applied = -1
  BY InitialNodeType, ElectionAssumption DEF Init, InitialNode
<1>2. Consistent(InitialNode) /\ Prefix(InitialNode.log, <<>>)
  BY <1>1, InitialSound DEF ChiefSound, Prefix
<1>3. Mapped(InitialNode) = Abstract!ReplicaOf(<<>>, 0, 0, 0)
  <2>1. -1 + 1 = 0
    OBVIOUS
  <2>2. Mapped(InitialNode)
          = Abstract!ReplicaOf(<<>>, Len(InitialNode.log),
                               InitialNode.commit_index + 1,
                               InitialNode.last_applied + 1)
    BY <1>1, <1>2, NodeIsReplica, AbstractReplica
  <2> QED
    BY <1>1, <2>1, <2>2
<1>4. Replicas = [s \in Server |-> Abstract!ReplicaOf(<<>>, 0, 0, 0)]
  BY <1>1, <1>3 DEF Replicas
<1> QED
  BY <1>1, <1>4 DEF Abstract!Init, Replicas, Mapped

LEMMA AbstractStep ==
    ASSUME Electable = {Chief}, TypeOK, TasksLast, OneHistory, [Next]_vars
    PROVE  [Abstract!Next]_(Abstract!vars)
<1>1. /\ Chief \in Server /\ node[Chief] \in NodeState
      /\ ChiefSound(node[Chief])
  <2>1. Chief \in Server
    BY ElectionAssumption
  <2> QED
    BY <2>1, ChiefNode
<1>2. ASSUME NEW s \in Server, FollowerStep(s)
      PROVE  Abstract!Advance(s)
  <2>1. PICK n \in NodeState :
          /\ s # Chief /\ node' = [node EXCEPT ![s] = n]
          /\ FollowerSound(n, node[Chief]) /\ Forward(node[s], n)
    BY <1>2 DEF FollowerStep
  <2>2. node'[Chief].log = node[Chief].log
    BY <1>1, <2>1 DEF TypeOK
  <2> QED
    BY <1>1, <2>1, <2>2, ForwardAdvances DEF FollowerSound
<1>3. CASE ChiefStep
  <2>1. PICK n \in NodeState :
          /\ node' = [node EXCEPT ![Chief] = n]
          /\ ChiefSound(n) /\ ChiefForward(node[Chief], n)
          /\ n.log = node[Chief].log \/ Pushes(node[Chief], n)
    BY <1>3 DEF ChiefStep
  <2>2. CASE n.log = node[Chief].log
    <3>1. node'[Chief].log = node[Chief].log /\ Prefix(n.log, node[Chief].log)
      BY <1>1, <2>1, <2>2 DEF TypeOK, Prefix
    <3>2. Abstract!Advance(Chief)
      BY <1>1, <2>1, <3>1, ForwardAdvances DEF ChiefForward, ChiefSound
    <3> QED
      BY <1>1, <3>2 DEF Abstract!Next
  <2>3. CASE Pushes(node[Chief], n)
    BY <1>1, <2>1, <2>3, PushSubmits DEF Abstract!Next
  <2> QED
    BY <2>1, <2>2, <2>3
<1>4. CASE UNCHANGED node
  BY <1>4 DEF Abstract!vars
<1> QED
  BY <1>2, <1>3, <1>4, EveryStep DEF Abstract!Next

\* With one electable node the cluster is a replicated log also where handlers
\* wait for room and timers cut them: whatever a handler has done to its node
\* before it is dropped, with nothing sent of it, is a step forward on the one
\* history, and so is what happens between two sends (the arms of
\* tokio::select! in Server::run of every node, src/server.rs).
THEOREM CutHandlersReplicate ==
    ASSUME Electable = {Chief}
    PROVE  Spec => CutKeepsReplicas
<1>1. Init => Abstract!Init
  BY AbstractInitial
<1>2. TypeOK /\ TasksLast /\ OneHistory /\ [Next]_vars
        => [Abstract!Next]_(Abstract!vars)
  BY AbstractStep
<1> QED
  BY <1>1, <1>2, OneHistoryHolds, PTL
     DEF Spec, CutKeepsReplicas, Abstract!Spec

=============================================================================
