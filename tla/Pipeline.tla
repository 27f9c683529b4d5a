------------------------------ MODULE Pipeline ------------------------------
(***************************************************************************)
(* How the handlers of MiniRaft really run: one server task per node, and  *)
(* around it tasks that hand messages on over bounded channels.            *)
(*                                                                         *)
(*   server --outbox--> dispatcher --pipe--> reader --inbox--> server      *)
(*                                                 client --^              *)
(*                                                                         *)
(* The readers of a node's clients fill the same inbox as those of peers.  *)
(* A handler that finds the outbox full waits in to_network.send. It holds *)
(* up the whole server task; when it was called from tokio::select! the    *)
(* timer can win, and then the rest of the handler is dropped.             *)
(***************************************************************************)
EXTENDS Handlers

CONSTANTS
    Electable, MaxTerm,     \* as in MiniRaft
    Chief,      \* a node that campaigns
    Contacts,   \* nodes that clients send to (raft_client.py, --nodes)
    Hasty,      \* nodes whose timer may expire while messages of the node
                \* are still under way
    Cutting,    \* nodes whose timer may expire while a handler waits
    Channel,    \* places in an inbox and an outbox (32 in main.rs)
    Pipe        \* messages between a dispatcher and the inbox of a peer:
                \* in the channel of the writer (32), the writer, the
                \* sockets and the reader

ASSUME ChannelAssumption == Channel \in Nat \ {0} /\ Pipe \in Nat \ {0}
ASSUME TimerAssumption ==
    Cutting \subseteq Server /\ Hasty \subseteq Server /\ Chief \in Electable
ASSUME ElectionAssumption == Electable \subseteq Server /\ MaxTerm \in Nat

VARIABLES
    node,       \* node[s]: the fields of Server and ServerState
    task,       \* task[s]: the sends the server task has still to do before
                \* it waits for an event again, the first one without room
    inbox,      \* inbox[s]: the channel from the readers to the server task
    outbox,     \* outbox[s]: the channel from there to the dispatcher
    hand,       \* hand[s]: what the dispatcher has still to hand to writers
    pipe,       \* pipe[<<a, b>>]: on the way from a's dispatcher to b's inbox
    submitted,  \* the requests that leaders have taken from their inbox
    ignored,    \* those that other nodes have taken from theirs, and dropped
    answered    \* as in MiniRaft

vars == <<node, task, inbox, outbox, hand, pipe, submitted, ignored, answered>>

-----------------------------------------------------------------------------
(* What this is in terms of MiniRaft: a handler has happened as soon as it *)
(* starts, and all its messages are under way.                             *)

Settled(s) == IF task[s] = <<>> THEN node[s] ELSE Last(task[s]).after

Messages(q) == [i \in DOMAIN q |-> q[i].msg]
Outgoing(q, d) == Messages(SelectSeq(q, LAMBDA o : d \in o.to))

Flight(a, b) ==
    Messages(SelectSeq(inbox[b], LAMBDA i : i.from = a))
        \o pipe[<<a, b>>] \o Outgoing(hand[a] \o outbox[a] \o task[a], b)

\* Whom the answers among some letters are for.
Answering(q) ==
    {q[i].msg.client : i \in {i \in DOMAIN q : q[i].msg.kind = "ClientResponse"}}
Answered == answered \union UNION {Answering(outbox[s] \o task[s]) : s \in Server}

Core == INSTANCE MiniRaft WITH
    InitialLinks <- Link, LateLinks <- {}, Breakable <- {},
    Capacity <- 1000, Backlog <- 1000,
    node <- [s \in Server |-> Settled(s)],
    wire <- [p \in Link |-> Flight(p[1], p[2])],
    link <- [p \in Link |-> "open"],
    answered <- Answered

-----------------------------------------------------------------------------
(* Handlers as plans: the node when the first send is reached, and each    *)
(* send with the node after it. A follower applies when it goes round      *)
(* (Resume). A send within tokio::select! may be cut.                      *)

Sending(to, m, after) ==
    [to |-> to, msg |-> m, after |-> Resume(after), cut |-> TRUE]
Uncut(sending) == [sending EXCEPT !.cut = FALSE]

Plan(now, todo) == [now |-> now, todo |-> todo]
Done(n) == Plan(Resume(n), <<>>)
Reply(to, m, n) == Plan(n, <<Sending({to}, m, n)>>)

\* candidate() asks again, and a new leader sends a heartbeat, outside of
\* tokio::select!.
Ask(s, n) == Uncut(Sending(Peers(s), RequestVote(s, n), n))
Beat(s, n) == Uncut(Sending(Peers(s), Heartbeat(n), n))

OnAppendEntries(n, src, m) ==
    CASE Rejects(n, m) -> Reply(src, AppendEntriesResponse(n, FALSE), n)
      [] ~ Rejects(n, m) /\ StepsDown(n, m) ->
            Done(BecomeFollower(n, m.term))
      [] Accepts(n, m) /\ m.entries = <<>> -> Done(Observe(n, m))
      [] Accepts(n, m) /\ LeavesGap(n.log, m.entries) ->
            Done(Panicked(Observe(n, m)))
      [] OTHER -> LET k == Store(Observe(n, m), m)
                  IN  Reply(src, AppendEntriesResponse(k, TRUE), k)

OnRequestVote(n, m) ==
    Reply(m.candidate_id,
          RequestVoteResponse(n, ~ DeniesVote(n, m)), n)

OnVoteResponse(s, n, m) ==
    LET counted == Counted(n)
        office == TakeOffice(counted)
    IN  CASE n.role = "Candidate" /\ m.term > n.current_term ->
                Done(BecomeFollower(n, m.term))
          [] n.role = "Candidate" /\ m.term <= n.current_term /\ m.vote_granted ->
                IF Wins(counted) THEN Plan(office, <<Beat(s, office)>>)
                                      ELSE Done(counted)
          [] OTHER -> Done(n)

\* The retry is sent before the scan, the answer after everything else.
OnAppendEntriesResponse(s, n, src, m) ==
    LET ack == Acknowledged(n, src)
        commit == AdvanceCommit(ack)
        back == BackedOff(n, src)
    IN  CASE n.role # "Leader" -> Done(n)
          [] n.role = "Leader" /\ m.term > n.current_term ->
                Done(BecomeFollower(n, m.term))
          [] n.role = "Leader" /\ m.term <= n.current_term /\ ~ m.success ->
                IF Has(n.log, back.next_index[src])
                THEN Plan(back, <<Sending({src}, Retry(back, src),
                                          AdvanceCommit(back))>>)
                ELSE Done(Panicked(back))
          [] OTHER ->
                IF Committable(ack) = {} THEN Done(ack)
                ELSE LET k == ApplyOwn(s, commit) IN
                     Plan(k, <<Sending({}, [kind |-> "ClientResponse",
                                            client |-> ClientOf(commit)], k)>>)

On(s, n, i) ==
    CASE i.msg.kind = "AppendEntries" -> OnAppendEntries(n, i.from, i.msg)
      [] i.msg.kind = "RequestVote" -> OnRequestVote(n, i.msg)
      [] i.msg.kind = "RequestVoteResponse" -> OnVoteResponse(s, n, i.msg)
      [] i.msg.kind = "AppendEntriesResponse" ->
            OnAppendEntriesResponse(s, n, i.from, i.msg)


\* A candidate goes round: it asks again.
Around(s, plan) ==
    LET end == IF plan.todo = <<>> THEN plan.now ELSE Last(plan.todo).after
    IN  IF end.role = "Candidate" THEN [plan EXCEPT !.todo = Append(@, Ask(s, end))]
                                  ELSE plan

-----------------------------------------------------------------------------
(* The server task                                                         *)

\* Mutant: channels without a bound.
GoOn(s, course) == \E plan \in {course} :
    LET k == Len(plan.todo) IN
    /\ node' = [node EXCEPT ![s] = IF k = 0 THEN plan.now ELSE plan.todo[k].after]
    /\ outbox' = [outbox EXCEPT ![s] =
           @ \o [i \in 1 .. k |-> [to |-> plan.todo[i].to, msg |-> plan.todo[i].msg]]]
    /\ task' = [task EXCEPT ![s] = SubSeq(plan.todo, k + 1, Len(plan.todo))]

\* Do the sends for which there is room and wait with the others.
Go(s, course) == \E plan \in {course} :
    LET k == Min({Len(plan.todo), Channel - Len(outbox[s])}) IN
    /\ node' = [node EXCEPT ![s] = IF k = 0 THEN plan.now ELSE plan.todo[k].after]
    /\ outbox' = [outbox EXCEPT ![s] =
           @ \o [i \in 1 .. k |-> [to |-> plan.todo[i].to, msg |-> plan.todo[i].msg]]]
    /\ task' = [task EXCEPT ![s] = SubSeq(plan.todo, k + 1, Len(plan.todo))]

Idle(s) == task[s] = <<>> /\ node[s].role # "Dead"

FromClient(letter) == letter.msg.kind = "ClientRequest"

HandleMessage(s) ==
    /\ Idle(s) /\ inbox[s] # <<>> /\ ~ FromClient(Head(inbox[s]))
    /\ Go(s, Around(s, On(s, node[s], Head(inbox[s]))))
    /\ inbox' = [inbox EXCEPT ![s] = Tail(@)]
    /\ UNCHANGED <<hand, pipe, submitted, ignored, answered>>

\* The send that was waiting finds room.
Proceed(s) ==
    /\ task[s] # <<>> /\ Len(outbox[s]) < Channel
    /\ Go(s, Plan(node[s], task[s]))
    /\ UNCHANGED <<inbox, hand, pipe, submitted, ignored, answered>>

Quiet(s) == \A d \in Peers(s) : Flight(s, d) = <<>>

\* The other arm of tokio::select!, which drops a handler that waits.
Expires(s) ==
    \/ Idle(s) /\ (s \in Hasty \/ Quiet(s))
    \/ s \in Cutting /\ task[s] # <<>> /\ task[s][1].cut

OnTimer(s, n) ==
    CASE n.role = "Follower" -> LET k == BecomeCandidate(s, n)
                                IN  Plan(k, <<Ask(s, k)>>)
      [] n.role = "Candidate" -> Plan(n, <<Ask(s, n)>>)
      [] n.role = "Leader" -> Plan(n, <<Beat(s, n)>>)

Timeout(s) ==
    /\ Expires(s)
    /\ node[s].role = "Follower" =>
           s \in Electable /\ node[s].current_term < MaxTerm
    /\ Go(s, OnTimer(s, node[s]))
    /\ UNCHANGED <<inbox, hand, pipe, submitted, ignored, answered>>

\* handle_set_command: last_sent_index is set before each send; the first k
\* peers of the order are announceable, the next one makes it panic.
SetPlan(n, order, k) ==
    LET Marked(i) ==
            [n EXCEPT !.last_sent_index =
                [p \in Server |-> IF \E j \in 1 .. i : order[j] = p
                                  THEN LastIndex(n.log) ELSE @[p]]]
        Reached(i) == IF i = k + 1 /\ k < Len(order) THEN Panicked(n)
                      ELSE Marked(Min({i, Len(order)}))
    IN  Plan(Reached(1),
             [i \in 1 .. k |-> Sending(ToSet(order), Announcement(n, order[i]),
                                       Reached(i + 1))])

ClientSet(s) ==
    /\ Idle(s) /\ inbox[s] # <<>> /\ FromClient(Head(inbox[s]))
    /\ node[s].role = "Leader"
    /\ LET r == Head(inbox[s]).msg.request
           n == [node[s] EXCEPT !.log = Append(@, NewEntry(node[s], r))] IN
       /\ submitted' = submitted \union {r}
       /\ \E order \in SetToSeqs(Peers(s)), k \in 0 .. Cardinality(Peers(s)) :
             Reaches(n, order, k) /\ Go(s, SetPlan(n, order, k))
    /\ inbox' = [inbox EXCEPT ![s] = Tail(@)]
    /\ UNCHANGED <<hand, pipe, ignored, answered>>

\* Who does not lead ignores a client, and goes round as after any message.
IgnoreClient(s) ==
    /\ Idle(s) /\ inbox[s] # <<>> /\ FromClient(Head(inbox[s]))
    /\ node[s].role # "Leader"
    /\ Go(s, Around(s, Done(node[s])))
    /\ inbox' = [inbox EXCEPT ![s] = Tail(@)]
    /\ ignored' = ignored \union {Head(inbox[s]).msg.request}
    /\ UNCHANGED <<hand, pipe, submitted, answered>>

Receive(s) == HandleMessage(s) \/ ClientSet(s) \/ IgnoreClient(s)

-----------------------------------------------------------------------------
(* The dispatcher and the readers                                          *)

\* The next outgoing message, a broadcast in the order of the registry. The
\* writer of a client is never in the way.
Take(s) ==
    LET o == Head(outbox[s]) IN
    /\ hand[s] = <<>> /\ outbox[s] # <<>>
    /\ outbox' = [outbox EXCEPT ![s] = Tail(@)]
    /\ \E order \in SetToSeqs(o.to) :
          hand' = [hand EXCEPT ![s] =
                      [i \in DOMAIN order |-> [to |-> {order[i]}, msg |-> o.msg]]]
    /\ answered' = IF o.msg.kind = "ClientResponse"
                   THEN answered \union {o.msg.client} ELSE answered
    /\ UNCHANGED <<node, task, inbox, pipe, submitted, ignored>>

\* Mutant: the dispatcher drops what a full writer cannot take.
DeliverOrDrop(s, d) ==
    /\ hand[s] # <<>> /\ Head(hand[s]).to = {d}
    /\ pipe' = IF Len(pipe[<<s, d>>]) < Pipe
               THEN [pipe EXCEPT ![<<s, d>>] = Append(@, Head(hand[s]).msg)]
               ELSE pipe
    /\ hand' = [hand EXCEPT ![s] = Tail(@)]
    /\ UNCHANGED <<node, task, inbox, outbox, submitted, ignored, answered>>

\* One peer after the other: the dispatcher waits for a writer that is full.
Deliver(s, d) ==
    /\ hand[s] # <<>> /\ Head(hand[s]).to = {d}
    /\ Len(pipe[<<s, d>>]) < Pipe
    /\ pipe' = [pipe EXCEPT ![<<s, d>>] = Append(@, Head(hand[s]).msg)]
    /\ hand' = [hand EXCEPT ![s] = Tail(@)]
    /\ UNCHANGED <<node, task, inbox, outbox, submitted, ignored, answered>>

\* The reader of b for a. It ends when the server task is gone; the socket
\* stays open, for the writer of b still holds it.
Read(a, b) ==
    /\ pipe[<<a, b>>] # <<>> /\ Len(inbox[b]) < Channel /\ node[b].role # "Dead"
    /\ inbox' = [inbox EXCEPT ![b] =
                    Append(@, [from |-> a, msg |-> Head(pipe[<<a, b>>])])]
    /\ pipe' = [pipe EXCEPT ![<<a, b>>] = Tail(@)]
    /\ UNCHANGED <<node, task, outbox, hand, submitted, ignored, answered>>

\* The reader of a client. A request comes once: one that is tried again
\* counts as another request.
ClientRequest(r) == [from |-> None, msg |-> [kind |-> "ClientRequest", request |-> r]]

ClientSend(r, s) ==
    /\ s \in Contacts /\ r \notin submitted \union ignored
    /\ \A d \in Server : ClientRequest(r) \notin ToSet(inbox[d])
    /\ Len(inbox[s]) < Channel /\ node[s].role # "Dead"
    /\ inbox' = [inbox EXCEPT ![s] = Append(@, ClientRequest(r))]
    /\ UNCHANGED <<node, task, outbox, hand, pipe, submitted, ignored, answered>>

-----------------------------------------------------------------------------
(* Specification                                                           *)

Init ==
    /\ node = [s \in Server |-> InitialNode]
    /\ task = [s \in Server |-> <<>>]
    /\ inbox = [s \in Server |-> <<>>]
    /\ outbox = [s \in Server |-> <<>>]
    /\ hand = [s \in Server |-> <<>>]
    /\ pipe = [p \in Link |-> <<>>]
    /\ submitted = {}
    /\ ignored = {}
    /\ answered = {}

Next ==
    \/ \E s \in Server : Receive(s) \/ Proceed(s) \/ Timeout(s) \/ Take(s)
    \/ \E s \in Server, r \in Request : ClientSend(r, s)
    \/ \E p \in Link : Deliver(p[1], p[2]) \/ Read(p[1], p[2])

Spec == Init /\ [][Next]_vars

\* Each task runs whenever it can; the channel grants places in turn. A timer
\* is only sure to expire while no message comes in.
FairSpec ==
    /\ Spec
    /\ \A s \in Server :
          /\ SF_vars(Receive(s)) /\ WF_vars(Proceed(s)) /\ WF_vars(Take(s))
          /\ WF_vars(inbox[s] = <<>> /\ Timeout(s))
    /\ \A p \in Link : WF_vars(Deliver(p[1], p[2])) /\ SF_vars(Read(p[1], p[2]))
-----------------------------------------------------------------------------
(* Properties                                                              *)

\* What the server task sends: messages to other nodes, and answers, which have
\* no node to go to.
Answer == [kind : {"ClientResponse"}, client : {<<r.client, r.id>> : r \in Request}]
Letter == [to : SUBSET Server, msg : Message] \union [to : {{}}, msg : Answer]
Pending ==
    [to : SUBSET Server, msg : Message, after : NodeState, cut : BOOLEAN]
    \union [to : {{}}, msg : Answer, after : NodeState, cut : BOOLEAN]

\* What reaches it: the messages of nodes and the requests of clients.
Incoming ==
    [from : Server, msg : Message]
    \union [from : {None}, msg : [kind : {"ClientRequest"}, request : Request]]

\* No channel holds more than its places, the nodes and messages have the types
\* of MiniRaft in every queue, and no answer gets into one that leads to a node.
TypeOK ==
    /\ node \in [Server -> NodeState]
    /\ task \in [Server -> Seq(Pending)]
    /\ inbox \in [Server -> Seq(Incoming)]
    /\ outbox \in [Server -> Seq(Letter)]
    /\ hand \in [Server -> Seq([to : SUBSET Server, msg : Message])]
    /\ pipe \in [Link -> Seq(Message)]
    /\ submitted \subseteq Request /\ ignored \subseteq Request
    /\ answered \subseteq {<<r.client, r.id>> : r \in Request}
    /\ \A s \in Server : Len(inbox[s]) <= Channel /\ Len(outbox[s]) <= Channel
    /\ \A p \in Link : Len(pipe[p]) <= Pipe

\* The timer wins over a handler that waits.
Cut(s) == task[s] # <<>> /\ Timeout(s)

\* Handing on: no step of MiniRaft. A link sees nothing of a step that leaves
\* the queues it is made of alone.
Unseen ==
    /\ \A s \in Server : UNCHANGED Settled(s)
    /\ UNCHANGED <<submitted, Answered>>
    /\ \A p \in Link :
          LET a == p[1] b == p[2] IN
          \/ UNCHANGED <<inbox[b], pipe[p], hand[a], outbox[a], task[a]>>
          \/ UNCHANGED Flight(a, b)

\* What MiniRaft knows of the server task of s: a letter that it takes in, or a
\* timer, also where a candidate goes round for a request it ignores.
TakesIn(s, src) ==
    inbox[s] # <<>> /\ Head(inbox[s]).from = src /\ inbox'[s] = Tail(inbox[s])
Sends(s) == Len(outbox'[s] \o task'[s]) > Len(outbox[s] \o task[s])

CoreStep(s) ==
    \/ \E src \in Peers(s) : TakesIn(s, src) /\ Core!HandleMessage(s, src)
    \/ TakesIn(s, None) /\ \E r \in Request : Core!ClientSet(s, r)
    \/ Sends(s) /\ Core!Timers(s)

\* Handlers wait between two sends, a broadcast reaches one peer long before the
\* next, and messages pass from task to task; yet every step is one of MiniRaft
\* or nothing at all there, with the FIFO links, the atomic handlers and the
\* dispatch to all peers at once that MiniRaft assumes. The steps that cut a
\* handler are exempt, and what follows a panic: MiniRaft forgets at once what
\* is sent to a dead node.
HandlersAppearAtomic ==
    /\ Core!Init
    /\ [][\/ Unseen
          \/ \E s \in Server :
                CoreStep(s) \/ Cut(s) \/ Settled(s).role = "Dead"]_(Core!vars)

Abstract == INSTANCE ReplicatedLog WITH
    Node <- Server,
    Terms <- 1 .. MaxTerm,
    Command <- Request,
    EmptyStore <- InitialNode.store,
    history <- node[Chief].log,
    replica <- [s \in Server |->
        [log |-> node[s].log, committed |-> node[s].commit_index + 1,
         applied |-> node[s].last_applied + 1, store |-> node[s].store]]

\* Handlers cut after they have changed the log, an index or the commit, and
\* before they have sent or answered anything, do not make the replicas of one
\* leader diverge, commit ahead of it or go back.
CutKeepsReplicas == Abstract!Spec

\* Nor is a client told of success before its entry is applied.
CutKeepsAnswers ==
    \A a \in answered : \E i \in 0 .. node[Chief].last_applied :
        /\ i <= node[Chief].commit_index
        /\ a = <<At(node[Chief].log, i).request.client,
                 At(node[Chief].log, i).request.id>>

\* The server task of s waits for its dispatcher, which waits for the writer of
\* the connection to d, whose reader waits for the server task of d.
WaitsFor(s, d) ==
    /\ task[s] # <<>> /\ Len(outbox[s]) = Channel
    /\ hand[s] # <<>> /\ Head(hand[s]).to = {d}
    /\ Len(pipe[<<s, d>>]) = Pipe /\ Len(inbox[d]) = Channel


\* src/server.rs:248: "candidate election timeout expired, restarting
\* election". Two candidates of one term deny each other, neither raises its
\* term, and the requests for votes that they multiply fill all channels.
ElectionRestarts ==
    \A s \in Server, t \in 1 .. MaxTerm - 1 :
        LET Stays == node[s].role = "Candidate" /\ node[s].current_term = t
        IN  Stays ~> ~ Stays

=============================================================================
