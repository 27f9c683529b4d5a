---------------------------- MODULE Connections -----------------------------
(***************************************************************************)
(* How the nodes of a cluster get connected (src/src/network.rs and        *)
(* src/src/main.rs). A node binds its listeners and then visits the peers  *)
(* with a higher id, one after the other, in the order of a HashMap. Its   *)
(* accept loop runs one handshake at a time. Both ends of a connection say *)
(* Hello at once and wait for the Hello of the other, at most five         *)
(* seconds; an end that has heard it registers a writer for the peer and   *)
(* spawns the reader and the writer. Nothing is ever dialled twice.        *)
(***************************************************************************)
EXTENDS Integers, FiniteSets

CONSTANTS
    Node,       \* node ids, numbers as in the configuration
    Attempts,   \* attempts to connect to one peer (6 in the code)
    Slow,       \* connections <<d, l>> on which a Hello may take too long
    Fragile,    \* connections that may fail
    None        \* no peer, no connection

Pairs == {p \in Node \X Node : p[1] # p[2]}

ASSUME NodeAssumption == Node \subseteq Nat /\ IsFiniteSet(Node)
ASSUME NoneAssumption == None \notin Node /\ None \notin Pairs
ASSUME AttemptsAssumption == Attempts \in Nat \ {0}
ASSUME FaultAssumption == Slow \subseteq Pairs /\ Fragile \subseteq Pairs

VARIABLES
    up,         \* nodes that have bound their listeners
    todo,       \* todo[n]: the peers that dial_peers of n has still to visit
    dialing,    \* dialing[n]: the peer it is at, or None
    tries,      \* tries[n]: the attempts that have failed there
    end,        \* end[<<d, l>>][s]: where s is with the connection that d
                \* has dialled to l
    broken,     \* connections that have failed with both ends running
    registry    \* registry[<<s, p>>]: the connection whose writer s uses for p

vars == <<up, todo, dialing, tries, end, broken, registry>>

\* An end is "idle" before the connection, "queued" until it is accepted,
\* "greeting" from its Hello until it hears the other, then it "runs" its
\* tasks; or it is "closed".
Phases == {"idle", "queued", "greeting", "runs", "closed"}

Ends(c) == {c[1], c[2]}
Other(c, s) == IF s = c[1] THEN c[2] ELSE c[1]

\* The other end has said Hello: a dialler as soon as it is connected, a
\* listener when it has accepted. It may have left since.
HasGreeted(c, s) == end[c][s] \in {"greeting", "runs", "closed"}

-----------------------------------------------------------------------------
(* Start-up and dialling                                                   *)

\* main: bind, accept in tasks of their own, dial.
Start(n) ==
    /\ n \notin up
    /\ up' = up \union {n}
    /\ UNCHANGED <<todo, dialing, tries, end, broken, registry>>

\* Mutant: dial_peers gives up all peers when it gives up one.
NextPeerOrNone(n) ==
    /\ dialing' = [dialing EXCEPT ![n] = None]
    /\ tries' = [tries EXCEPT ![n] = 0]
    /\ todo' = [todo EXCEPT ![n] = IF tries[n] + 1 = Attempts THEN {} ELSE @]

\* The visit of a peer is over.
NextPeer(n) ==
    /\ dialing' = [dialing EXCEPT ![n] = None]
    /\ tries' = [tries EXCEPT ![n] = 0]
    /\ UNCHANGED todo

\* The next peer of the map.
Visit(n, p) ==
    /\ n \in up /\ dialing[n] = None /\ p \in todo[n]
    /\ dialing' = [dialing EXCEPT ![n] = p]
    /\ todo' = [todo EXCEPT ![n] = @ \ {p}]
    /\ UNCHANGED <<up, tries, end, broken, registry>>

Calls(n, p) == n \in up /\ dialing[n] = p /\ end[<<n, p>>][n] = "idle"

\* Mutant: one attempt too many.
RefusedOnceMore(n, p) ==
    /\ Calls(n, p) /\ p \notin up
    /\ IF tries[n] + 1 <= Attempts
       THEN tries' = [tries EXCEPT ![n] = @ + 1] /\ UNCHANGED <<todo, dialing>>
       ELSE NextPeer(n)
    /\ UNCHANGED <<up, end, broken, registry>>

\* Nobody listens there yet: try again a little later, or give up.
Refused(n, p) ==
    /\ Calls(n, p) /\ p \notin up
    /\ IF tries[n] + 1 < Attempts
       THEN tries' = [tries EXCEPT ![n] = @ + 1] /\ UNCHANGED <<todo, dialing>>
       ELSE NextPeer(n)
    /\ UNCHANGED <<up, end, broken, registry>>

\* The kernel of a listener completes the connection before it is accepted.
Connect(n, p) ==
    /\ Calls(n, p) /\ p \in up
    /\ end' = [end EXCEPT ![<<n, p>>][n] = "greeting", ![<<n, p>>][p] = "queued"]
    /\ UNCHANGED <<up, todo, dialing, tries, broken, registry>>

-----------------------------------------------------------------------------
(* The accept loop and the handshakes                                      *)

\* Mutant: the loop ends with the first handshake that fails.
InboundOrFailed(l) ==
    {c \in Pairs : c[2] = l /\ end[c][l] \in {"greeting", "closed"}}

Inbound(l) == {c \in Pairs : c[2] = l /\ end[c][l] = "greeting"}

\* listen: the handshake runs within the loop.
Accept(c) ==
    /\ end[c][c[2]] = "queued" /\ Inbound(c[2]) = {}
    /\ end' = [end EXCEPT ![c][c[2]] = "greeting"]
    /\ UNCHANGED <<up, todo, dialing, tries, broken, registry>>

\* The end s leaves the handshake; dial_peers goes on with the next peer.
Leave(c, s, phase) ==
    /\ end' = [end EXCEPT ![c][s] = phase]
    /\ IF s = c[1] THEN NextPeer(s) ELSE UNCHANGED <<todo, dialing, tries>>
    /\ UNCHANGED <<up, broken>>

\* The Hello of the other end is read, maybe after that end has closed the
\* connection; handle_conn registers the peer.
Greeted(c, s) ==
    LET p == Other(c, s) IN
    /\ end[c][s] = "greeting" /\ HasGreeted(c, p)
    /\ Leave(c, s, "runs")
    /\ registry' = [registry EXCEPT ![<<s, p>>] = c]

\* The connection is closed by the other end, or fails, before the Hello is
\* read. (A failure after that is no different from one a moment later.)
Failed(c, s) ==
    /\ end[c][s] = "greeting"
    /\ c \in Fragile \/ end[c][Other(c, s)] = "closed"
    /\ Leave(c, s, "closed")
    /\ UNCHANGED registry

\* Five seconds pass: the Hello is slow, or the accept loop of the other end
\* is held up by a connection whose Hello is slow.
HeldUp(c) == end[c][c[2]] = "queued" /\ Inbound(c[2]) \intersect Slow # {}

\* Mutant: the handshake waits without a time limit.
NeverTimesOut(c, s) == FALSE /\ end[c][s] = "greeting" /\ UNCHANGED vars

TimesOut(c, s) ==
    /\ end[c][s] = "greeting"
    /\ c \in Slow \/ (s = c[1] /\ HeldUp(c))
    /\ Leave(c, s, "closed")
    /\ UNCHANGED registry

\* A connection in use fails. Readers and writers end, the registries keep
\* the senders.
Break(c) ==
    /\ c \in Fragile \ broken /\ \A s \in Ends(c) : end[c][s] = "runs"
    /\ broken' = broken \union {c}
    /\ UNCHANGED <<up, todo, dialing, tries, end, registry>>

-----------------------------------------------------------------------------
(* Specification                                                           *)

\* Mutant: every node dials every other.
DialsAll(n) == Node \ {n}

Dials(n) == {p \in Node : p > n}

Init ==
    /\ up = {}
    /\ todo = [n \in Node |-> Dials(n)]
    /\ dialing = [n \in Node |-> None]
    /\ tries = [n \in Node |-> 0]
    /\ end = [c \in Pairs |-> [s \in Ends(c) |-> "idle"]]
    /\ broken = {}
    /\ registry = [p \in Pairs |-> None]

Dial(n) == \E p \in Node \ {n} : Visit(n, p) \/ Refused(n, p) \/ Connect(n, p)

Next ==
    \/ \E n \in Node : Start(n) \/ Dial(n)
    \/ \E c \in Pairs : Accept(c) \/ Break(c)
    \/ \E c \in Pairs : \E s \in Ends(c) :
          Greeted(c, s) \/ Failed(c, s) \/ TimesOut(c, s)

Spec == Init /\ [][Next]_vars

\* A node may start late or not at all. The tasks of a node that runs go on,
\* a Hello that is not slow arrives, and one that is may never.
FairSpec ==
    /\ Spec
    /\ \A n \in Node :
          /\ WF_vars(Dial(n))
          /\ WF_vars(\E c \in Pairs : c[2] = n /\ Accept(c))
    /\ \A c \in Pairs : \A s \in Ends(c) :
          /\ WF_vars(TimesOut(c, s))
          /\ WF_vars(c \notin Slow /\ Greeted(c, s))

-----------------------------------------------------------------------------
(* Properties                                                              *)

\* The variables keep their types, and the dialler is where its handshake is.
TypeOK ==
    /\ up \subseteq Node /\ broken \subseteq Pairs
    /\ todo \in [Node -> SUBSET Node]
    /\ dialing \in [Node -> Node \union {None}]
    /\ tries \in [Node -> 0 .. Attempts - 1]
    /\ registry \in [Pairs -> Pairs \union {None}]
    /\ \A c \in Pairs :
          /\ end[c] \in [Ends(c) -> Phases]
          /\ end[c][c[1]] = "greeting" => dialing[c[1]] = c[2]

Abstract == INSTANCE Links WITH
    link <- [p \in Pairs |-> CASE registry[p] = None -> "absent"
                               [] registry[p] \in broken -> "broken"
                               [] OTHER -> "open"]

\* Whatever is slow, late or fails, the core sees links as MiniRaft has them:
\* no writer is ever replaced by that of another connection, a failure cuts
\* both directions, and a dead link stays dead.
ImplementsLinks == Abstract!Spec

\* dial_peers comes to its end on every node that has started, whatever the
\* peers do: no cycle of nodes that dial and accept waits for itself.
DialsEnd ==
    \A n \in Node : n \in up ~> (todo[n] = {} /\ dialing[n] = None)

\* A connection in the backlog of an accept loop is accepted, even behind
\* connections that say nothing.
CallersAreHeard ==
    \A c \in Pairs : end[c][c[2]] = "queued" ~> end[c][c[2]] # "queued"

\* A peer that listens before its turn comes is connected: both ends get a
\* writer for the other, whoever was given up before. The connection itself
\* must not fail, nor a slow one hold up the accept loop there.
Meet(c) == registry[c] # None /\ registry[<<c[2], c[1]>>] # None

PeersMeet ==
    \A c \in Pairs :
        c[1] < c[2] /\ c \notin Fragile /\ {d \in Slow : d[2] = c[2]} = {}
        => (Ends(c) \subseteq up /\ c[2] \in todo[c[1]] ~> Meet(c))

=============================================================================
