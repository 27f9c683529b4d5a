---------------------------- MODULE ReplicatedLog ---------------------------
(***************************************************************************)
(* What a cluster with one leader promises (README of the repository: the  *)
(* leader replicates Set commands to the key-value StateMachine of every   *)
(* node): there is one history of commands, each node holds a prefix of    *)
(* it, commits a prefix of what it holds, has applied a prefix of what it  *)
(* committed, never goes back, and never commits what the leader has not;  *)
(* its store is what the applied commands produce.                         *)
(***************************************************************************)
EXTENDS LogOps

CONSTANTS Node, Chief, Terms, Command, EmptyStore

VARIABLES
    history,    \* the log of the leader
    replica     \* replica[s]: what s holds, has committed, has applied

vars == <<history, replica>>

\* A replica that holds h entries of the history l, committed c, applied a.
ReplicaOf(l, h, c, a) ==
    [log |-> SubSeq(l, 1, h), committed |-> c, applied |-> a,
     store |-> Replay(EmptyStore, l, 0, a - 1)]

Init ==
    /\ history = <<>>
    /\ replica = [s \in Node |-> ReplicaOf(<<>>, 0, 0, 0)]

\* The leader takes a command; it holds the whole history.
Submit ==
    /\ \E t \in Terms, r \in Command :
          history' = Append(history, [term |-> t, index |-> Len(history),
                                      request |-> r])
    /\ replica' = [replica EXCEPT ![Chief].log = history']

\* A node moves forward in any of the three respects.
Advance(s) ==
    LET r == replica[s] IN
    /\ \E h \in Len(r.log) .. Len(history) :
       \E c \in r.committed .. h :
       \E a \in r.applied .. c :
          /\ s # Chief => c <= replica[Chief].committed
          /\ replica' = [replica EXCEPT ![s] = ReplicaOf(history, h, c, a)]
    /\ UNCHANGED history

Next == Submit \/ \E s \in Node : Advance(s)

Spec == Init /\ [][Next]_vars

=============================================================================
