-------------------------- MODULE ConnectionsProofs --------------------------
(***************************************************************************)
(* Type correctness of Connections, and the proof that it implements       *)
(* Links: the network layer gives the core links that open once, each      *)
(* direction at its own time, break in both directions and stay broken.    *)
(***************************************************************************)
EXTENDS Connections, TLAPS

-----------------------------------------------------------------------------
(* The inductive invariant                                                 *)

EndsTyped ==
    /\ end = [c \in Pairs |-> end[c]]
    /\ \A c \in Pairs : end[c] \in [Ends(c) -> Phases]

\* Only the node with the lower id dials, so two nodes never have two
\* connections.
DialsUpwards ==
    /\ \A n \in Node :
          todo[n] \subseteq Dials(n) /\ dialing[n] \in Dials(n) \union {None}
    /\ \A c \in Pairs : end[c][c[1]] # "idle" => c[1] < c[2]

\* A listener has an end only after the dialler has one.
DiallerFirst ==
    \A c \in Pairs : end[c][c[1]] = "idle" => end[c][c[2]] = "idle"

\* What a registry holds for a peer is the connection with it, in use.
RegistrySound ==
    \A q \in Pairs : registry[q] # None =>
        /\ Ends(registry[q]) = Ends(q)
        /\ end[registry[q]][q[1]] = "runs"

\* An end in use is the one in the registry.
RunsRegistered ==
    \A c \in Pairs : \A s \in Ends(c) :
        end[c][s] = "runs" => registry[<<s, Other(c, s)>>] = c

\* Only a connection with both ends in use has been broken.
BrokenRan == \A c \in broken : \A s \in Ends(c) : end[c][s] = "runs"

ConnInvariant ==
    /\ TypeOK /\ EndsTyped /\ DialsUpwards /\ DiallerFirst
    /\ RegistrySound /\ RunsRegistered /\ BrokenRan

-----------------------------------------------------------------------------
(* Lemmas                                                                  *)

\* A pair is made of two different nodes, which are its ends.
LEMMA PairFacts ==
    ASSUME NEW c \in Pairs
    PROVE  /\ c = <<c[1], c[2]>> /\ c[1] \in Node /\ c[2] \in Node /\ c[1] # c[2]
           /\ c[1] \in Ends(c) /\ c[2] \in Ends(c)
           /\ c[1] \in Nat /\ c[2] \in Nat
           /\ c # None /\ c[1] # None /\ c[2] # None
<1>1. /\ c = <<c[1], c[2]>> /\ c[1] \in Node /\ c[2] \in Node /\ c[1] # c[2]
      /\ c[1] \in Ends(c) /\ c[2] \in Ends(c)
  BY DEF Pairs, Ends
<1>2. c # None
  BY NoneAssumption
<1>3. c[1] # None /\ c[2] # None
  BY <1>1, NoneAssumption
<1> QED
  BY <1>1, <1>2, <1>3, NodeAssumption

\* An end and the other one.
LEMMA OtherFacts ==
    ASSUME NEW c \in Pairs, NEW s \in Ends(c)
    PROVE  /\ Other(c, s) \in Ends(c) /\ Other(c, s) # s
           /\ <<s, Other(c, s)>> \in Pairs
           /\ Ends(<<s, Other(c, s)>>) = Ends(c)
           /\ Ends(c) = {s, Other(c, s)}
BY PairFacts DEF Other, Ends, Pairs

\* What one phase change does to the ends.
LEMMA OnePhase ==
    ASSUME EndsTyped, NEW c \in Pairs, NEW s \in Ends(c), NEW phase \in Phases,
           end' = [end EXCEPT ![c][s] = phase]
    PROVE  /\ EndsTyped' /\ end'[c][s] = phase
           /\ \A d \in Pairs : \A r \in Ends(d) :
                d # c \/ r # s => end'[d][r] = end[d][r]
<1> DEFINE new == [end[c] EXCEPT ![s] = phase]
<1>1. /\ new \in [Ends(c) -> Phases] /\ new[s] = phase
      /\ \A r \in Ends(c) : r # s => new[r] = end[c][r]
  BY DEF EndsTyped
<1>2. end' = [end EXCEPT ![c] = new]
  OBVIOUS
<1> HIDE DEF new
<1>3. end' = [d \in Pairs |-> IF d = c THEN new ELSE end[d]]
  BY <1>2 DEF EndsTyped
<1>4. \A d \in Pairs : end'[d] = IF d = c THEN new ELSE end[d]
  BY <1>3
<1>5. end' = [d \in Pairs |-> end'[d]]
  BY <1>3
<1>6. \A d \in Pairs : end'[d] \in [Ends(d) -> Phases]
  BY <1>1, <1>4 DEF EndsTyped
<1> QED
  BY <1>1, <1>4, <1>5, <1>6 DEF EndsTyped


\* Two connections of the same nodes are one, since only the lower id dials.
LEMMA OneConnection ==
    ASSUME NEW c \in Pairs, NEW d \in Pairs,
           c[1] < c[2], d[1] < d[2], Ends(c) = Ends(d)
    PROVE  c = d
<1>1. {c[1], c[2]} = {d[1], d[2]}
  BY DEF Ends
<1>2. c[1] = d[1] /\ c[2] = d[2]
  <2>1. c[1] \in Nat /\ c[2] \in Nat /\ d[1] \in Nat /\ d[2] \in Nat
    BY PairFacts
  <2>2. \/ c[1] = d[1] /\ c[2] = d[2]
        \/ c[1] = d[2] /\ c[2] = d[1]
    BY <1>1
  <2> QED
    BY <2>1, <2>2
<1>3. c = <<c[1], c[2]>> /\ d = <<d[1], d[2]>>
  BY PairFacts
<1> QED
  BY <1>2, <1>3

\* A connection with an end that is not idle has been dialled by the lower id.
LEMMA Dialled ==
    ASSUME ConnInvariant, NEW c \in Pairs, NEW s \in Ends(c), end[c][s] # "idle"
    PROVE  c[1] < c[2] /\ end[c][c[1]] # "idle"
<1>1. s = c[1] \/ s = c[2]
  BY DEF Ends
<1> QED
  BY <1>1 DEF ConnInvariant, DiallerFirst, DialsUpwards

\* An end that has still to be greeted has no writer for the other.
LEMMA NotYetRegistered ==
    ASSUME ConnInvariant, NEW c \in Pairs, NEW s \in Ends(c),
           end[c][s] \notin {"idle", "runs"}
    PROVE  registry[<<s, Other(c, s)>>] = None /\ c \notin broken
<1> DEFINE q == <<s, Other(c, s)>>
<1>1. q \in Pairs /\ Ends(q) = Ends(c) /\ q[1] = s
  BY OtherFacts
<1> HIDE DEF q
<1>2. ASSUME registry[q] # None PROVE FALSE
  <2>1. registry[q] \in Pairs
    BY <1>1, <1>2 DEF ConnInvariant, TypeOK
  <2>2. Ends(registry[q]) = Ends(c) /\ end[registry[q]][s] = "runs"
    BY <1>1, <1>2 DEF ConnInvariant, RegistrySound
  <2>3. registry[q][1] < registry[q][2]
    BY <2>1, <2>2, Dialled
  <2>4. c[1] < c[2]
    BY Dialled
  <2>5. registry[q] = c
    BY <2>1, <2>2, <2>3, <2>4, OneConnection
  <2> QED
    BY <2>2, <2>5
<1>3. c \notin broken
  BY DEF ConnInvariant, BrokenRan
<1> QED
  BY <1>2, <1>3 DEF q

-----------------------------------------------------------------------------
(* The invariant is inductive                                              *)

LEMMA ConnInit ==
    Init => ConnInvariant
<1> SUFFICES ASSUME Init PROVE ConnInvariant
  OBVIOUS
<1>1. EndsTyped /\ \A c \in Pairs : \A s \in Ends(c) : end[c][s] = "idle"
  BY DEF Init, EndsTyped, Phases
<1>2. \A c \in Pairs : c[1] \in Ends(c) /\ c[2] \in Ends(c)
  BY PairFacts
<1>3. TypeOK
  <2>1. tries \in [Node -> 0 .. Attempts - 1]
    BY AttemptsAssumption DEF Init
  <2>2. todo \in [Node -> SUBSET Node] /\ dialing \in [Node -> Node \union {None}]
    BY DEF Init, Dials
  <2>3. registry \in [Pairs -> Pairs \union {None}]
    BY DEF Init
  <2>4. up \subseteq Node /\ broken \subseteq Pairs
    BY DEF Init
  <2>5. \A c \in Pairs : end[c][c[1]] # "greeting"
    BY <1>1, <1>2
  <2> QED
    BY <1>1, <2>1, <2>2, <2>3, <2>4, <2>5 DEF TypeOK, EndsTyped
<1>4. DialsUpwards
  BY <1>1, <1>2 DEF DialsUpwards, Init
<1>5. DiallerFirst
  BY <1>1, <1>2 DEF DiallerFirst
<1>6. RegistrySound
  BY DEF RegistrySound, Init
<1>7. RunsRegistered
  BY <1>1 DEF RunsRegistered
<1>8. BrokenRan
  BY DEF BrokenRan, Init
<1> QED
  BY <1>1, <1>3, <1>4, <1>5, <1>6, <1>7, <1>8 DEF ConnInvariant

\* The dial task of a node goes on with the next peer.
LEMMA NextPeerKeeps ==
    ASSUME ConnInvariant, NEW n \in Node, NextPeer(n)
    PROVE  /\ todo' \in [Node -> SUBSET Node]
           /\ dialing' \in [Node -> Node \union {None}]
           /\ tries' \in [Node -> 0 .. Attempts - 1]
           /\ \A m \in Node :
                /\ todo'[m] \subseteq Dials(m)
                /\ dialing'[m] \in Dials(m) \union {None}
                /\ m # n => dialing'[m] = dialing[m]
<1>1. 0 \in 0 .. Attempts - 1
  BY AttemptsAssumption
<1>2. /\ dialing \in [Node -> Node \union {None}]
      /\ dialing' = [dialing EXCEPT ![n] = None]
      /\ tries \in [Node -> 0 .. Attempts - 1]
      /\ tries' = [tries EXCEPT ![n] = 0]
      /\ todo' = todo /\ todo \in [Node -> SUBSET Node]
  BY DEF NextPeer, ConnInvariant, TypeOK
<1>3. dialing' \in [Node -> Node \union {None}]
  BY <1>2
<1>4. tries' \in [Node -> 0 .. Attempts - 1]
  BY <1>1, <1>2
<1>5. \A m \in Node : dialing'[m] = IF m = n THEN None ELSE dialing[m]
  BY <1>2
<1>6. \A m \in Node : todo[m] \subseteq Dials(m) /\ dialing[m] \in Dials(m) \union {None}
  BY DEF ConnInvariant, DialsUpwards
<1> QED
  BY <1>2, <1>3, <1>4, <1>5, <1>6


\* An end leaves the handshake, with or without a writer.
LEMMA LeaveKeeps ==
    ASSUME ConnInvariant, NEW c \in Pairs, NEW s \in Ends(c),
           NEW phase \in {"runs", "closed"}, end[c][s] = "greeting",
           Leave(c, s, phase),
           phase = "runs" => registry' = [registry EXCEPT ![<<s, Other(c, s)>>] = c],
           phase = "closed" => registry' = registry
    PROVE  ConnInvariant'
<1> DEFINE q == <<s, Other(c, s)>>
<1>1. /\ q \in Pairs /\ Ends(q) = Ends(c) /\ q[1] = s /\ q[2] = Other(c, s)
      /\ registry[q] = None /\ c \notin broken
  BY OtherFacts, NotYetRegistered
<1>2. phase = "runs" => registry' = [registry EXCEPT ![q] = c]
  OBVIOUS
<1> HIDE DEF q
<1>3. /\ EndsTyped' /\ end'[c][s] = phase
      /\ \A d \in Pairs : \A r \in Ends(d) :
            d # c \/ r # s => end'[d][r] = end[d][r]
  <2>1. phase \in Phases /\ end' = [end EXCEPT ![c][s] = phase] /\ EndsTyped
    BY DEF Phases, Leave, ConnInvariant
  <2> QED
    BY <2>1, OnePhase
<1>4. /\ up' = up /\ broken' = broken
      /\ registry \in [Pairs -> Pairs \union {None}]
      /\ registry' \in [Pairs -> Pairs \union {None}]
      /\ \A p \in Pairs :
            registry'[p] = IF p = q /\ phase = "runs" THEN c ELSE registry[p]
  <2>1. registry \in [Pairs -> Pairs \union {None}]
    BY DEF ConnInvariant, TypeOK
  <2>2. up' = up /\ broken' = broken
    BY DEF Leave
  <2> QED
    BY <1>1, <1>2, <2>1, <2>2
<1>5. /\ c[1] \in Node /\ s \in Node
      /\ todo' \in [Node -> SUBSET Node]
      /\ dialing' \in [Node -> Node \union {None}]
      /\ tries' \in [Node -> 0 .. Attempts - 1]
      /\ \A m \in Node :
            /\ todo'[m] \subseteq Dials(m)
            /\ dialing'[m] \in Dials(m) \union {None}
            /\ ~ (m = s /\ s = c[1]) => dialing'[m] = dialing[m]
  <2>1. c[1] \in Node /\ s \in Node
    BY PairFacts DEF Ends
  <2>2. CASE s = c[1]
    <3>1. NextPeer(s)
      BY <2>2 DEF Leave
    <3> QED
      BY <2>1, <2>2, <3>1, NextPeerKeeps
  <2>3. CASE s # c[1]
    <3>1. UNCHANGED <<todo, dialing, tries>>
      BY <2>3 DEF Leave
    <3> QED
      BY <2>1, <2>3, <3>1 DEF ConnInvariant, TypeOK, DialsUpwards
  <2> QED
    BY <2>2, <2>3
<1>6. TypeOK'
  <2>1. ASSUME NEW d \in Pairs, end'[d][d[1]] = "greeting"
        PROVE  dialing'[d[1]] = d[2]
    <3>1. d # c \/ d[1] # s
      BY <1>3, <2>1
    <3>2. d[1] \in Ends(d) /\ d[1] \in Node
      BY PairFacts
    <3>3. dialing[d[1]] = d[2]
      BY <1>3, <2>1, <3>1, <3>2 DEF ConnInvariant, TypeOK
    <3>4. CASE d[1] = s /\ s = c[1]
      <4>1. dialing[c[1]] = c[2]
        BY <3>4 DEF ConnInvariant, TypeOK
      <4>2. d = <<d[1], d[2]>> /\ c = <<c[1], c[2]>>
        BY PairFacts
      <4> QED
        BY <3>1, <3>3, <3>4, <4>1, <4>2
    <3> QED
      BY <1>5, <3>2, <3>3, <3>4
  <2>2. up' \subseteq Node /\ broken' \subseteq Pairs
    BY <1>4 DEF ConnInvariant, TypeOK
  <2> QED
    BY <1>3, <1>4, <1>5, <2>1, <2>2 DEF TypeOK, EndsTyped
<1>7. \A d \in Pairs : \A r \in Ends(d) :
        end'[d][r] = "idle" <=> end[d][r] = "idle"
  BY <1>3
<1>8. DialsUpwards'
  <2>1. \A d \in Pairs : end'[d][d[1]] # "idle" => d[1] < d[2]
    BY <1>7, PairFacts DEF ConnInvariant, DialsUpwards
  <2> QED
    BY <1>5, <2>1 DEF DialsUpwards, Dials
<1>9. DiallerFirst'
  BY <1>7, PairFacts DEF ConnInvariant, DiallerFirst
<1>10. RegistrySound'
  <2> SUFFICES ASSUME NEW p \in Pairs, registry'[p] # None
               PROVE  /\ Ends(registry'[p]) = Ends(p)
                      /\ end'[registry'[p]][p[1]] = "runs"
    BY DEF RegistrySound
  <2>1. CASE p = q /\ phase = "runs"
    BY <1>1, <1>3, <1>4, <2>1
  <2>2. CASE ~ (p = q /\ phase = "runs")
    <3>1. /\ registry'[p] = registry[p] /\ registry[p] \in Pairs
          /\ Ends(registry[p]) = Ends(p) /\ end[registry[p]][p[1]] = "runs"
      BY <1>4, <2>2 DEF ConnInvariant, RegistrySound
    <3>2. p[1] \in Ends(registry[p])
      BY <3>1, PairFacts
    <3> QED
      BY <1>3, <3>1, <3>2
  <2> QED
    BY <2>1, <2>2
<1>11. RunsRegistered'
  <2> SUFFICES ASSUME NEW d \in Pairs, NEW r \in Ends(d), end'[d][r] = "runs"
               PROVE  registry'[<<r, Other(d, r)>>] = d
    BY DEF RunsRegistered
  <2>1. <<r, Other(d, r)>> \in Pairs
    BY OtherFacts
  <2>2. CASE d = c /\ r = s
    <3>1. phase = "runs" /\ <<r, Other(d, r)>> = q
      BY <1>3, <2>2 DEF q
    <3> QED
      BY <1>4, <2>1, <2>2, <3>1
  <2>3. CASE ~ (d = c /\ r = s)
    <3>1. registry[<<r, Other(d, r)>>] = d
      BY <1>3, <2>3 DEF ConnInvariant, RunsRegistered
    <3>2. <<r, Other(d, r)>> # q
      <4>1. d # None
        BY PairFacts
      <4> QED
        BY <1>1, <3>1, <4>1
    <3> QED
      BY <1>4, <2>1, <3>1, <3>2
  <2> QED
    BY <2>2, <2>3
<1>12. BrokenRan'
  <2> SUFFICES ASSUME NEW d \in broken, NEW r \in Ends(d)
               PROVE  end'[d][r] = "runs"
    BY <1>4 DEF BrokenRan
  <2>1. d \in Pairs /\ d # c
    BY <1>1 DEF ConnInvariant, TypeOK
  <2> QED
    BY <1>3, <2>1 DEF ConnInvariant, BrokenRan
<1> QED
  BY <1>3, <1>6, <1>8, <1>9, <1>10, <1>11, <1>12 DEF ConnInvariant


\* Only the dial tasks move: the ends, the registries and what is broken stay.
LEMMA DialTaskKeeps ==
    ASSUME ConnInvariant, UNCHANGED <<end, broken, registry>>,
           up' \subseteq Node,
           todo' \in [Node -> SUBSET Node],
           dialing' \in [Node -> Node \union {None}],
           tries' \in [Node -> 0 .. Attempts - 1],
           \A m \in Node : /\ todo'[m] \subseteq Dials(m)
                           /\ dialing'[m] \in Dials(m) \union {None},
           \A c \in Pairs : end[c][c[1]] = "greeting" => dialing'[c[1]] = c[2]
    PROVE  ConnInvariant'
<1>1. TypeOK'
  BY DEF ConnInvariant, TypeOK
<1>2. DialsUpwards'
  BY DEF ConnInvariant, DialsUpwards, Dials
<1>3. EndsTyped' /\ DiallerFirst'
  BY DEF ConnInvariant, EndsTyped, DiallerFirst
<1>4. RegistrySound' /\ RunsRegistered' /\ BrokenRan'
  BY DEF ConnInvariant, RegistrySound, RunsRegistered, BrokenRan
<1> QED
  BY <1>1, <1>2, <1>3, <1>4 DEF ConnInvariant

\* An end becomes queued or greets, and no writer changes.
LEMMA HandshakeKeeps ==
    ASSUME ConnInvariant, EndsTyped',
           UNCHANGED <<up, todo, dialing, tries, broken, registry>>,
           \A c \in Pairs : \A s \in Ends(c) :
                /\ end'[c][s] = "runs" <=> end[c][s] = "runs"
                /\ end'[c][s] = "idle" => end[c][s] = "idle",
           \A c \in Pairs :
                /\ end'[c][c[1]] # end[c][c[1]] => dialing[c[1]] = c[2]
                /\ end'[c][c[1]] = "idle" => end'[c][c[2]] = "idle"
    PROVE  ConnInvariant'
<1>1. TypeOK'
  <2>1. \A c \in Pairs : end'[c] \in [Ends(c) -> Phases]
    BY DEF EndsTyped
  <2>2. \A c \in Pairs : end'[c][c[1]] = "greeting" => dialing[c[1]] = c[2]
    BY DEF ConnInvariant, TypeOK
  <2> QED
    BY <2>1, <2>2 DEF ConnInvariant, TypeOK
<1>2. DialsUpwards'
  <2>1. ASSUME NEW c \in Pairs, end'[c][c[1]] # "idle" PROVE c[1] < c[2]
    <3>1. CASE end'[c][c[1]] = end[c][c[1]]
      BY <2>1, <3>1 DEF ConnInvariant, DialsUpwards
    <3>2. CASE end'[c][c[1]] # end[c][c[1]]
      <4>1. dialing[c[1]] = c[2] /\ c[1] \in Node /\ c[2] # None
        BY <3>2, PairFacts
      <4>2. c[2] \in Dials(c[1])
        BY <4>1 DEF ConnInvariant, DialsUpwards
      <4> QED
        BY <4>2, PairFacts DEF Dials
    <3> QED
      BY <3>1, <3>2
  <2>2. \A n \in Node :
          todo'[n] \subseteq Dials(n) /\ dialing'[n] \in Dials(n) \union {None}
    BY DEF ConnInvariant, DialsUpwards
  <2> QED
    BY <2>1, <2>2 DEF DialsUpwards, Dials
<1>3. DiallerFirst'
  BY DEF DiallerFirst
<1>4. RegistrySound'
  <2> SUFFICES ASSUME NEW q \in Pairs, registry[q] # None
               PROVE  /\ Ends(registry[q]) = Ends(q)
                      /\ end'[registry[q]][q[1]] = "runs"
    BY DEF RegistrySound
  <2>1. /\ registry[q] \in Pairs /\ Ends(registry[q]) = Ends(q)
        /\ end[registry[q]][q[1]] = "runs"
    BY DEF ConnInvariant, RegistrySound, TypeOK
  <2>2. q[1] \in Ends(registry[q])
    BY <2>1, PairFacts
  <2> QED
    BY <2>1, <2>2
<1>5. RunsRegistered'
  BY DEF ConnInvariant, RunsRegistered
<1>6. BrokenRan'
  BY DEF ConnInvariant, BrokenRan, TypeOK
<1> QED
  BY <1>1, <1>2, <1>3, <1>4, <1>5, <1>6 DEF ConnInvariant

LEMMA StartKeeps ==
    ASSUME ConnInvariant, NEW n \in Node, Start(n) PROVE ConnInvariant'
<1>1. /\ UNCHANGED <<todo, dialing, tries, end, broken, registry>>
      /\ up' \subseteq Node
  BY DEF Start, ConnInvariant, TypeOK
<1> QED
  BY <1>1, DialTaskKeeps DEF ConnInvariant, TypeOK, DialsUpwards

\* A node that visits its next peer, or calls one that does not listen, has no
\* handshake of its own going on.
LEMMA FreeDialler ==
    ASSUME ConnInvariant, NEW n \in Node, NEW c \in Pairs, c[1] = n,
           dialing[n] = None \/ end[<<n, dialing[n]>>][n] = "idle"
    PROVE  end[c][n] # "greeting"
<1>1. c = <<c[1], c[2]>> /\ c[2] # None
  BY PairFacts
<1>2. end[c][n] = "greeting" => dialing[n] = c[2]
  BY DEF ConnInvariant, TypeOK
<1> QED
  BY <1>1, <1>2

LEMMA VisitKeeps ==
    ASSUME ConnInvariant, NEW n \in Node, NEW p \in Node \ {n}, Visit(n, p)
    PROVE  ConnInvariant'
<1>1. /\ dialing[n] = None /\ p \in todo[n]
      /\ dialing' = [dialing EXCEPT ![n] = p]
      /\ todo' = [todo EXCEPT ![n] = @ \ {p}]
      /\ UNCHANGED <<up, tries, end, broken, registry>>
  BY DEF Visit
<1>2. /\ todo \in [Node -> SUBSET Node]
      /\ dialing \in [Node -> Node \union {None}]
      /\ tries \in [Node -> 0 .. Attempts - 1] /\ up \subseteq Node
  BY DEF ConnInvariant, TypeOK
<1>3. /\ todo' \in [Node -> SUBSET Node]
      /\ \A m \in Node : todo'[m] \subseteq todo[m]
  BY <1>1, <1>2
<1>4. /\ dialing' \in [Node -> Node \union {None}]
      /\ \A m \in Node : dialing'[m] = IF m = n THEN p ELSE dialing[m]
  BY <1>1, <1>2
<1>5. \A m \in Node :
        todo[m] \subseteq Dials(m) /\ dialing[m] \in Dials(m) \union {None}
  BY DEF ConnInvariant, DialsUpwards
<1>6. \A m \in Node :
        todo'[m] \subseteq Dials(m) /\ dialing'[m] \in Dials(m) \union {None}
  BY <1>1, <1>3, <1>4, <1>5
<1>7. ASSUME NEW c \in Pairs, end[c][c[1]] = "greeting"
      PROVE  dialing'[c[1]] = c[2]
  <2>1. c[1] # n
    BY <1>1, <1>7, FreeDialler
  <2>2. c[1] \in Node /\ dialing[c[1]] = c[2]
    BY <1>7, PairFacts DEF ConnInvariant, TypeOK
  <2> QED
    BY <1>4, <2>1, <2>2
<1> QED
  BY <1>1, <1>2, <1>3, <1>4, <1>6, <1>7, DialTaskKeeps

LEMMA RefusedKeeps ==
    ASSUME ConnInvariant, NEW n \in Node, NEW p \in Node \ {n}, Refused(n, p)
    PROVE  ConnInvariant'
<1>1. /\ dialing[n] = p /\ end[<<n, p>>][n] = "idle"
      /\ UNCHANGED <<up, end, broken, registry>>
  BY DEF Refused, Calls
<1>2. /\ todo \in [Node -> SUBSET Node]
      /\ dialing \in [Node -> Node \union {None}]
      /\ tries \in [Node -> 0 .. Attempts - 1] /\ up \subseteq Node
      /\ \A m \in Node :
            todo[m] \subseteq Dials(m) /\ dialing[m] \in Dials(m) \union {None}
      /\ \A c \in Pairs : end[c][c[1]] = "greeting" => dialing[c[1]] = c[2]
  BY DEF ConnInvariant, TypeOK, DialsUpwards
<1>3. CASE tries[n] + 1 < Attempts
  <2>1. tries' = [tries EXCEPT ![n] = @ + 1] /\ UNCHANGED <<todo, dialing>>
    BY <1>3 DEF Refused
  <2>2. tries[n] + 1 \in 0 .. Attempts - 1
    BY <1>2, <1>3, AttemptsAssumption
  <2>3. tries' \in [Node -> 0 .. Attempts - 1]
    BY <1>2, <2>1, <2>2
  <2> QED
    BY <1>1, <1>2, <2>1, <2>3, DialTaskKeeps
<1>4. CASE ~ (tries[n] + 1 < Attempts)
  <2>1. NextPeer(n)
    BY <1>4 DEF Refused
  <2>2. /\ todo' \in [Node -> SUBSET Node]
        /\ dialing' \in [Node -> Node \union {None}]
        /\ tries' \in [Node -> 0 .. Attempts - 1]
        /\ \A m \in Node :
             /\ todo'[m] \subseteq Dials(m)
             /\ dialing'[m] \in Dials(m) \union {None}
             /\ m # n => dialing'[m] = dialing[m]
    BY <2>1, NextPeerKeeps
  <2>3. ASSUME NEW c \in Pairs, end[c][c[1]] = "greeting"
        PROVE  dialing'[c[1]] = c[2]
    <3>1. c[1] # n
      BY <1>1, <2>3, FreeDialler
    <3>2. c[1] \in Node
      BY PairFacts
    <3> QED
      BY <1>2, <2>2, <2>3, <3>1, <3>2
  <2> QED
    BY <1>1, <1>2, <2>2, <2>3, DialTaskKeeps
<1> QED
  BY <1>3, <1>4

LEMMA ConnectKeeps ==
    ASSUME ConnInvariant, NEW n \in Node, NEW p \in Node \ {n}, Connect(n, p)
    PROVE  ConnInvariant'
<1> DEFINE c == <<n, p>>
<1>1. c \in Pairs /\ c[1] = n /\ c[2] = p /\ n \in Ends(c) /\ p \in Ends(c) /\ n # p
  BY DEF Pairs, Ends
<1>2. /\ dialing[n] = p /\ end[c][n] = "idle"
      /\ end' = [end EXCEPT ![c][n] = "greeting", ![c][p] = "queued"]
      /\ UNCHANGED <<up, todo, dialing, tries, broken, registry>>
  BY DEF Connect, Calls
<1> HIDE DEF c
<1>3. EndsTyped /\ "greeting" \in Phases /\ "queued" \in Phases
  BY DEF ConnInvariant, Phases
<1> DEFINE new == [end[c] EXCEPT ![n] = "greeting", ![p] = "queued"]
<1>4. /\ new \in [Ends(c) -> Phases] /\ new[n] = "greeting" /\ new[p] = "queued"
      /\ \A r \in Ends(c) : r # n /\ r # p => new[r] = end[c][r]
  BY <1>1, <1>3 DEF EndsTyped
<1>5. end' = [end EXCEPT ![c] = new]
  BY <1>2
<1> HIDE DEF new
<1>6. end' = [d \in Pairs |-> IF d = c THEN new ELSE end[d]]
  BY <1>3, <1>5 DEF EndsTyped
<1>7. \A d \in Pairs : end'[d] = IF d = c THEN new ELSE end[d]
  BY <1>6
<1>8. EndsTyped'
  <2>1. end' = [d \in Pairs |-> end'[d]]
    BY <1>6
  <2>2. \A d \in Pairs : end'[d] \in [Ends(d) -> Phases]
    BY <1>3, <1>4, <1>7 DEF EndsTyped
  <2> QED
    BY <2>1, <2>2 DEF EndsTyped
<1>9. end[c][p] = "idle"
  BY <1>1, <1>2 DEF ConnInvariant, DiallerFirst
<1>10. Ends(c) = {n, p}
  BY <1>1 DEF Ends
<1>11. \A d \in Pairs : \A s \in Ends(d) :
        /\ end'[d][s] = "runs" <=> end[d][s] = "runs"
        /\ end'[d][s] = "idle" => end[d][s] = "idle"
  <2> SUFFICES ASSUME NEW d \in Pairs, NEW s \in Ends(d)
               PROVE  /\ end'[d][s] = "runs" <=> end[d][s] = "runs"
                      /\ end'[d][s] = "idle" => end[d][s] = "idle"
    OBVIOUS
  <2>1. CASE d # c
    BY <1>7, <2>1
  <2>2. CASE d = c /\ s = n
    BY <1>2, <1>4, <1>7, <2>2
  <2>3. CASE d = c /\ s = p
    BY <1>4, <1>7, <1>9, <2>3
  <2> QED
    BY <1>10, <2>1, <2>2, <2>3
<1>12. \A d \in Pairs :
        /\ end'[d][d[1]] # end[d][d[1]] => dialing[d[1]] = d[2]
        /\ end'[d][d[1]] = "idle" => end'[d][d[2]] = "idle"
  <2> SUFFICES ASSUME NEW d \in Pairs
               PROVE  /\ end'[d][d[1]] # end[d][d[1]] => dialing[d[1]] = d[2]
                      /\ end'[d][d[1]] = "idle" => end'[d][d[2]] = "idle"
    OBVIOUS
  <2>1. CASE d # c
    <3>1. end'[d] = end[d]
      BY <1>7, <2>1
    <3> QED
      BY <3>1 DEF ConnInvariant, DiallerFirst
  <2>2. CASE d = c
    <3>1. dialing[d[1]] = d[2]
      BY <1>1, <1>2, <2>2
    <3>2. end'[d][d[1]] = "greeting"
      BY <1>1, <1>4, <1>7, <2>2
    <3> QED
      BY <3>1, <3>2
  <2> QED
    BY <2>1, <2>2
<1> QED
  BY <1>2, <1>8, <1>11, <1>12, HandshakeKeeps

LEMMA AcceptKeeps ==
    ASSUME ConnInvariant, NEW c \in Pairs, Accept(c) PROVE ConnInvariant'
<1>1. /\ c[1] \in Ends(c) /\ c[2] \in Ends(c) /\ c[1] # c[2]
      /\ end[c][c[2]] = "queued"
      /\ end' = [end EXCEPT ![c][c[2]] = "greeting"]
      /\ UNCHANGED <<up, todo, dialing, tries, broken, registry>>
  BY PairFacts DEF Accept
<1>2. /\ EndsTyped' /\ end'[c][c[2]] = "greeting"
      /\ \A d \in Pairs : \A r \in Ends(d) :
            d # c \/ r # c[2] => end'[d][r] = end[d][r]
  <2>1. PICK s \in Ends(c), phase \in Phases :
          /\ s = c[2] /\ phase = "greeting"
          /\ end' = [end EXCEPT ![c][s] = phase]
    BY <1>1 DEF Phases
  <2>2. EndsTyped
    BY DEF ConnInvariant
  <2>3. /\ EndsTyped' /\ end'[c][s] = phase
        /\ \A d \in Pairs : \A r \in Ends(d) :
              d # c \/ r # s => end'[d][r] = end[d][r]
    <3>1. end' = [end EXCEPT ![c][s] = phase]
      BY <2>1
    <3> QED
      BY <2>2, <3>1, OnePhase, ZenonT(60)
  <2> QED
    BY <2>1, <2>3
<1>3. \A d \in Pairs : \A s \in Ends(d) :
        /\ end'[d][s] = "runs" <=> end[d][s] = "runs"
        /\ end'[d][s] = "idle" => end[d][s] = "idle"
  BY <1>1, <1>2
<1>4. \A d \in Pairs : end'[d][d[1]] = end[d][d[1]]
  BY <1>1, <1>2, PairFacts
<1>5. \A d \in Pairs : end'[d][d[1]] = "idle" => end'[d][d[2]] = "idle"
  <2> SUFFICES ASSUME NEW d \in Pairs, end'[d][d[1]] = "idle"
               PROVE  end'[d][d[2]] = "idle"
    OBVIOUS
  <2>1. end[d][d[2]] = "idle" /\ d[2] \in Ends(d)
    BY <1>4, PairFacts DEF ConnInvariant, DiallerFirst
  <2> QED
    BY <1>1, <1>2, <2>1
<1> QED
  BY <1>1, <1>2, <1>3, <1>4, <1>5, HandshakeKeeps

LEMMA BreakKeeps ==
    ASSUME ConnInvariant, NEW c \in Pairs, Break(c) PROVE ConnInvariant'
<1>1. /\ \A s \in Ends(c) : end[c][s] = "runs"
      /\ broken' = broken \union {c}
      /\ UNCHANGED <<up, todo, dialing, tries, end, registry>>
  BY DEF Break
<1>2. TypeOK'
  BY <1>1 DEF ConnInvariant, TypeOK
<1>3. DialsUpwards'
  BY <1>1 DEF ConnInvariant, DialsUpwards, Dials
<1>4. EndsTyped' /\ DiallerFirst'
  BY <1>1 DEF ConnInvariant, EndsTyped, DiallerFirst
<1>5. RegistrySound' /\ RunsRegistered'
  BY <1>1 DEF ConnInvariant, RegistrySound, RunsRegistered
<1>6. BrokenRan'
  BY <1>1 DEF ConnInvariant, BrokenRan
<1> QED
  BY <1>2, <1>3, <1>4, <1>5, <1>6 DEF ConnInvariant

LEMMA EndLeaves ==
    ASSUME ConnInvariant, NEW c \in Pairs, NEW s \in Ends(c),
           Greeted(c, s) \/ Failed(c, s) \/ TimesOut(c, s)
    PROVE  ConnInvariant'
<1>1. CASE Greeted(c, s)
  <2>1. /\ end[c][s] = "greeting" /\ Leave(c, s, "runs")
        /\ registry' = [registry EXCEPT ![<<s, Other(c, s)>>] = c]
    BY <1>1 DEF Greeted
  <2> QED
    BY <2>1, LeaveKeeps
<1>2. CASE Failed(c, s) \/ TimesOut(c, s)
  <2>1. end[c][s] = "greeting" /\ Leave(c, s, "closed") /\ registry' = registry
    BY <1>2 DEF Failed, TimesOut
  <2> QED
    BY <2>1, LeaveKeeps
<1> QED
  BY <1>1, <1>2


LEMMA ConnNext ==
    ConnInvariant /\ [Next]_vars => ConnInvariant'
<1> SUFFICES ASSUME ConnInvariant, [Next]_vars PROVE ConnInvariant'
  OBVIOUS
<1>1. ASSUME NEW n \in Node, Start(n) PROVE ConnInvariant'
  BY <1>1, StartKeeps
<1>2. ASSUME NEW n \in Node, Dial(n) PROVE ConnInvariant'
  <2>1. PICK p \in Node \ {n} : Visit(n, p) \/ Refused(n, p) \/ Connect(n, p)
    BY <1>2 DEF Dial
  <2> QED
    BY <2>1, VisitKeeps, RefusedKeeps, ConnectKeeps
<1>3. ASSUME NEW c \in Pairs, Accept(c) PROVE ConnInvariant'
  BY <1>3, AcceptKeeps
<1>4. ASSUME NEW c \in Pairs, Break(c) PROVE ConnInvariant'
  BY <1>4, BreakKeeps
<1>5. ASSUME NEW c \in Pairs, NEW s \in Ends(c),
             Greeted(c, s) \/ Failed(c, s) \/ TimesOut(c, s)
      PROVE  ConnInvariant'
  BY <1>5, EndLeaves
<1>6. CASE UNCHANGED vars
  <2>1. UNCHANGED <<up, todo, dialing, tries, end, broken, registry>>
    BY <1>6 DEF vars
  <2> QED
    BY <2>1, DialTaskKeeps DEF ConnInvariant, TypeOK, DialsUpwards
<1> QED
  BY <1>1, <1>2, <1>3, <1>4, <1>5, <1>6 DEF Next

LEMMA ConnInvariantHolds ==
    Spec => []ConnInvariant
BY ConnInit, ConnNext, PTL DEF Spec

\* Every variable keeps its type, in every cluster: dial_peers never counts
\* more failed attempts than it may make, and a handshake that a node has
\* dialled is the one its dial task waits for.
THEOREM ConnectionsTyped ==
    Spec => []TypeOK
<1>1. ConnInvariant => TypeOK
  BY DEF ConnInvariant
<1> QED
  BY ConnInvariantHolds, <1>1, PTL

-----------------------------------------------------------------------------
(* Connections implements Links                                            *)

\* The link of a pair, as the refinement mapping has it.
LinkOf(p) ==
    CASE registry[p] = None -> "absent"
      [] registry[p] \in broken -> "broken"
      [] OTHER -> "open"

LEMMA LinkOfCases ==
    ASSUME ConnInvariant, NEW p \in Pairs
    PROVE  /\ registry[p] = None => LinkOf(p) = "absent"
           /\ registry[p] # None /\ registry[p] \in broken => LinkOf(p) = "broken"
           /\ registry[p] # None /\ registry[p] \notin broken => LinkOf(p) = "open"
<1>1. None \notin broken
  BY NoneAssumption DEF ConnInvariant, TypeOK
<1> QED
  BY <1>1 DEF LinkOf


LinkMap == [p \in Pairs |-> LinkOf(p)]

\* The first end of a pair to be greeted opens its direction.
LEMMA GreetedOpens ==
    ASSUME ConnInvariant, ConnInvariant', NEW c \in Pairs, NEW s \in Ends(c),
           Greeted(c, s)
    PROVE  \E q \in Pairs : /\ LinkMap[q] = "absent"
                            /\ LinkMap' = [LinkMap EXCEPT ![q] = "open"]
<1> DEFINE q == <<s, Other(c, s)>>
<1>1. /\ q \in Pairs /\ registry[q] = None /\ c \notin broken /\ c # None
      /\ registry' = [registry EXCEPT ![q] = c]
      /\ broken' = broken
  <2>1. end[c][s] = "greeting" /\ Leave(c, s, "runs")
    BY DEF Greeted
  <2>2. broken' = broken
    BY <2>1 DEF Leave
  <2> QED
    BY <2>1, <2>2, NotYetRegistered, OtherFacts, PairFacts DEF Greeted
<1> HIDE DEF q
<1>2. \A p \in Pairs : registry'[p] = IF p = q THEN c ELSE registry[p]
  BY <1>1 DEF ConnInvariant, TypeOK
<1>3. LinkMap[q] = "absent"
  BY <1>1, LinkOfCases DEF LinkMap
<1>4. \A p \in Pairs : LinkOf(p)' = IF p = q THEN "open" ELSE LinkOf(p)
  <2> SUFFICES ASSUME NEW p \in Pairs
               PROVE  LinkOf(p)' = IF p = q THEN "open" ELSE LinkOf(p)
    OBVIOUS
  <2>1. CASE p = q
    BY <1>1, <1>2, <2>1 DEF LinkOf
  <2>2. CASE p # q
    BY <1>1, <1>2, <2>2 DEF LinkOf
  <2> QED
    BY <2>1, <2>2
<1>5. LinkMap' = [LinkMap EXCEPT ![q] = "open"]
  BY <1>1, <1>4 DEF LinkMap
<1> QED
  BY <1>1, <1>3, <1>5

\* A failure breaks the two directions that the connection carries, no other.
LEMMA BreakCutsBoth ==
    ASSUME ConnInvariant, ConnInvariant', NEW c \in Pairs, Break(c)
    PROVE  LET q == <<c[2], c[1]>> IN
           /\ q \in Pairs /\ LinkMap[c] = "open" /\ LinkMap[q] = "open"
           /\ LinkMap' = [LinkMap EXCEPT ![c] = "broken", ![q] = "broken"]
<1> DEFINE q == <<c[2], c[1]>>
<1>1. /\ c \notin broken /\ broken' = broken \union {c} /\ registry' = registry
      /\ \A s \in Ends(c) : end[c][s] = "runs"
  BY DEF Break
<1>2. /\ c = <<c[1], c[2]>> /\ c[1] # c[2] /\ c[1] \in Ends(c) /\ c[2] \in Ends(c)
      /\ c # None
  BY PairFacts
<1>3. q \in Pairs /\ q # c /\ q[1] = c[2] /\ q[2] = c[1]
  BY <1>2 DEF Pairs
<1>4. registry[c] = c /\ registry[q] = c
  <2>1. Other(c, c[1]) = c[2] /\ Other(c, c[2]) = c[1]
    BY <1>2 DEF Other
  <2>2. registry[<<c[1], Other(c, c[1])>>] = c /\ registry[<<c[2], Other(c, c[2])>>] = c
    BY <1>1, <1>2 DEF ConnInvariant, RunsRegistered
  <2> QED
    BY <1>2, <2>1, <2>2
<1> HIDE DEF q
<1>5. \A p \in Pairs : registry[p] = c => p = c \/ p = q
  <2> SUFFICES ASSUME NEW p \in Pairs, registry[p] = c PROVE p = c \/ p = q
    OBVIOUS
  <2>1. Ends(c) = Ends(p)
    BY <1>2 DEF ConnInvariant, RegistrySound
  <2>2. p = <<p[1], p[2]>> /\ p[1] # p[2]
    BY PairFacts
  <2>3. \/ p[1] = c[1] /\ p[2] = c[2]
        \/ p[1] = c[2] /\ p[2] = c[1]
    BY <2>1, <2>2 DEF Ends
  <2> QED
    BY <1>2, <2>2, <2>3 DEF q
<1>6. LinkMap[c] = "open" /\ LinkMap[q] = "open"
  BY <1>1, <1>2, <1>3, <1>4, LinkOfCases DEF LinkMap
<1>7. \A p \in Pairs :
        LinkOf(p)' = IF p = q THEN "broken" ELSE IF p = c THEN "broken" ELSE LinkOf(p)
  <2> SUFFICES ASSUME NEW p \in Pairs
               PROVE  LinkOf(p)' = IF p = q \/ p = c THEN "broken" ELSE LinkOf(p)
    OBVIOUS
  <2>1. CASE p = q \/ p = c
    BY <1>1, <1>2, <1>4, <2>1 DEF LinkOf
  <2>2. CASE ~ (p = q \/ p = c)
    <3>1. registry[p] # c
      BY <1>5, <2>2
    <3> QED
      BY <1>1, <2>2, <3>1 DEF LinkOf
  <2> QED
    BY <2>1, <2>2
<1>8. LinkMap' = [LinkMap EXCEPT ![c] = "broken", ![q] = "broken"]
  BY <1>3, <1>7 DEF LinkMap
<1> QED
  BY <1>3, <1>6, <1>8 DEF q

LEMMA LinkInit ==
    Init => Abstract!Init
<1> SUFFICES ASSUME Init PROVE Abstract!Init
  OBVIOUS
<1>1. \A p \in Pairs : registry[p] = None
  BY DEF Init
<1>2. \A p \in Pairs : LinkOf(p) = "absent"
  BY <1>1, ConnInit, LinkOfCases
<1>3. [p \in Pairs |-> LinkOf(p)] = [p \in Pairs |-> "absent"]
  BY <1>2
<1> QED
  BY <1>3 DEF LinkOf, Abstract!Init, Abstract!Pairs, Pairs

\* Every step opens one link, breaks both directions of one, or leaves them.
LEMMA LinkStep ==
    ASSUME ConnInvariant, ConnInvariant', [Next]_vars
    PROVE  \/ LinkMap' = LinkMap
           \/ \E q \in Pairs : /\ LinkMap[q] = "absent"
                               /\ LinkMap' = [LinkMap EXCEPT ![q] = "open"]
           \/ \E c \in Pairs :
                LET q == <<c[2], c[1]>> IN
                /\ q \in Pairs /\ LinkMap[c] = "open" /\ LinkMap[q] = "open"
                /\ LinkMap' = [LinkMap EXCEPT ![c] = "broken", ![q] = "broken"]
<1>1. registry' = registry /\ broken' = broken => LinkMap' = LinkMap
  BY DEF LinkMap, LinkOf
<1>2. CASE \E c \in Pairs : \E s \in Ends(c) : Greeted(c, s)
  BY <1>2, GreetedOpens
<1>3. CASE \E c \in Pairs : Break(c)
  BY <1>3, BreakCutsBoth
<1>4. CASE \E n \in Node : Start(n) \/ Dial(n)
  BY <1>1, <1>4 DEF Start, Dial, Visit, Refused, Connect
<1>5. CASE \E c \in Pairs : Accept(c)
  BY <1>1, <1>5 DEF Accept
<1>6. CASE \E c \in Pairs : \E s \in Ends(c) : Failed(c, s) \/ TimesOut(c, s)
  BY <1>1, <1>6 DEF Failed, TimesOut, Leave
<1>7. CASE UNCHANGED vars
  BY <1>1, <1>7 DEF vars
<1> QED
  BY <1>2, <1>3, <1>4, <1>5, <1>6, <1>7 DEF Next

LEMMA LinkNext ==
    ConnInvariant /\ ConnInvariant' /\ [Next]_vars
        => [Abstract!Next]_LinkMap
<1> SUFFICES ASSUME ConnInvariant, ConnInvariant', [Next]_vars, LinkMap' # LinkMap
             PROVE  Abstract!Next
  OBVIOUS
<1>1. Abstract!Pairs = Pairs
  BY DEF Abstract!Pairs, Pairs
<1>2. \A q : Abstract!Register(q) <=>
        LinkMap[q] = "absent" /\ LinkMap' = [LinkMap EXCEPT ![q] = "open"]
  BY Zenon DEF Abstract!Register, LinkMap, LinkOf
<1>3. \A c : Abstract!BreakLink(c) <=>
        LET q == <<c[2], c[1]>> IN
        /\ LinkMap[c] = "open" /\ LinkMap[q] = "open"
        /\ LinkMap' = [LinkMap EXCEPT ![c] = "broken", ![q] = "broken"]
  BY Zenon DEF Abstract!BreakLink, LinkMap, LinkOf
<1> QED
  BY <1>1, <1>2, <1>3, LinkStep DEF Abstract!Next

\* The network layer gives the core the links that it relies on, in every
\* cluster and however slow or fragile its connections are: no writer is
\* replaced by that of another connection, a failure cuts both directions of
\* a connection, and what is cut stays cut.
THEOREM LinksImplemented ==
    Spec => ImplementsLinks
BY LinkInit, LinkNext, ConnInvariantHolds, PTL
   DEF Spec, ImplementsLinks, Abstract!Spec, LinkMap, LinkOf

=============================================================================
