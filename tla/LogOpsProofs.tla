---------------------------- MODULE LogOpsProofs ----------------------------
(* Facts about the operators of LogOps, for every log.                     *)
EXTENDS LogOps, TLAPS, WellFoundedInduction

\* The least of two integers.
LEMMA MinOfPair ==
    ASSUME NEW a \in Int, NEW b \in Int
    PROVE  /\ Min({a, b}) = IF a <= b THEN a ELSE b
           /\ Max({a, b}) = IF a >= b THEN a ELSE b
<1>1. \E x \in {a, b} : \A y \in {a, b} : x =< y
  OBVIOUS
<1>2. \E x \in {a, b} : \A y \in {a, b} : x >= y
  OBVIOUS
<1>3. Min({a, b}) \in {a, b} /\ \A y \in {a, b} : Min({a, b}) =< y
  BY <1>1 DEF Min
<1>4. Max({a, b}) \in {a, b} /\ \A y \in {a, b} : Max({a, b}) >= y
  BY <1>2 DEF Max
<1> QED
  BY <1>3, <1>4

\* A non-empty set of natural numbers has a least element, and Min is it.
LEMMA MinOfNats ==
    ASSUME NEW T \in SUBSET Nat, T # {}
    PROVE  Min(T) \in T /\ \A y \in T : Min(T) <= y
<1> DEFINE R == {ss \in Nat \X Nat : ss[1] < ss[2]}
<1>1. IsWellFoundedOn(R, Nat)
  BY NatLessThanWellFounded DEF OpToRel
<1>2. PICK x \in T : \A y \in T : ~ (<<y, x>> \in R)
  <2> HIDE DEF R
  <2> QED BY <1>1, WFMin
<1>3. \A y \in T : x =< y
  <2> SUFFICES ASSUME NEW y \in T PROVE x =< y
    OBVIOUS
  <2>1. ~ (<<y, x>> \in R)
    BY <1>2
  <2> QED BY <2>1
<1> QED
  BY <1>3 DEF Min

\* A non-empty set of integers between two bounds has a greatest element.
LEMMA MaxOfInterval ==
    ASSUME NEW first \in Int, NEW last \in Int,
           NEW T \in SUBSET (first .. last), T # {}
    PROVE  Max(T) \in T /\ \A y \in T : Max(T) >= y
<1> DEFINE U == {last - y : y \in T}
<1>1. U \in SUBSET Nat /\ U # {}
  <2>1. \A y \in T : last - y \in Nat
    OBVIOUS
  <2>2. \E y \in T : last - y \in U
    OBVIOUS
  <2> QED
    BY <2>1, <2>2
<1>2. Min(U) \in U /\ \A u \in U : Min(U) <= u
  <2> HIDE DEF U
  <2> QED BY <1>1, MinOfNats
<1>3. PICK x \in T : Min(U) = last - x
  BY <1>2
<1>4. \A y \in T : x >= y
  <2> SUFFICES ASSUME NEW y \in T PROVE x >= y
    OBVIOUS
  <2>1. Min(U) <= last - y
    BY <1>2
  <2> QED
    BY <1>3, <2>1
<1> QED
  BY <1>4 DEF Max

\* At and LastIndex stay within the sequence.
LEMMA AtType ==
    ASSUME NEW E, NEW l \in Seq(E), NEW i \in 0 .. LastIndex(l)
    PROVE  At(l, i) \in E
BY DEF At, LastIndex

\* Applying any part of a log keeps the values of the store among those of the
\* entries.
LEMMA ReplayType ==
    ASSUME NEW E, NEW K, NEW V, NEW store \in [K -> V], NEW l \in Seq(E),
           \A e \in E : e.request.value \in V,
           NEW first \in Nat, NEW last \in Int, last <= LastIndex(l)
    PROVE  Replay(store, l, first, last) \in [K -> V]
<1> SUFFICES ASSUME NEW k \in K
             PROVE  Replay(store, l, first, last)[k] \in V
  BY DEF Replay
<1> DEFINE writes == {i \in first .. last : At(l, i).request.key = k}
<1>1. Replay(store, l, first, last)[k] =
        IF writes = {} THEN store[k] ELSE At(l, Max(writes)).request.value
  BY DEF Replay
<1>2. CASE writes = {}
  BY <1>1, <1>2
<1>3. CASE writes # {}
  <2>1. writes \in SUBSET (first .. last)
    OBVIOUS
  <2>2. Max(writes) \in first .. last
    <3> HIDE DEF writes
    <3>1. first \in Int
      OBVIOUS
    <3>2. Max(writes) \in writes
      BY <1>3, <2>1, <3>1, MaxOfInterval, Zenon
    <3> QED
      BY <3>2, <2>1
  <2>3. LastIndex(l) \in Int
    BY DEF LastIndex
  <2>4. Max(writes) \in 0 .. LastIndex(l)
    <3> HIDE DEF writes
    <3> QED BY <2>2, <2>3
  <2>5. At(l, Max(writes)) \in E
    BY <2>4, AtType
  <2> QED
    BY <1>1, <1>3, <2>5
<1> QED
  BY <1>2, <1>3

\* The first new position of a message that has one.
LEMMA FirstNewPosition ==
    ASSUME NEW l, NEW es, Len(es) \in Nat, NewPositions(l, es) # {}
    PROVE  /\ Min(NewPositions(l, es)) \in NewPositions(l, es)
           /\ \A j \in NewPositions(l, es) : Min(NewPositions(l, es)) <= j
<1>1. NewPositions(l, es) \in SUBSET Nat
  BY DEF NewPositions
<1> QED
  BY <1>1, MinOfNats

\* Unless it panics, delete_conflicting_and_append_new_entries leaves a log.
LEMMA AppendNewEntriesType ==
    ASSUME NEW E, NEW l \in Seq(E), NEW es \in Seq(E),
           \A e \in E : e.index \in Nat, ~ LeavesGap(l, es)
    PROVE  AppendNewEntries(l, es) \in Seq(E)
<1>1. CASE NewPositions(l, es) = {}
  BY <1>1 DEF AppendNewEntries
<1>2. CASE NewPositions(l, es) # {}
  <2> DEFINE j == Min(NewPositions(l, es))
  <2>1. j \in 1 .. Len(es)
    <3>1. j \in NewPositions(l, es)
      BY <1>2, FirstNewPosition
    <3> QED
      BY <3>1 DEF NewPositions
  <2>2. es[j] \in E /\ es[j].index \in Nat /\ es[j].index <= Len(l)
    BY <1>2, <2>1 DEF LeavesGap
  <2>3. SubSeq(l, 1, es[j].index) \in Seq(E)
    <3> HIDE DEF j
    <3> QED BY <2>2
  <2>4. SubSeq(es, j, Len(es)) \in Seq(E)
    <3> HIDE DEF j
    <3> QED BY <2>1
  <2>5. AppendNewEntries(l, es)
          = SubSeq(l, 1, es[j].index) \o SubSeq(es, j, Len(es))
    BY <1>2 DEF AppendNewEntries
  <2> QED
    BY <2>3, <2>4, <2>5
<1> QED
  BY <1>1, <1>2

\* What it leaves: the log up to the index of the first new entry, then the
\* entries of the message from that one on.
LEMMA AppendNewEntriesElements ==
    ASSUME NEW E, NEW l \in Seq(E), NEW es \in Seq(E),
           \A e \in E : e.index \in Nat, ~ LeavesGap(l, es),
           NewPositions(l, es) # {}
    PROVE  LET j == Min(NewPositions(l, es))
               base == es[j].index
               r == AppendNewEntries(l, es)
           IN  /\ j \in 1 .. Len(es) /\ base \in 0 .. Len(l)
               /\ Len(r) = base + (Len(es) - j + 1)
               /\ \A k \in 1 .. Len(r) :
                     r[k] = IF k <= base THEN l[k] ELSE es[k - base + j - 1]
<1> DEFINE j == Min(NewPositions(l, es))
           base == es[j].index
           r == AppendNewEntries(l, es)
<1>1. j \in 1 .. Len(es)
  <2>1. j \in NewPositions(l, es)
    BY FirstNewPosition
  <2> QED
    BY <2>1 DEF NewPositions
<1>2. base \in 0 .. Len(l)
  <2>1. es[j] \in E
    BY <1>1
  <2>2. base \in Nat /\ base <= Len(l)
    BY <2>1 DEF LeavesGap
  <2> QED
    BY <2>2
<1>3. r = SubSeq(l, 1, base) \o SubSeq(es, j, Len(es))
  BY DEF AppendNewEntries
<1> HIDE DEF j, base, r
<1> DEFINE head == SubSeq(l, 1, base)
           tail == SubSeq(es, j, Len(es))
<1>4. /\ head \in Seq(E) /\ Len(head) = base
      /\ \A k \in 1 .. base : head[k] = l[k]
  BY <1>2
<1>5. /\ tail \in Seq(E) /\ Len(tail) = Len(es) - j + 1
      /\ \A k \in 1 .. Len(tail) : tail[k] = es[k + j - 1]
  BY <1>1
<1>6. r = head \o tail
  BY <1>3
<1> HIDE DEF head, tail
<1>7. Len(r) = base + Len(tail)
  <2>1. Len(head \o tail) = Len(head) + Len(tail)
    <3>1. head \in Seq(E) /\ tail \in Seq(E)
      BY <1>4, <1>5
    <3> QED
      BY <3>1
  <2> QED
    BY <1>4, <1>6, <2>1
<1>8. ASSUME NEW k \in 1 .. Len(r)
      PROVE  r[k] = IF k <= base THEN l[k] ELSE es[k - base + j - 1]
  <2>1. CASE k <= base
    BY <1>2, <1>4, <1>5, <1>6, <2>1
  <2>2. CASE k > base
    <3>1. r[k] = tail[k - base]
      BY <1>2, <1>4, <1>5, <1>6, <1>7, <2>2
    <3>2. Len(tail) \in Nat /\ k - base \in 1 .. Len(tail)
      BY <1>2, <1>5, <1>7, <2>2
    <3>3. tail[k - base] = es[(k - base) + j - 1]
      BY <1>5, <3>2
    <3> QED
      BY <2>2, <3>1, <3>3, <1>2
  <2> QED
    BY <1>2, <2>1, <2>2
<1> QED
  BY <1>1, <1>2, <1>5, <1>7, <1>8 DEF j, base, r

\* What is applied depends on the part of the log that is applied.
LEMMA ReplaySame ==
    ASSUME NEW store, NEW l, NEW k, NEW first \in Int, NEW last \in Int,
           \A i \in first .. last : At(l, i) = At(k, i)
    PROVE  Replay(store, l, first, last) = Replay(store, k, first, last)
<1> DEFINE writes(log, x) == {i \in first .. last : At(log, i).request.key = x}
<1>1. ASSUME NEW x
      PROVE  /\ writes(l, x) = writes(k, x)
             /\ writes(l, x) # {} => At(l, Max(writes(l, x))) = At(k, Max(writes(l, x)))
  <2> DEFINE W == writes(l, x)
  <2>1. W = writes(k, x)
    OBVIOUS
  <2>2. W \in SUBSET (first .. last)
    OBVIOUS
  <2> HIDE DEF W
  <2>3. W # {} => Max(W) \in first .. last
    <3>1. W # {} => Max(W) \in W
      BY <2>2, MaxOfInterval
    <3> QED
      BY <2>2, <3>1
  <2> QED
    BY <2>1, <2>3 DEF W
<1>2. \A log : Replay(store, log, first, last) =
        [x \in DOMAIN store |-> IF writes(log, x) = {} THEN store[x]
                                ELSE At(log, Max(writes(log, x))).request.value]
  BY DEF Replay
<1> HIDE DEF writes
<1>3. \A x \in DOMAIN store :
        (IF writes(l, x) = {} THEN store[x]
                              ELSE At(l, Max(writes(l, x))).request.value)
        = IF writes(k, x) = {} THEN store[x]
                               ELSE At(k, Max(writes(k, x))).request.value
  BY <1>1
<1> QED
  BY <1>2, <1>3

\* The greatest element of a set is that of any upper part of it.
LEMMA MaxAbove ==
    ASSUME NEW first \in Int, NEW last \in Int,
           NEW T \in SUBSET (first .. last), NEW U \in SUBSET T, U # {},
           \A y \in T \ U : \A u \in U : y < u
    PROVE  Max(T) = Max(U)
<1>1. U \in SUBSET (first .. last) /\ T # {}
  OBVIOUS
<1> DEFINE a == Max(T)
           b == Max(U)
<1>2. a \in T /\ \A y \in T : a >= y
  BY <1>1, MaxOfInterval
<1>3. b \in U /\ \A y \in U : b >= y
  BY <1>1, MaxOfInterval
<1> HIDE DEF a, b
<1>4. b \in T /\ a \in Int /\ b \in Int
  BY <1>2, <1>3
<1>5. a \in U => b >= a
  BY <1>3
<1>6. a \notin U => a < b
  BY <1>2, <1>3
<1>7. a >= b
  BY <1>2, <1>4
<1>8. a = b
  BY <1>4, <1>5, <1>6, <1>7
<1> QED
  BY <1>8 DEF a, b

\* Applying entries 0..a and then a + 1..b is applying 0..b.
LEMMA ReplayExtend ==
    ASSUME NEW store, NEW l, NEW a \in Int, NEW b \in Int, -1 <= a, a <= b
    PROVE  Replay(Replay(store, l, 0, a), l, a + 1, b) = Replay(store, l, 0, b)
<1> DEFINE early(x) == {i \in 0 .. a : At(l, i).request.key = x}
           late(x) == {i \in a + 1 .. b : At(l, i).request.key = x}
           all(x) == {i \in 0 .. b : At(l, i).request.key = x}
           before == Replay(store, l, 0, a)
<1>1. ASSUME NEW x
      PROVE  /\ late(x) = {} => all(x) = early(x)
             /\ late(x) # {} => all(x) # {} /\ Max(all(x)) = Max(late(x))
  <2> DEFINE T == all(x)
  <2>1. T \in SUBSET (0 .. b)
    OBVIOUS
  <2>2. /\ late(x) \in SUBSET T
        /\ \A y \in T \ late(x) : \A u \in late(x) : y < u
    OBVIOUS
  <2>3. late(x) = {} => T = early(x)
    OBVIOUS
  <2>4. late(x) # {} => T # {}
    BY <2>2
  <2>5. 0 \in Int
    OBVIOUS
  <2> HIDE DEF T, late
  <2>6. late(x) # {} => Max(T) = Max(late(x))
    BY <2>1, <2>2, <2>5, MaxAbove
  <2> QED
    BY <2>3, <2>4, <2>6 DEF T
<1>2. before = [x \in DOMAIN store |->
                  IF early(x) = {} THEN store[x]
                                   ELSE At(l, Max(early(x))).request.value]
  BY DEF Replay
<1>3. Replay(before, l, a + 1, b) =
        [x \in DOMAIN before |->
            IF late(x) = {} THEN before[x]
                            ELSE At(l, Max(late(x))).request.value]
  BY DEF Replay
<1>4. Replay(store, l, 0, b) =
        [x \in DOMAIN store |->
            IF all(x) = {} THEN store[x] ELSE At(l, Max(all(x))).request.value]
  BY DEF Replay
<1> HIDE DEF early, late, all, before
<1>5. DOMAIN before = DOMAIN store
  BY <1>2
<1>6. \A x \in DOMAIN store :
        (IF late(x) = {} THEN before[x] ELSE At(l, Max(late(x))).request.value)
        = IF all(x) = {} THEN store[x] ELSE At(l, Max(all(x))).request.value
  BY <1>1, <1>2
<1>7. Replay(before, l, a + 1, b) = Replay(store, l, 0, b)
  BY <1>3, <1>4, <1>5, <1>6
<1> QED
  BY <1>7 DEF before

\* Applying nothing.
LEMMA ReplayNothing ==
    ASSUME NEW K, NEW V, NEW store \in [K -> V], NEW l, NEW first \in Int
    PROVE  Replay(store, l, first, first - 1) = store
<1>1. first .. (first - 1) = {}
  OBVIOUS
<1>2. Replay(store, l, first, first - 1) = [k \in DOMAIN store |-> store[k]]
  BY <1>1 DEF Replay
<1> QED
  BY <1>2

=============================================================================
