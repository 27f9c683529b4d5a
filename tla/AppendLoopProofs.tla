--------------------------- MODULE AppendLoopProofs ---------------------------
(***************************************************************************)
(* The two loops of delete_conflicting_and_append_new_entries compute      *)
(* AppendNewEntries, and panic when LeavesGap says so: proved for logs and *)
(* messages of every length, with the log and what was collected described *)
(* element by element.                                                     *)
(***************************************************************************)
EXTENDS AppendLoop, LogOpsProofs, SequenceTheorems

-----------------------------------------------------------------------------
(* The loop invariant                                                      *)

LoopEntry == [term : 1 .. LastTerm, index : Nat]

LoopTyped ==
    /\ old \in Seq(LoopEntry) /\ entries \in Seq(LoopEntry)
    /\ log \in Seq(LoopEntry) /\ new_entries \in Seq(LoopEntry)
    /\ i \in Nat \ {0} /\ pc \in {"collect", "append", "done", "panicked"}

\* An entry carries its position in the log, and a message has a run of them.
Consecutive ==
    /\ \A k \in 1 .. Len(old) : old[k].index = k - 1
    /\ \A k \in 1 .. Len(entries) : entries[k].index = entries[1].index + (k - 1)

\* No entry among the first m of the message is new.
NothingNew(m) == \A k \in NewPositions(old, entries) : k > m

\* The first new entry, and the length of what the truncation leaves.
FirstNew == Min(NewPositions(old, entries))
Fits == entries[FirstNew].index <= Len(old)
KeptLen == IF Fits THEN entries[FirstNew].index ELSE Len(old)

\* The entries from the first new one to the m-th have been collected.
Gathered(m) ==
    /\ Len(new_entries) = m - FirstNew + 1
    /\ \A k \in 1 .. Len(new_entries) :
          new_entries[k] = entries[k + FirstNew - 1]

\* What the truncation left, and the first m collected entries behind it.
Extended(m) ==
    /\ Len(log) = KeptLen + m
    /\ \A k \in 1 .. Len(log) :
          log[k] = IF k <= KeptLen THEN old[k]
                                   ELSE entries[(k - KeptLen) + FirstNew - 1]

Collecting ==
    /\ i \in 1 .. Len(entries) + 1
    /\ IF NothingNew(i - 1) THEN log = old /\ new_entries = <<>>
                            ELSE Gathered(i - 1) /\ Extended(0)

Appending ==
    IF NothingNew(Len(entries))
    THEN log = old /\ new_entries = <<>> /\ pc # "panicked"
    ELSE /\ Gathered(Len(entries)) /\ Extended(i - 1)
         /\ i \in 1 .. Len(new_entries) + 1
         /\ i > 1 => Fits
         /\ pc = "panicked" => ~ Fits
         /\ pc = "done" => i = Len(new_entries) + 1

LoopInvariant ==
    /\ LoopTyped /\ Consecutive
    /\ IF pc = "collect" THEN Collecting ELSE Appending

-----------------------------------------------------------------------------
(* Lemmas                                                                  *)

\* The entries of the message carry an index.
LEMMA EntryIndex ==
    ASSUME LoopTyped, NEW k \in 1 .. Len(entries)
    PROVE  entries[k] \in LoopEntry /\ entries[k].index \in Nat
<1>1. entries[k] \in LoopEntry
  BY DEF LoopTyped
<1> QED
  BY <1>1 DEF LoopEntry

\* Where a message that has a new entry starts to matter.
LEMMA FirstNewFacts ==
    ASSUME LoopTyped, NEW m \in Int, ~ NothingNew(m)
    PROVE  /\ FirstNew \in NewPositions(old, entries)
           /\ \A k \in NewPositions(old, entries) : FirstNew <= k
           /\ FirstNew \in 1 .. Len(entries) /\ FirstNew <= m
           /\ entries[FirstNew].index \in Nat
           /\ KeptLen \in 0 .. Len(old) /\ KeptLen <= entries[FirstNew].index
           /\ Fits => KeptLen = entries[FirstNew].index
           /\ ~ Fits => KeptLen = Len(old)
<1>1. PICK k \in NewPositions(old, entries) : ~ (k > m)
  BY DEF NothingNew
<1>2. Len(entries) \in Nat /\ Len(old) \in Nat
  BY DEF LoopTyped
<1>3. /\ FirstNew \in NewPositions(old, entries)
      /\ \A j \in NewPositions(old, entries) : FirstNew <= j
  BY <1>1, <1>2, FirstNewPosition DEF FirstNew
<1>4. NewPositions(old, entries) \subseteq 1 .. Len(entries)
  BY DEF NewPositions
<1>5. FirstNew \in 1 .. Len(entries) /\ FirstNew <= m
  BY <1>1, <1>2, <1>3, <1>4
<1>6. entries[FirstNew].index \in Nat
  BY <1>5, EntryIndex
<1> HIDE DEF FirstNew
<1> QED
  BY <1>2, <1>3, <1>5, <1>6 DEF KeptLen, Fits

\* When the entry at position n is the first that is new.
LEMMA NewHere ==
    ASSUME LoopTyped, NEW n \in 1 .. Len(entries), NothingNew(n - 1),
           n \in NewPositions(old, entries)
    PROVE  FirstNew = n /\ ~ NothingNew(n)
<1>1. ~ NothingNew(n) /\ n \in Int
  BY DEF NothingNew
<1>2. /\ FirstNew \in NewPositions(old, entries) /\ FirstNew <= n
      /\ FirstNew \in 1 .. Len(entries)
  BY <1>1, FirstNewFacts
<1>3. FirstNew > n - 1
  BY <1>2 DEF NothingNew
<1> QED
  BY <1>1, <1>2, <1>3 DEF LoopTyped

\* What the loops do not assign, and what depends on nothing else.
LEMMA CallFixed ==
    ASSUME UNCHANGED <<old, entries>>
    PROVE  /\ FirstNew' = FirstNew /\ KeptLen' = KeptLen /\ Fits' = Fits
           /\ Consecutive' = Consecutive
BY DEF FirstNew, KeptLen, Fits, Consecutive

\* Behind the first new entry, the log that is left does not reach as far as
\* the entries of the message.
LEMMA RestIsNew ==
    ASSUME LoopTyped, Consecutive, NEW n \in 1 .. Len(entries),
           ~ NothingNew(n - 1), Extended(0)
    PROVE  ~ Has(log, entries[n].index)
<1>1. n - 1 \in Int /\ Len(entries) \in Nat
  BY DEF LoopTyped
<1>2. /\ FirstNew \in 1 .. Len(entries) /\ FirstNew <= n - 1
      /\ entries[FirstNew].index \in Nat /\ KeptLen <= entries[FirstNew].index
      /\ KeptLen \in 0 .. Len(old)
  BY <1>1, FirstNewFacts
<1>3. /\ entries[FirstNew].index = entries[1].index + (FirstNew - 1)
      /\ entries[n].index = entries[1].index + (n - 1)
  BY <1>2 DEF Consecutive
<1>4. entries[1].index \in Nat /\ entries[n].index \in Nat
  <2>1. 1 \in 1 .. Len(entries)
    BY <1>1
  <2> QED
    BY <2>1, EntryIndex
<1>5. Len(log) = KeptLen /\ Len(old) \in Nat
  BY <1>2 DEF Extended, LoopTyped
<1>6. entries[n].index > Len(log)
  BY <1>1, <1>2, <1>3, <1>4, <1>5
<1> QED
  BY <1>1, <1>2, <1>4, <1>5, <1>6 DEF Has, LastIndex

-----------------------------------------------------------------------------
(* The invariant is inductive                                              *)

\* A vector of n entries, as the initial states have them.
LEMMA VectorFacts ==
    ASSUME NEW first \in Nat, NEW n \in Nat, NEW v \in Vectors(first, n)
    PROVE  /\ v \in Seq(LoopEntry) /\ Len(v) = n
           /\ \A k \in 1 .. n : v[k].index = first + k - 1
<1>1. PICK f \in [1 .. n -> 1 .. LastTerm] :
        v = [k \in 1 .. n |-> [term |-> f[k], index |-> first + k - 1]]
  BY DEF Vectors
<1>2. \A k \in 1 .. n : [term |-> f[k], index |-> first + k - 1] \in LoopEntry
  BY <1>1 DEF LoopEntry
<1>3. v \in Seq(LoopEntry) /\ Len(v) = n
  BY <1>1, <1>2
<1> QED
  BY <1>1, <1>3

LEMMA LoopInit ==
    Init => LoopInvariant
<1> SUFFICES ASSUME Init PROVE LoopInvariant
  OBVIOUS
<1>1. PICK n \in 0 .. MaxLen : old \in Vectors(0, n)
  BY DEF Init
<1>2. PICK first \in 0 .. MaxLen + 1, m \in 1 .. MaxLen : entries \in Vectors(first, m)
  BY DEF Init
<1>3. n \in Nat /\ first \in Nat /\ m \in Nat /\ 1 <= m
  BY LoopAssumption
<1>4. /\ old \in Seq(LoopEntry) /\ Len(old) = n
      /\ \A k \in 1 .. n : old[k].index = 0 + k - 1
  BY <1>1, <1>3, VectorFacts
<1>5. /\ entries \in Seq(LoopEntry) /\ Len(entries) = m
      /\ \A k \in 1 .. m : entries[k].index = first + k - 1
  BY <1>2, <1>3, VectorFacts
<1>6. LoopTyped
  BY <1>4, <1>5 DEF Init, LoopTyped
<1>7. Consecutive
  BY <1>3, <1>4, <1>5 DEF Consecutive
<1>8. NothingNew(0)
  BY <1>3, <1>5 DEF NothingNew, NewPositions
<1>9. Collecting
  BY <1>3, <1>5, <1>8 DEF Collecting, Init
<1> QED
  BY <1>6, <1>7, <1>9 DEF LoopInvariant, Init


\* An entry that the log has is passed over: it is before the first new one.
LEMMA KeepKeeps ==
    ASSUME LoopInvariant, Keep PROVE LoopInvariant'
<1>1. /\ pc = "collect" /\ i <= Len(entries) /\ i' = i + 1
      /\ Has(log, entries[i].index)
      /\ At(log, entries[i].index).term = entries[i].term
      /\ UNCHANGED <<old, entries, log, new_entries, pc>>
  BY DEF Keep
<1>2. LoopTyped /\ Consecutive /\ Collecting
  BY <1>1 DEF LoopInvariant
<1>3. i \in Nat \ {0} /\ i \in 1 .. Len(entries) /\ Len(entries) \in Nat
  BY <1>1, <1>2 DEF LoopTyped
<1>4. NothingNew(i - 1) /\ log = old /\ new_entries = <<>>
  BY <1>1, <1>2, <1>3, RestIsNew DEF Collecting
<1>5. i \notin NewPositions(old, entries)
  BY <1>1, <1>4 DEF NewPositions
<1>6. NothingNew(i)
  BY <1>3, <1>4, <1>5 DEF NothingNew, NewPositions
<1>7. NothingNew(i - 1)'
  BY <1>1, <1>3, <1>6 DEF NothingNew
<1>8. Collecting'
  BY <1>1, <1>3, <1>4, <1>7 DEF Collecting
<1>9. LoopTyped' /\ Consecutive'
  BY <1>1, <1>2, <1>3, CallFixed DEF LoopTyped
<1> QED
  BY <1>1, <1>8, <1>9 DEF LoopInvariant

\* The first conflict cuts the log: what is left is what the operator keeps.
LEMMA TruncateKeeps ==
    ASSUME LoopInvariant, Truncate PROVE LoopInvariant'
<1> DEFINE e == entries[i]
<1>1. /\ pc = "collect" /\ i <= Len(entries) /\ i' = i + 1
      /\ Has(log, e.index) /\ At(log, e.index).term # e.term
      /\ log' = SubSeq(log, 1, e.index)
      /\ new_entries' = Append(new_entries, e)
      /\ UNCHANGED <<old, entries, pc>>
  BY DEF Truncate
<1>2. LoopTyped /\ Consecutive /\ Collecting
  BY <1>1 DEF LoopInvariant
<1>3. i \in Nat \ {0} /\ i \in 1 .. Len(entries) /\ Len(entries) \in Nat
  BY <1>1, <1>2 DEF LoopTyped
<1>4. NothingNew(i - 1) /\ log = old /\ new_entries = <<>>
  BY <1>1, <1>2, <1>3, RestIsNew DEF Collecting
<1>5. i \in NewPositions(old, entries)
  BY <1>1, <1>3, <1>4 DEF NewPositions
<1>6. FirstNew = i /\ ~ NothingNew(i)
  BY <1>2, <1>3, <1>4, <1>5, NewHere
<1>7. e \in LoopEntry /\ e.index \in Nat
  BY <1>2, <1>3, EntryIndex
<1>8. e.index < Len(old) /\ KeptLen = e.index
  BY <1>1, <1>4, <1>6, <1>7, <1>2 DEF Has, LastIndex, KeptLen, Fits, LoopTyped
<1>9. /\ FirstNew' = FirstNew /\ KeptLen' = KeptLen /\ Consecutive'
      /\ old' = old /\ entries' = entries /\ i' - 1 = i
  BY <1>1, <1>2, <1>3, CallFixed
<1> HIDE DEF e
<1>10. /\ log' \in Seq(LoopEntry) /\ Len(log') = e.index
       /\ \A k \in 1 .. e.index : log'[k] = old[k]
  BY <1>1, <1>2, <1>4, <1>7, <1>8 DEF LoopTyped
<1>11. new_entries' = <<e>>
  BY <1>1, <1>4
<1>12. ~ NothingNew(i - 1)'
  BY <1>6, <1>9 DEF NothingNew
<1>13. Gathered(i - 1)'
  BY <1>3, <1>6, <1>9, <1>11 DEF Gathered, e
<1>14. Extended(0)'
  BY <1>7, <1>8, <1>9, <1>10 DEF Extended
<1>15. Collecting'
  BY <1>1, <1>3, <1>9, <1>12, <1>13, <1>14 DEF Collecting
<1>16. LoopTyped'
  BY <1>1, <1>2, <1>3, <1>7, <1>10, <1>11 DEF LoopTyped
<1> QED
  BY <1>1, <1>9, <1>15, <1>16 DEF LoopInvariant

\* An entry that the log does not have is collected, and so are all behind it.
LEMMA CollectKeeps ==
    ASSUME LoopInvariant, Collect PROVE LoopInvariant'
<1> DEFINE e == entries[i]
<1>1. /\ pc = "collect" /\ i <= Len(entries) /\ i' = i + 1
      /\ ~ Has(log, e.index)
      /\ new_entries' = Append(new_entries, e)
      /\ UNCHANGED <<old, entries, log, pc>>
  BY DEF Collect
<1>2. LoopTyped /\ Consecutive /\ Collecting
  BY <1>1 DEF LoopInvariant
<1>3. i \in Nat \ {0} /\ i \in 1 .. Len(entries) /\ Len(entries) \in Nat
  BY <1>1, <1>2 DEF LoopTyped
<1>4. e \in LoopEntry /\ e.index \in Nat
  BY <1>2, <1>3, EntryIndex
<1>5. /\ FirstNew' = FirstNew /\ KeptLen' = KeptLen /\ Consecutive'
      /\ old' = old /\ entries' = entries /\ log' = log /\ i' - 1 = i
  BY <1>1, <1>2, <1>3, CallFixed
<1>6. /\ ~ NothingNew(i) /\ Extended(0)
      /\ Len(new_entries) = i - FirstNew /\ FirstNew \in 1 .. i
      /\ \A k \in 1 .. Len(new_entries) :
            new_entries[k] = entries[k + FirstNew - 1]
  <2>1. CASE NothingNew(i - 1)
    <3>1. log = old /\ new_entries = <<>>
      BY <1>2, <2>1 DEF Collecting
    <3>2. i \in NewPositions(old, entries)
      BY <1>1, <1>3, <3>1 DEF NewPositions
    <3>3. FirstNew = i /\ ~ NothingNew(i)
      BY <1>2, <1>3, <2>1, <3>2, NewHere
    <3>4. Len(old) \in Nat /\ e.index >= Len(old)
      BY <1>1, <1>2, <1>4, <3>1 DEF Has, LastIndex, LoopTyped
    <3>5. KeptLen = Len(old)
      BY <1>4, <3>3, <3>4 DEF KeptLen, Fits
    <3>6. Extended(0)
      BY <3>1, <3>4, <3>5 DEF Extended
    <3> QED
      BY <1>3, <3>1, <3>3, <3>6
  <2>2. CASE ~ NothingNew(i - 1)
    <3>1. Gathered(i - 1) /\ Extended(0)
      BY <1>2, <2>2 DEF Collecting
    <3>2. FirstNew \in 1 .. Len(entries) /\ FirstNew <= i - 1
      BY <1>2, <1>3, <2>2, FirstNewFacts
    <3>3. ~ NothingNew(i)
      BY <1>3, <2>2 DEF NothingNew, NewPositions
    <3> QED
      BY <1>3, <3>1, <3>2, <3>3 DEF Gathered
  <2> QED
    BY <2>1, <2>2
<1>7. new_entries \in Seq(LoopEntry)
  BY <1>2 DEF LoopTyped
<1> HIDE DEF e
<1>8. /\ new_entries' \in Seq(LoopEntry)
      /\ Len(new_entries') = Len(new_entries) + 1
      /\ \A k \in 1 .. Len(new_entries) : new_entries'[k] = new_entries[k]
      /\ new_entries'[Len(new_entries) + 1] = e
  BY <1>1, <1>4, <1>7
<1>9. ~ NothingNew(i - 1)'
  BY <1>5, <1>6 DEF NothingNew
<1>10. Gathered(i - 1)'
  <2>1. Len(new_entries') = i - FirstNew + 1
    BY <1>3, <1>6, <1>8
  <2>2. ASSUME NEW k \in 1 .. Len(new_entries')
        PROVE  new_entries'[k] = entries[k + FirstNew - 1]
    <3>1. CASE k <= Len(new_entries)
      <4>1. k \in 1 .. Len(new_entries)
        BY <1>3, <1>6, <3>1
      <4> QED
        BY <1>6, <1>8, <4>1
    <3>2. CASE k > Len(new_entries)
      <4>1. k = Len(new_entries) + 1 /\ k + FirstNew - 1 = i
        BY <1>3, <1>6, <2>1, <3>2
      <4> QED
        BY <1>8, <4>1 DEF e
    <3> QED
      BY <1>3, <1>6, <3>1, <3>2
  <2> QED
    BY <1>5, <2>1, <2>2 DEF Gathered
<1>11. Extended(0)'
  BY <1>5, <1>6 DEF Extended
<1>12. Collecting'
  BY <1>1, <1>3, <1>5, <1>9, <1>10, <1>11 DEF Collecting
<1>13. LoopTyped'
  BY <1>1, <1>2, <1>3, <1>8 DEF LoopTyped
<1> QED
  BY <1>1, <1>5, <1>12, <1>13 DEF LoopInvariant


LEMMA StartAppendingKeeps ==
    ASSUME LoopInvariant, StartAppending PROVE LoopInvariant'
<1>1. /\ pc = "collect" /\ i > Len(entries) /\ i' = 1 /\ pc' = "append"
      /\ UNCHANGED <<old, entries, log, new_entries>>
  BY DEF StartAppending
<1>2. LoopTyped /\ Consecutive /\ Collecting
  BY <1>1 DEF LoopInvariant
<1>3. i \in Nat \ {0} /\ Len(entries) \in Nat /\ i - 1 = Len(entries)
  BY <1>1, <1>2 DEF LoopTyped, Collecting
<1>4. /\ FirstNew' = FirstNew /\ KeptLen' = KeptLen /\ Fits' = Fits
      /\ Consecutive'
  BY <1>1, <1>2, CallFixed
<1>5. NothingNew(Len(entries))' <=> NothingNew(Len(entries))
  BY <1>1 DEF NothingNew
<1>6. ASSUME NothingNew(Len(entries)) PROVE Appending'
  <2>1. log' = old' /\ new_entries' = <<>>
    BY <1>1, <1>2, <1>3, <1>6 DEF Collecting
  <2> QED
    BY <1>1, <1>5, <1>6, <2>1 DEF Appending
<1>7. ASSUME ~ NothingNew(Len(entries)) PROVE Appending'
  <2>1. Gathered(Len(entries)) /\ Extended(0)
    BY <1>2, <1>3, <1>7 DEF Collecting
  <2>2. FirstNew \in 1 .. Len(entries)
    BY <1>2, <1>3, <1>7, FirstNewFacts
  <2>3. Gathered(Len(entries))'
    BY <1>1, <1>4, <2>1 DEF Gathered
  <2>4. i' - 1 = 0
    BY <1>1
  <2>5. Extended(i - 1)'
    BY <1>1, <1>4, <2>1, <2>4 DEF Extended
  <2>6. Len(new_entries) \in Nat
    BY <1>2 DEF LoopTyped
  <2> QED
    BY <1>1, <1>5, <1>7, <2>3, <2>5, <2>6 DEF Appending
<1>8. LoopTyped'
  BY <1>1, <1>2 DEF LoopTyped
<1> QED
  BY <1>1, <1>4, <1>6, <1>7, <1>8 DEF LoopInvariant

\* Where the second loop stands when an entry is left to insert.
LEMMA AtInsertion ==
    ASSUME LoopInvariant, pc = "append", i <= Len(new_entries)
    PROVE  /\ LoopTyped /\ Consecutive
           /\ i \in Nat \ {0} /\ i \in 1 .. Len(new_entries)
           /\ Len(new_entries) \in Nat /\ Len(log) \in Nat
           /\ ~ NothingNew(Len(entries))
           /\ Gathered(Len(entries)) /\ Extended(i - 1) /\ (i > 1 => Fits)
           /\ FirstNew \in 1 .. Len(entries) /\ KeptLen \in 0 .. Len(old)
           /\ Len(entries) \in Nat /\ Len(old) \in Nat
           /\ new_entries[i] = entries[i + FirstNew - 1]
           /\ new_entries[i] \in LoopEntry
           /\ entries[FirstNew].index \in Nat
           /\ new_entries[i].index = entries[FirstNew].index + (i - 1)
           /\ Len(log) = KeptLen + (i - 1)
<1>1. LoopTyped /\ Consecutive /\ Appending
  BY DEF LoopInvariant
<1>2. /\ i \in Nat \ {0} /\ Len(entries) \in Nat /\ Len(new_entries) \in Nat
      /\ Len(log) \in Nat /\ Len(old) \in Nat
  BY <1>1 DEF LoopTyped
<1>3. i \in 1 .. Len(new_entries) /\ new_entries # <<>>
  BY <1>2
<1>4. /\ ~ NothingNew(Len(entries)) /\ Gathered(Len(entries)) /\ Extended(i - 1)
      /\ (i > 1 => Fits)
  BY <1>1, <1>3 DEF Appending
<1>5. /\ FirstNew \in 1 .. Len(entries) /\ KeptLen \in 0 .. Len(old)
      /\ entries[FirstNew].index \in Nat
  BY <1>1, <1>2, <1>4, FirstNewFacts
<1>6. /\ Len(new_entries) = Len(entries) - FirstNew + 1
      /\ new_entries[i] = entries[i + FirstNew - 1]
  BY <1>3, <1>4 DEF Gathered
<1>7. Len(log) = KeptLen + (i - 1)
  BY <1>4 DEF Extended
<1>8. new_entries[i] \in LoopEntry
  BY <1>1, <1>3 DEF LoopTyped
<1>9. new_entries[i].index = entries[FirstNew].index + (i - 1)
  <2> DEFINE n == i + FirstNew - 1
  <2>1. n \in 1 .. Len(entries)
    BY <1>2, <1>3, <1>5, <1>6
  <2>2. new_entries[i] = entries[n]
    BY <1>6
  <2>3. n - 1 = (FirstNew - 1) + (i - 1)
    BY <1>2, <1>5
  <2> HIDE DEF n
  <2>4. /\ entries[n].index = entries[1].index + (n - 1)
        /\ entries[FirstNew].index = entries[1].index + (FirstNew - 1)
    BY <1>1, <1>5, <2>1 DEF Consecutive
  <2>5. 1 \in 1 .. Len(entries)
    BY <1>2, <1>5
  <2>6. entries[1].index \in Nat
    BY <1>1, <2>5, EntryIndex
  <2> QED
    BY <1>2, <1>5, <2>2, <2>3, <2>4, <2>6
<1> QED
  BY <1>1, <1>2, <1>3, <1>4, <1>5, <1>6, <1>7, <1>8, <1>9

\* Vec::insert at the end of the vector is a push.
LEMMA InsertAtEnd ==
    ASSUME NEW E, NEW l \in Seq(E), NEW e \in E
    PROVE  /\ InsertAt(l, Len(l) + 1, e) \in Seq(E)
           /\ Len(InsertAt(l, Len(l) + 1, e)) = Len(l) + 1
           /\ \A k \in 1 .. Len(l) : InsertAt(l, Len(l) + 1, e)[k] = l[k]
           /\ InsertAt(l, Len(l) + 1, e)[Len(l) + 1] = e
<1>1. Len(l) \in Nat /\ (Len(l) + 1) - 1 = Len(l)
  OBVIOUS
<1>2. SubSeq(l, 1, Len(l)) = l
  OBVIOUS
<1>3. SubSeq(l, Len(l) + 1, Len(l)) = <<>>
  BY <1>1
<1>4. InsertAt(l, Len(l) + 1, e) = (l \o <<e>>) \o <<>>
  BY <1>1, <1>2, <1>3 DEF InsertAt
<1>5. l \o <<e>> \in Seq(E) /\ (l \o <<e>>) \o <<>> = l \o <<e>>
  OBVIOUS
<1>6. InsertAt(l, Len(l) + 1, e) = l \o <<e>>
  BY <1>4, <1>5
<1> QED
  BY <1>1, <1>6

\* An entry is only ever inserted behind the last one.
LEMMA InsertKeeps ==
    ASSUME LoopInvariant, Insert PROVE LoopInvariant'
<1> DEFINE e == new_entries[i]
<1>1. /\ pc = "append" /\ i <= Len(new_entries) /\ e.index <= Len(log)
      /\ log' = InsertAt(log, e.index + 1, e)
      /\ i' = i + 1
      /\ UNCHANGED <<old, entries, new_entries, pc>>
  BY DEF Insert
<1>2. /\ LoopTyped /\ Consecutive
      /\ i \in Nat \ {0} /\ i \in 1 .. Len(new_entries)
      /\ Len(new_entries) \in Nat /\ Len(log) \in Nat
      /\ ~ NothingNew(Len(entries))
      /\ Gathered(Len(entries)) /\ Extended(i - 1)
      /\ FirstNew \in 1 .. Len(entries) /\ KeptLen \in 0 .. Len(old)
      /\ Len(entries) \in Nat /\ Len(old) \in Nat
      /\ e = entries[i + FirstNew - 1] /\ e \in LoopEntry
      /\ entries[FirstNew].index \in Nat
      /\ e.index = entries[FirstNew].index + (i - 1)
      /\ Len(log) = KeptLen + (i - 1)
  BY <1>1, AtInsertion
<1>3. entries[FirstNew].index <= KeptLen
  <2> DEFINE x == entries[FirstNew].index
             y == e.index
  <2>1. /\ x \in Nat /\ i \in Nat /\ KeptLen \in Int /\ y = x + (i - 1)
        /\ y <= Len(log) /\ Len(log) = KeptLen + (i - 1)
    <3>1. \A n \in 0 .. Len(old) : n \in Int
      OBVIOUS
    <3> HIDE DEF e
    <3> QED
      BY <1>1, <1>2, <3>1, Zenon
  <2> HIDE DEF x, y
  <2>2. x <= KeptLen
    BY <2>1
  <2> QED
    BY <2>2 DEF x
<1>4. Fits
  BY <1>2, <1>3 DEF KeptLen, Fits
<1>5. KeptLen = entries[FirstNew].index
  BY <1>4 DEF KeptLen
<1>6. e.index + 1 = Len(log) + 1
  BY <1>2, <1>5
<1> HIDE DEF e
<1>7. /\ log' \in Seq(LoopEntry) /\ Len(log') = Len(log) + 1
      /\ \A k \in 1 .. Len(log) : log'[k] = log[k]
      /\ log'[Len(log) + 1] = e
  <2>1. log \in Seq(LoopEntry) /\ log' = InsertAt(log, Len(log) + 1, e)
    BY <1>1, <1>2, <1>6 DEF LoopTyped
  <2>2. e \in LoopEntry
    BY <1>2
  <2> QED
    BY <2>1, <2>2, InsertAtEnd, Zenon
<1>8. /\ FirstNew' = FirstNew /\ KeptLen' = KeptLen /\ Fits' = Fits
      /\ Consecutive'
  BY <1>1, <1>2, CallFixed
<1>9. ~ NothingNew(Len(entries))' /\ Gathered(Len(entries))'
  BY <1>1, <1>2, <1>8 DEF NothingNew, Gathered
<1>10. ASSUME NEW k \in 1 .. Len(log')
       PROVE  log'[k] = IF k <= KeptLen THEN old[k]
                                        ELSE entries[(k - KeptLen) + FirstNew - 1]
  <2>1. CASE k <= Len(log)
    <3>1. k \in 1 .. Len(log)
      BY <1>2, <2>1
    <3> QED
      BY <1>2, <1>7, <3>1 DEF Extended
  <2>2. CASE k > Len(log)
    <3>1. k = Len(log) + 1
      BY <1>2, <1>7, <2>2
    <3>2. ~ (k <= KeptLen) /\ k - KeptLen = i
      BY <1>2, <3>1
    <3> QED
      BY <1>2, <1>7, <3>1, <3>2
  <2> QED
    BY <1>2, <2>1, <2>2
<1>11. Extended(i - 1)'
  <2>1. Len(log') = KeptLen + (i' - 1)
    BY <1>1, <1>2, <1>7
  <2> QED
    BY <1>1, <1>8, <1>10, <2>1 DEF Extended
<1>12. Appending'
  <2>1. i' \in 1 .. Len(new_entries') + 1
    BY <1>1, <1>2
  <2>2. pc' # "panicked" /\ pc' # "done"
    BY <1>1
  <2> QED
    BY <1>4, <1>8, <1>9, <1>11, <2>1, <2>2 DEF Appending
<1>13. LoopTyped'
  BY <1>1, <1>2, <1>7 DEF LoopTyped
<1> QED
  BY <1>1, <1>8, <1>12, <1>13 DEF LoopInvariant

\* Only the first insertion can miss the end of the log.
LEMMA PanicKeeps ==
    ASSUME LoopInvariant, Panic PROVE LoopInvariant'
<1>1. /\ pc = "append" /\ i <= Len(new_entries)
      /\ new_entries[i].index > Len(log)
      /\ pc' = "panicked"
      /\ UNCHANGED <<old, entries, log, new_entries, i>>
  BY DEF Panic
<1>2. /\ LoopTyped /\ Consecutive
      /\ i \in Nat \ {0} /\ i \in 1 .. Len(new_entries)
      /\ ~ NothingNew(Len(entries))
      /\ Gathered(Len(entries)) /\ Extended(i - 1) /\ (i > 1 => Fits)
      /\ KeptLen \in 0 .. Len(old) /\ Len(old) \in Nat
      /\ entries[FirstNew].index \in Nat
      /\ new_entries[i].index = entries[FirstNew].index + (i - 1)
      /\ Len(log) = KeptLen + (i - 1)
      /\ Len(new_entries) \in Nat
  BY <1>1, AtInsertion
<1>3. ~ Fits
  <2>1. entries[FirstNew].index > KeptLen
    BY <1>1, <1>2
  <2> QED
    BY <1>2, <2>1 DEF KeptLen
<1>4. /\ FirstNew' = FirstNew /\ KeptLen' = KeptLen /\ Fits' = Fits
      /\ Consecutive'
  BY <1>1, <1>2, CallFixed
<1>5. ~ NothingNew(Len(entries))' /\ Gathered(Len(entries))'
  BY <1>1, <1>2, <1>4 DEF NothingNew, Gathered
<1>6. Extended(i - 1)'
  BY <1>1, <1>2, <1>4 DEF Extended
<1>7. Appending'
  <2>1. i' \in 1 .. Len(new_entries') + 1
    BY <1>1, <1>2
  <2> QED
    BY <1>1, <1>2, <1>3, <1>4, <1>5, <1>6, <2>1 DEF Appending
<1>8. LoopTyped'
  BY <1>1, <1>2 DEF LoopTyped
<1> QED
  BY <1>1, <1>4, <1>7, <1>8 DEF LoopInvariant

LEMMA ReturnKeeps ==
    ASSUME LoopInvariant, Return PROVE LoopInvariant'
<1>1. /\ pc = "append" /\ i > Len(new_entries) /\ pc' = "done"
      /\ UNCHANGED <<old, entries, log, new_entries, i>>
  BY DEF Return
<1>2. LoopTyped /\ Consecutive /\ Appending
  BY <1>1 DEF LoopInvariant
<1>3. /\ FirstNew' = FirstNew /\ KeptLen' = KeptLen /\ Fits' = Fits
      /\ Consecutive'
  BY <1>1, <1>2, CallFixed
<1>4. NothingNew(Len(entries))' <=> NothingNew(Len(entries))
  BY <1>1 DEF NothingNew
<1>5. ASSUME NothingNew(Len(entries)) PROVE Appending'
  BY <1>1, <1>2, <1>4, <1>5 DEF Appending
<1>6. ASSUME ~ NothingNew(Len(entries)) PROVE Appending'
  <2>1. /\ Gathered(Len(entries)) /\ Extended(i - 1) /\ (i > 1 => Fits)
        /\ i \in 1 .. Len(new_entries) + 1
    BY <1>2, <1>6 DEF Appending
  <2>2. Gathered(Len(entries))' /\ Extended(i - 1)'
    BY <1>1, <1>3, <2>1 DEF Gathered, Extended
  <2>3. i = Len(new_entries) + 1 /\ Len(new_entries) \in Nat
    BY <1>1, <1>2, <2>1 DEF LoopTyped
  <2> QED
    BY <1>1, <1>3, <1>4, <1>6, <2>1, <2>2, <2>3 DEF Appending
<1>7. LoopTyped'
  BY <1>1, <1>2 DEF LoopTyped
<1> QED
  BY <1>1, <1>3, <1>5, <1>6, <1>7 DEF LoopInvariant

LEMMA LoopNext ==
    LoopInvariant /\ [Next]_vars => LoopInvariant'
<1> SUFFICES ASSUME LoopInvariant, [Next]_vars PROVE LoopInvariant'
  OBVIOUS
<1>1. CASE UNCHANGED vars
  <2>1. UNCHANGED <<old, entries, log, new_entries, i, pc>>
    BY <1>1 DEF vars
  <2> QED
    BY <2>1 DEF LoopInvariant, LoopTyped, Consecutive, Collecting, Appending,
                NothingNew, Gathered, Extended, FirstNew, KeptLen, Fits
<1> QED
  BY <1>1, KeepKeeps, TruncateKeeps, CollectKeeps, StartAppendingKeeps,
     InsertKeeps, PanicKeeps, ReturnKeeps DEF Next

LEMMA LoopInvariantHolds ==
    Spec => []LoopInvariant
BY LoopInit, LoopNext, PTL DEF Spec


-----------------------------------------------------------------------------
(* What the loops compute                                                  *)

\* A message whose entries the log has leaves nothing to do.
LEMMA NoNewPositions ==
    ASSUME LoopTyped
    PROVE  NothingNew(Len(entries)) <=> NewPositions(old, entries) = {}
<1>1. Len(entries) \in Nat
  BY DEF LoopTyped
<1> QED
  BY <1>1 DEF NothingNew, NewPositions

LEMMA DoneIsOperator ==
    ASSUME LoopInvariant, pc = "done"
    PROVE  ~ LeavesGap(old, entries) /\ log = AppendNewEntries(old, entries)
<1>1. LoopTyped /\ Consecutive /\ Appending
  BY DEF LoopInvariant
<1>2. CASE NothingNew(Len(entries))
  <2>1. NewPositions(old, entries) = {} /\ log = old
    BY <1>1, <1>2, NoNewPositions DEF Appending
  <2> QED
    BY <2>1 DEF LeavesGap, AppendNewEntries
<1>3. CASE ~ NothingNew(Len(entries))
  <2>1. /\ Gathered(Len(entries)) /\ Extended(i - 1) /\ (i > 1 => Fits)
        /\ i = Len(new_entries) + 1
    BY <1>1, <1>3 DEF Appending
  <2>2. /\ Len(entries) \in Nat /\ Len(old) \in Nat /\ Len(new_entries) \in Nat
        /\ old \in Seq(LoopEntry) /\ entries \in Seq(LoopEntry)
        /\ log \in Seq(LoopEntry)
    BY <1>1 DEF LoopTyped
  <2>3. /\ FirstNew \in 1 .. Len(entries)
        /\ entries[FirstNew].index \in Nat
        /\ Fits => KeptLen = entries[FirstNew].index
    BY <1>1, <1>3, <2>2, FirstNewFacts
  <2>4. Len(new_entries) = Len(entries) - FirstNew + 1
    BY <2>1 DEF Gathered
  <2>5. Fits
    BY <2>1, <2>2, <2>3, <2>4
  <2>6. ~ LeavesGap(old, entries)
    BY <2>2, <2>3, <2>5 DEF LeavesGap, Fits, FirstNew
  <2>7. NewPositions(old, entries) # {}
    BY <1>1, <1>3, NoNewPositions
  <2> DEFINE r == AppendNewEntries(old, entries)
             base == entries[FirstNew].index
  <2>8. \A e \in LoopEntry : e.index \in Nat
    BY DEF LoopEntry
  <2>9. /\ base \in 0 .. Len(old)
        /\ Len(r) = base + (Len(entries) - FirstNew + 1)
        /\ \A k \in 1 .. Len(r) :
              r[k] = IF k <= base THEN old[k] ELSE entries[k - base + FirstNew - 1]
    BY <2>2, <2>6, <2>7, <2>8, AppendNewEntriesElements DEF FirstNew
  <2>10. r \in Seq(LoopEntry)
    BY <2>2, <2>6, <2>8, AppendNewEntriesType
  <2>11. KeptLen = base
    BY <2>3, <2>5
  <2> HIDE DEF r, base
  <2>12. Len(log) = Len(r)
    BY <2>1, <2>2, <2>3, <2>4, <2>9, <2>11 DEF Extended
  <2>13. \A k \in 1 .. Len(log) : log[k] = r[k]
    BY <2>1, <2>2, <2>3, <2>9, <2>11, <2>12 DEF Extended
  <2>14. log = r
    BY <2>2, <2>10, <2>12, <2>13, SeqEqual
  <2> QED
    BY <2>6, <2>14 DEF r
<1> QED
  BY <1>2, <1>3

LEMMA PanicIsGap ==
    ASSUME LoopInvariant, pc = "panicked"
    PROVE  LeavesGap(old, entries)
<1>1. LoopTyped /\ Appending
  BY DEF LoopInvariant
<1>2. ~ NothingNew(Len(entries)) /\ ~ Fits
  BY <1>1 DEF Appending
<1>3. Len(entries) \in Nat /\ Len(old) \in Nat
  BY <1>1 DEF LoopTyped
<1>4. entries[FirstNew].index \in Nat
  BY <1>1, <1>2, <1>3, FirstNewFacts
<1>5. NewPositions(old, entries) # {}
  BY <1>1, <1>2, NoNewPositions
<1> QED
  BY <1>2, <1>3, <1>4, <1>5 DEF LeavesGap, Fits, FirstNew

\* The two loops of delete_conflicting_and_append_new_entries, which collect
\* entries, truncate the log and insert at the index that each entry carries,
\* compute the operator that the model of the cluster uses, and panic exactly
\* when it says so: for logs and messages of every length.
THEOREM LoopsAreOperator ==
    Spec => []LoopsMatchOperator
<1>1. LoopInvariant => LoopsMatchOperator
  BY DoneIsOperator, PanicIsGap DEF LoopsMatchOperator
<1> QED
  BY LoopInvariantHolds, <1>1, PTL

\* An entry of the old log that the message does not contradict, there or
\* before, is in the log at every point of the loops.
LEMMA KeptWhileAgreed ==
    ASSUME LoopInvariant, NEW k \in 0 .. LastIndex(old),
           \A j \in 1 .. Len(entries) :
              entries[j].index <= k /\ Has(old, entries[j].index)
              => At(old, entries[j].index).term = entries[j].term
    PROVE  Has(log, k) /\ At(log, k) = At(old, k)
<1>1. LoopTyped
  BY DEF LoopInvariant
<1>2. /\ Len(entries) \in Nat /\ Len(old) \in Nat /\ i \in Nat \ {0}
      /\ k \in Nat /\ k < Len(old)
  BY <1>1 DEF LoopTyped, LastIndex
<1>3. CASE log = old
  BY <1>3 DEF Has
<1>4. ASSUME NEW m \in Int, ~ NothingNew(m), NEW n \in Nat, Extended(n)
      PROVE  Has(log, k) /\ At(log, k) = At(old, k)
  <2>1. /\ FirstNew \in NewPositions(old, entries)
        /\ FirstNew \in 1 .. Len(entries)
        /\ entries[FirstNew].index \in Nat /\ KeptLen \in 0 .. Len(old)
        /\ Fits => KeptLen = entries[FirstNew].index
        /\ ~ Fits => KeptLen = Len(old)
    BY <1>1, <1>4, FirstNewFacts
  <2>2. k < KeptLen
    <3> SUFFICES ASSUME KeptLen <= k PROVE FALSE
      BY <1>2, <2>1
    <3>1. Fits
      BY <1>2, <2>1
    <3>2. entries[FirstNew].index <= k /\ Has(old, entries[FirstNew].index)
      BY <1>2, <2>1, <3>1 DEF Has, LastIndex
    <3>3. At(old, entries[FirstNew].index).term # entries[FirstNew].term
      BY <2>1, <3>2 DEF NewPositions
    <3> QED
      BY <2>1, <3>2, <3>3
  <2>3. /\ Len(log) = KeptLen + n /\ k + 1 \in 1 .. Len(log) /\ k + 1 <= KeptLen
        /\ k \in 0 .. Len(log) - 1
    BY <1>2, <1>4, <2>1, <2>2 DEF Extended
  <2>4. log[k + 1] = old[k + 1]
    BY <1>4, <2>3 DEF Extended
  <2> QED
    BY <2>3, <2>4 DEF Has, At, LastIndex
<1>5. \/ log = old
      \/ pc = "collect" /\ ~ NothingNew(i - 1) /\ Extended(0)
      \/ ~ NothingNew(Len(entries)) /\ Extended(i - 1)
  BY DEF LoopInvariant, Collecting, Appending
<1>6. i - 1 \in Nat /\ Len(entries) \in Int /\ i - 1 \in Int /\ 0 \in Nat
  BY <1>2
<1> QED
  BY <1>3, <1>4, <1>5, <1>6

\* At each point of the loops the log keeps every entry up to the first one
\* that the message contradicts.
THEOREM LoopsLoseNothingElse ==
    Spec => []NothingElseLost
<1>1. LoopInvariant => NothingElseLost
  BY KeptWhileAgreed DEF NothingElseLost
<1> QED
  BY LoopInvariantHolds, <1>1, PTL

=============================================================================
