------------------------------- MODULE LogOps -------------------------------
(***************************************************************************)
(* Pure operators on the replicated log and on the key-value store         *)
(* (src/src/server.rs, src/src/state_machine.rs).                          *)
(*                                                                         *)
(* The code's vectors are 0-based and it uses -1 for "no entry"; a log is  *)
(* a TLA+ sequence here, and At, Has and LastIndex take the code's index.  *)
(* An entry is [term, index, request]; a request carries the client, its   *)
(* request id and the key and value of the Set command.                    *)
(***************************************************************************)
EXTENDS Integers, FiniteSets, SequencesExt

\* The entry the code calls log[i].
At(l, i) == l[i + 1]

LastIndex(l) == Len(l) - 1

\* log.get(i as usize) is Some: -1 becomes a huge usize and is out of range.
Has(l, i) == i \in 0 .. LastIndex(l)

LastLogTerm(l) == IF l = <<>> THEN 0 ELSE At(l, LastIndex(l)).term

\* The check of reply_false_if_prev_log_does_not_match: an empty log accepts
\* any prev_log_index.
PrevLogMatches(l, prev_index, prev_term) ==
    IF Has(l, prev_index) THEN At(l, prev_index).term = prev_term
                          ELSE l = <<>>

\* Positions of the entries es that log l does not hold yet: absent, or
\* present with another term.
NewPositions(l, es) ==
    {j \in 1 .. Len(es) : \/ ~ Has(l, es[j].index)
                          \/ At(l, es[j].index).term # es[j].term}

\* Vec::insert panics when the first missing entry lies beyond the end.
LeavesGap(l, es) ==
    /\ NewPositions(l, es) # {}
    /\ es[Min(NewPositions(l, es))].index > Len(l)

\* Mutant: the conflicting entries are not truncated.
AppendWithoutTruncating(l, es) ==
    IF NewPositions(l, es) = {}
    THEN l
    ELSE l \o SubSeq(es, Min(NewPositions(l, es)), Len(es))

\* The log delete_conflicting_and_append_new_entries leaves: cut at the first
\* entry of es that is new, and extended with es from there on.
AppendNewEntries(l, es) ==
    IF NewPositions(l, es) = {}
    THEN l
    ELSE LET j == Min(NewPositions(l, es))
         IN  SubSeq(l, 1, es[j].index) \o SubSeq(es, j, Len(es))

\* The store after the Set commands of entries first..last of log l have been
\* applied in order: the last write to a key wins.
Replay(store, l, first, last) ==
    [k \in DOMAIN store |->
        LET writes == {i \in first .. last : At(l, i).request.key = k}
        IN  IF writes = {} THEN store[k]
                           ELSE At(l, Max(writes)).request.value]

=============================================================================
