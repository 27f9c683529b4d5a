----------------------------- MODULE AppendLoop -----------------------------
(***************************************************************************)
(* delete_conflicting_and_append_new_entries of src/src/server.rs, one     *)
(* iteration of its two loops per step: the first collects the entries the *)
(* log does not have and truncates the log at a conflict, the second       *)
(* inserts what was collected at the index each entry carries. MiniRaft    *)
(* takes the result as one operator, AppendNewEntries of LogOps, and the   *)
(* panic of Vec::insert as LeavesGap; this module is the evidence for it.  *)
(***************************************************************************)
EXTENDS LogOps

CONSTANTS
    MaxLen,     \* bound: entries in the log, and in the message
    LastTerm    \* bound: terms of entries

ASSUME LoopAssumption == MaxLen \in Nat /\ LastTerm \in Nat

VARIABLES
    old,          \* the log before the call
    entries,      \* msg.entries
    log,          \* self.log
    new_entries,  \* the collected entries
    i,            \* position in the vector the current loop goes over
    pc            \* "collect", "append", "done" or "panicked"

vars == <<old, entries, log, new_entries, i, pc>>

\* A vector of n entries whose indices count from first; the request of an
\* entry plays no part.
Vectors(first, n) ==
    {[k \in 1 .. n |-> [term |-> f[k], index |-> first + k - 1]] :
        f \in [1 .. n -> 1 .. LastTerm]}

Init ==
    /\ old \in UNION {Vectors(0, n) : n \in 0 .. MaxLen}
    /\ entries \in UNION {Vectors(first, n) :
                            first \in 0 .. MaxLen + 1, n \in 1 .. MaxLen}
    /\ log = old /\ new_entries = <<>> /\ i = 1 /\ pc = "collect"

\* log.get(entry.index): in the log with the same term, in the log with another
\* one, or not in the log.
Keep ==
    /\ pc = "collect" /\ i <= Len(entries)
    /\ Has(log, entries[i].index)
    /\ At(log, entries[i].index).term = entries[i].term
    /\ i' = i + 1
    /\ UNCHANGED <<old, entries, log, new_entries, pc>>

\* Mutant: the conflict is noticed, the log is not truncated.
TruncateNothing ==
    /\ pc = "collect" /\ i <= Len(entries)
    /\ Has(log, entries[i].index)
    /\ At(log, entries[i].index).term # entries[i].term
    /\ new_entries' = Append(new_entries, entries[i])
    /\ i' = i + 1
    /\ UNCHANGED <<old, entries, log, pc>>

\* Mutant: truncate takes the index of the last entry to keep for a length.
TruncateOneMore ==
    /\ pc = "collect" /\ i <= Len(entries)
    /\ Has(log, entries[i].index)
    /\ At(log, entries[i].index).term # entries[i].term
    /\ log' = SubSeq(log, 1, entries[i].index - 1)
    /\ new_entries' = Append(new_entries, entries[i])
    /\ i' = i + 1
    /\ UNCHANGED <<old, entries, pc>>

Truncate ==
    /\ pc = "collect" /\ i <= Len(entries)
    /\ Has(log, entries[i].index)
    /\ At(log, entries[i].index).term # entries[i].term
    /\ log' = SubSeq(log, 1, entries[i].index)
    /\ new_entries' = Append(new_entries, entries[i])
    /\ i' = i + 1
    /\ UNCHANGED <<old, entries, pc>>

Collect ==
    /\ pc = "collect" /\ i <= Len(entries)
    /\ ~ Has(log, entries[i].index)
    /\ new_entries' = Append(new_entries, entries[i])
    /\ i' = i + 1
    /\ UNCHANGED <<old, entries, log, pc>>

StartAppending ==
    /\ pc = "collect" /\ i > Len(entries)
    /\ i' = 1 /\ pc' = "append"
    /\ UNCHANGED <<old, entries, log, new_entries>>

\* Vec::insert(index): shifts what follows, panics beyond the end.
Insert ==
    LET e == new_entries[i] IN
    /\ pc = "append" /\ i <= Len(new_entries) /\ e.index <= Len(log)
    /\ log' = InsertAt(log, e.index + 1, e)
    /\ i' = i + 1
    /\ UNCHANGED <<old, entries, new_entries, pc>>

Panic ==
    /\ pc = "append" /\ i <= Len(new_entries)
    /\ new_entries[i].index > Len(log)
    /\ pc' = "panicked"
    /\ UNCHANGED <<old, entries, log, new_entries, i>>

Return ==
    /\ pc = "append" /\ i > Len(new_entries)
    /\ pc' = "done"
    /\ UNCHANGED <<old, entries, log, new_entries, i>>

Next ==
    \/ Keep \/ Truncate \/ Collect \/ StartAppending
    \/ Insert \/ Panic \/ Return

Spec == Init /\ [][Next]_vars

\* The two loops compute the operator that MiniRaft uses, and panic exactly
\* when it says so: no insertion lands in the middle of the log.
LoopsMatchOperator ==
    /\ pc = "done" => /\ ~ LeavesGap(old, entries)
                     /\ log = AppendNewEntries(old, entries)
    /\ pc = "panicked" => LeavesGap(old, entries)

\* At each point of the loops an old entry is still at its position unless the
\* message contradicts the old log there or before: nothing the message does not
\* contradict is lost, and what comes before the first conflict is never touched.
NothingElseLost ==
    \A k \in 0 .. LastIndex(old) :
        (\A j \in 1 .. Len(entries) :
            entries[j].index <= k /\ Has(old, entries[j].index)
            => At(old, entries[j].index).term = entries[j].term)
        => Has(log, k) /\ At(log, k) = At(old, k)

=============================================================================
