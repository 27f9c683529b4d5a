-------------------------------- MODULE Links -------------------------------
(***************************************************************************)
(* What the core relies on of the connections: MiniRaft's variable link    *)
(* with its actions Register and BreakLink and nothing else. A link is     *)
(* opened once, each direction at its own time, breaks in both directions  *)
(* or not at all, and is never opened again.                               *)
(***************************************************************************)
CONSTANT Node

VARIABLE link    \* link[<<a, b>>]: "absent", "open" or "broken"

Pairs == {p \in Node \X Node : p[1] # p[2]}

Init == link = [p \in Pairs |-> "absent"]

Register(p) == link[p] = "absent" /\ link' = [link EXCEPT ![p] = "open"]

BreakLink(p) ==
    LET q == <<p[2], p[1]>> IN
    /\ link[p] = "open" /\ link[q] = "open"
    /\ link' = [link EXCEPT ![p] = "broken", ![q] = "broken"]

Next == \E p \in Pairs : Register(p) \/ BreakLink(p)

Spec == Init /\ [][Next]_link

=============================================================================
