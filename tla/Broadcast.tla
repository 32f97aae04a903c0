----------------------------- MODULE Broadcast -----------------------------
(* What the gossip transport promises its users, and what Protocol assumes  *)
(* of it: a published frame is handed to the handlers of a node at most     *)
(* once, in any order, or never.                                            *)
EXTENDS Naturals

CONSTANTS Node, Frame

VARIABLES published,  \* the frames published so far
          handed      \* handed[n][f]: how often n's handlers were given f

vars == <<published, handed>>

Init ==
    /\ published = {}
    /\ handed = [n \in Node |-> [f \in Frame |-> 0]]

\* The publisher's own handlers get the frame at once.
Publish(f) ==
    /\ f \notin published
    /\ published' = published \cup {f}
    /\ handed' = [handed EXCEPT ![f.from][f] = 1]

HandOver(n, f) ==
    /\ f \in published
    /\ handed[n][f] = 0
    /\ handed' = [handed EXCEPT ![n][f] = 1]
    /\ UNCHANGED published

Next == \E f \in Frame : Publish(f) \/ \E n \in Node : HandOver(n, f)

Spec == Init /\ [][Next]_vars
=============================================================================
