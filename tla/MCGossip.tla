------------------------------ MODULE MCGossip ------------------------------
(* Gossip with the ways nodes are linked in practice.                       *)
EXTENDS Gossip, TLC

Plain == [bootstrap |-> {}, discover |-> {}, manual |-> {}, breaks |-> 0,
          closers |-> {}, quota |-> [n \in Node |-> IF n < 3 THEN 1 ELSE 0]]

\* Nodes 1 and 3 each dial node 2, one from its configuration and one by hand.
Line == [Plain EXCEPT !.bootstrap = {<<1, 2>>}, !.manual = {<<3, 2>>}, !.breaks = 1]

\* Two nodes that list each other as peers both dial, and one is closed.
Mutual == [Plain EXCEPT !.bootstrap = {<<1, 2>>, <<2, 1>>}, !.closers = {2}]

\* A bootstrap peer that is discovered as well is dialled twice.
Twice == [Plain EXCEPT !.bootstrap = {<<1, 2>>}, !.discover = {<<1, 2>>}]

\* A node at the end of a double link: a cycle that its frames never leave.
Spur == [Plain EXCEPT !.bootstrap = {<<1, 2>>, <<2, 3>>, <<3, 2>>},
                      !.quota = (1 :> 1 @@ 2 :> 0 @@ 3 :> 1)]

\* A line whose last node receives more frames than its window holds.
Busy == [Plain EXCEPT !.bootstrap = {<<1, 2>>, <<2, 3>>},
                      !.quota = (1 :> 2 @@ 2 :> 1 @@ 3 :> 0)]

AllSetups == {Line, Mutual, Twice, Spur, Busy}
MutualOnly == {[Mutual EXCEPT !.closers = {}]}
=============================================================================
