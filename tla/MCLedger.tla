------------------------------ MODULE MCLedger ------------------------------
(* Ledger on every block that three claims, two of which share (node, seq), *)
(* and two sets of signers can form up to height 3, and one block per       *)
(* parent that skips a height.                                              *)
EXTENDS Ledger

Claims ==
    {[id |-> 1, node |-> 1, seq |-> 1, seen |-> 0],
     [id |-> 2, node |-> 1, seq |-> 1, seen |-> 0],
     [id |-> 3, node |-> 2, seq |-> 1, seen |-> 0]}

Block(parent, h, cs, signers) ==
    [proposal |-> [height |-> h, epoch |-> parent.proposal.epoch + 1,
                   prev |-> BlockHash(parent), sealer |-> 1, claims |-> cs, at |-> 0],
     signers |-> signers, quorum |-> 1]

BlocksOn(parent) ==
    LET next == parent.proposal.height + 1
    IN  {Block(parent, next, cs, S) : cs \in SUBSET Claims, S \in {{1}, {1, 2}}}
        \union {Block(parent, next + 1, {}, {1})}

Level1 == BlocksOn(GenesisCheckpoint)
Level2 == UNION {BlocksOn(b) : b \in Level1}
Level3 == UNION {BlocksOn(b) : b \in {x \in Level2 : x.signers = {1} /\ x.proposal.claims # {}}}

MCOffered == {GenesisCheckpoint} \union Level1 \union Level2 \union Level3
=============================================================================
