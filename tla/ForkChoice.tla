----------------------------- MODULE ForkChoice -----------------------------
(***************************************************************************)
(* What the protocol promises of fork choice, and nothing of how: a node   *)
(* holds one chain at all times, and replaces it only by a better one.     *)
(* Longer is better; of two chains of one length the one with the smaller  *)
(* head hash is.  Rollbacks, re-applied blocks and restored blocks do not  *)
(* exist at this level: a reorg is one step or none, unless a crash cuts   *)
(* it short.                                                               *)
(***************************************************************************)
EXTENDS ChainStore

CONSTANTS Node, HashLess(_, _)

VARIABLES
    chain,      \* chain[n]: the blocks of node n, genesis first
    boots       \* boots[n]: how often node n was started

TipHash(c) == BlockHash(c[Len(c)])

Better(c, d) ==
    \/ Len(c) > Len(d)
    \/ Len(c) = Len(d) /\ HashLess(TipHash(c), TipHash(d))

\* A chain from the genesis block with every link in place.
Linked(c) ==
    /\ c # <<>> /\ c[1] = GenesisCheckpoint
    /\ \A i \in 2 .. Len(c) :
          /\ c[i].proposal.height = i - 1
          /\ c[i].proposal.prev = BlockHash(c[i - 1])

Init == \A n \in Node : Linked(chain[n])

Others(n) == \A k \in Node \ {n} : chain'[k] = chain[k] /\ boots'[k] = boots[k]

Adopt(n) ==
    /\ Linked(chain'[n])
    /\ Better(chain'[n], chain[n])
    /\ boots' = boots
    /\ Others(n)

\* A node that starts again has some chain, possibly a worse one.
Crash(n) ==
    /\ Linked(chain'[n])
    /\ boots'[n] = boots[n] + 1
    /\ Others(n)

Next == \E n \in Node : Adopt(n) \/ Crash(n)

Spec == Init /\ [][Next]_<<chain, boots>>
=============================================================================
