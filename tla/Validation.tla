----------------------------- MODULE Validation -----------------------------
(***************************************************************************)
(* The rules a proposal must pass before a node signs it and a block must  *)
(* pass before a node appends it (src/src/consensus/validation.rs), as     *)
(* predicates on a store.                                                  *)
(*                                                                         *)
(* Signatures of claims and shares verify: peers run this code and sign    *)
(* what they send.  The FLOPS sanity check depends on the tolerance of the *)
(* node that runs it (EXODUS_FLOPS_TOLERANCE), so it is the set            *)
(* "plausible" of claim ids the validating node accepts.                   *)
(***************************************************************************)
EXTENDS ChainStore

ClaimIds(p) == {c.id : c \in p.claims}

(***************************************************************************)
(* The claims of a proposal are a vector in claim_id order.  node_seqs     *)
(* remembers the sequence number of the latest claim of each node only, so *)
(* a number is caught as reused when the node's previous claim in that     *)
(* order has it.                                                           *)
(***************************************************************************)
ReusesSeq(claims) ==
    \E c, d \in claims :
        /\ c.node = d.node /\ c.seq = d.seq /\ c.id < d.id
        /\ ~ \E e \in claims : e.node = c.node /\ c.id < e.id /\ e.id < d.id

ValidateProposal(p, st, seen, plausible) ==
    /\ p.height = Height(st) + 1
    /\ p.prev = HeadHash(st)
    /\ st.blocks # <<>> => p.epoch > HeadBlock(st).proposal.epoch
    /\ p.claims # {}
    /\ \A c \in p.claims :
          /\ c.id \in plausible
          /\ c.id \notin seen
          /\ c.seen <= Height(st)
          /\ \A d \in p.claims : c.id = d.id => c = d
    /\ ~ReusesSeq(p.claims)

(***************************************************************************)
(* A block is judged by the quorum frozen in it, never by the committee    *)
(* the validating node knows.  The signers of a block are distinct.        *)
(***************************************************************************)
RequiredQuorum(b) == IF b.quorum > 0 THEN b.quorum ELSE 1

ValidateCheckpoint(b, st, seen, plausible) ==
    \/ b.proposal = GenesisProposal
    \/ /\ ValidateProposal(b.proposal, st, seen, plausible)
       /\ Cardinality(b.signers) >= RequiredQuorum(b)
=============================================================================
