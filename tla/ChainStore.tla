----------------------------- MODULE ChainStore -----------------------------
(***************************************************************************)
(* The data of the ledger and the operations of the SQLite chain store     *)
(* (src/src/ledger.rs) as operators on a store value.                      *)
(*                                                                         *)
(* A store is the pair of tables of init_schema:                           *)
(*   blocks   the rows of table "blocks", in height order: the block of    *)
(*            height h is blocks[h + 1], because append only takes the     *)
(*            height after the greatest one and rollback deletes a suffix; *)
(*   claims   the rows of table "claims", each with the height it was      *)
(*            inserted at.                                                 *)
(* The two tables are written by separate statements of one transaction,   *)
(* so that they agree is something to establish, not to assume.            *)
(*                                                                         *)
(* Claims are records [id, node, seq, seen]: the claim_id, the             *)
(* contributing node, its sequence number and the ledger height its author *)
(* had when it made it (last_seen_checkpoint_height).                      *)
(***************************************************************************)
EXTENDS Integers, Sequences, FiniteSets

(***************************************************************************)
(* Hashes.  SHA-256 is modelled as collision free: a hash is the content   *)
(* it covers.  A proposal hash covers every field of the proposal.  A      *)
(* block hash covers the proposal hash and the signatures, and not the     *)
(* quorum field: the same proposal sealed with two different sets of       *)
(* shares is two blocks.  Ed25519 signatures are deterministic, so the     *)
(* signatures of a block are determined by the set of its signers.         *)
(***************************************************************************)
GenesisPrevHash == <<>>

GenesisSealer == 0

ProposalHash(p) == <<p.height, p.epoch, p.prev, p.sealer, p.claims, p.at>>

BlockHash(b) == <<ProposalHash(b.proposal), b.signers>>

GenesisProposal ==
    [height |-> 0, epoch |-> 0, prev |-> GenesisPrevHash,
     sealer |-> GenesisSealer, claims |-> {}, at |-> 0]

GenesisCheckpoint ==
    [proposal |-> GenesisProposal, signers |-> {}, quorum |-> 0]

(***************************************************************************)
(* Reads.                                                                  *)
(***************************************************************************)
EmptyStore == [blocks |-> <<>>, claims |-> {}]

Height(st) == Len(st.blocks) - 1

GetBlock(st, h) == st.blocks[h + 1]

HasBlock(st, h) == h \in 0 .. Height(st)

HeadBlock(st) == GetBlock(st, Height(st))

HeadHash(st) ==
    IF st.blocks = <<>> THEN GenesisPrevHash ELSE BlockHash(HeadBlock(st))

AllCommittedClaimIds(st) == {r.claim.id : r \in st.claims}

ClaimExists(st, id) == \E r \in st.claims : r.claim.id = id

TotalCuForNode(st, n) == Cardinality({r \in st.claims : r.claim.node = n})

\* What the claims table refuses to hold twice: its primary key and
\* UNIQUE(node_id, seq).
Clash(c, d) == c.id = d.id \/ (c.node = d.node /\ c.seq = d.seq)

IsAlreadyCommitted(st, b) ==
    \/ b.proposal.height <= Height(st)
    \/ \A c \in b.proposal.claims : \E r \in st.claims : Clash(r.claim, c)

(***************************************************************************)
(* Writes.  Each is one SQLite transaction: all of it or nothing.          *)
(***************************************************************************)

\* Mutant of Appendable: the parent is not checked.
AppendableAnywhere(st, b) ==
    /\ b.proposal.height = Height(st) + 1
    /\ b.proposal.epoch >= 0
    /\ \A c \in b.proposal.claims :
          /\ \A r \in st.claims : ~Clash(r.claim, c)
          /\ \A d \in b.proposal.claims : Clash(c, d) => c = d

\* The checks of append, and the uniqueness constraints that make its
\* transaction fail.
Appendable(st, b) ==
    /\ b.proposal.height = Height(st) + 1
    /\ b.proposal.prev = HeadHash(st)
    /\ b.proposal.epoch >= 0
    /\ \A c \in b.proposal.claims :
          /\ \A r \in st.claims : ~Clash(r.claim, c)
          /\ \A d \in b.proposal.claims : Clash(c, d) => c = d

ClaimRows(b) == {[claim |-> c, height |-> b.proposal.height] : c \in b.proposal.claims}

AppendBlock(st, b) ==
    [blocks |-> Append(st.blocks, b), claims |-> st.claims \union ClaimRows(b)]

\* Mutants of Rollback: the block to keep is deleted as well; the claims of
\* the deleted blocks stay.
RollbackInclusive(st, keep) ==
    [blocks |-> SubSeq(st.blocks, 1, IF keep <= Height(st) THEN keep ELSE Len(st.blocks)),
     claims |-> {r \in st.claims : r.height < keep}]

RollbackKeepsClaims(st, keep) ==
    [blocks |-> SubSeq(st.blocks, 1, IF keep < Height(st) THEN keep + 1 ELSE Len(st.blocks)),
     claims |-> st.claims]

Rollback(st, keep) ==
    [blocks |-> SubSeq(st.blocks, 1, IF keep < Height(st) THEN keep + 1 ELSE Len(st.blocks)),
     claims |-> {r \in st.claims : r.height <= keep}]

(***************************************************************************)
(* Integrity.  VerifyChain is the audit of verify_chain: every link, and   *)
(* no claim id and no (node, seq) twice along the blocks.  It reads only   *)
(* the blocks table.                                                       *)
(***************************************************************************)
LinkedAt(st, i) ==
    st.blocks[i].proposal.prev =
        IF i = 1 THEN GenesisPrevHash ELSE BlockHash(st.blocks[i - 1])

VerifyChain(st) ==
    /\ \A i \in 1 .. Len(st.blocks) : LinkedAt(st, i)
    /\ \A i, j \in 1 .. Len(st.blocks) :
          \A c \in st.blocks[i].proposal.claims, d \in st.blocks[j].proposal.claims :
             Clash(c, d) => i = j /\ c = d

\* The block at position i is the block of height i - 1: no gap.
NoGap(st) == \A i \in 1 .. Len(st.blocks) : st.blocks[i].proposal.height = i - 1

\* The claims table holds the claims of the stored blocks and nothing else.
TablesAgree(st) ==
    /\ \A r \in st.claims :
          r.height \in 0 .. Height(st) /\ r.claim \in GetBlock(st, r.height).proposal.claims
    /\ \A i \in 1 .. Len(st.blocks) : \A c \in st.blocks[i].proposal.claims :
          [claim |-> c, height |-> i - 1] \in st.claims

StoreOK(st) == VerifyChain(st) /\ NoGap(st) /\ TablesAgree(st)
=============================================================================
