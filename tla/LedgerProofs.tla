---------------------------- MODULE LedgerProofs ----------------------------
(***************************************************************************)
(* The ledger keeps its integrity, for every set of offered blocks and     *)
(* every sequence of append and rollback calls.                            *)
(***************************************************************************)
EXTENDS Ledger, ChainStoreProofs

\* Integrity is inductive once the blocks are known to be a sequence.  That
\* no stored epoch is negative is kept for RollbackUndoable.
IInv ==
    /\ store.blocks \in Seq(Offered)
    /\ Integrity
    /\ \A i \in 1 .. Len(store.blocks) : store.blocks[i].proposal.epoch >= 0

\* The invariant holds of the empty store open finds.
LEMMA InitIInv == Init => IInv
  BY DEF Init, EmptyStore, IInv, Integrity, StoreOK, VerifyChain, NoGap, TablesAgree, Height

\* Every append and every rollback preserves it.
LEMMA NextIInv == IInv /\ [Next]_store => IInv'
  <1> SUFFICES ASSUME IInv, [Next]_store PROVE IInv'
    OBVIOUS
  <1>1. ASSUME NEW b \in Offered, DoAppend(b) PROVE IInv'
    <2>1. StoreOK(AppendBlock(store, b))
      BY <1>1, AppendKeepsStoreOK DEF IInv, Integrity, DoAppend
    <2>2. AppendBlock(store, b).blocks \in Seq(Offered)
      BY DEF IInv, AppendBlock
    <2>3. \A i \in 1 .. Len(AppendBlock(store, b).blocks) :
             AppendBlock(store, b).blocks[i].proposal.epoch >= 0
      BY <1>1 DEF IInv, DoAppend, AppendBlock, Appendable
    <2> QED
      BY <1>1, <2>1, <2>2, <2>3 DEF IInv, Integrity, DoAppend
  <1>2. ASSUME NEW keep \in -1 .. Height(store), DoRollback(keep) PROVE IInv'
    <2>1. keep \in Int /\ keep >= -1
      BY DEF IInv, Height
    <2>2. StoreOK(Rollback(store, keep)) /\ Rollback(store, keep).blocks \in Seq(Offered)
      BY <2>1, RollbackKeepsStoreOK DEF IInv, Integrity
    <2>3. \A i \in 1 .. Len(Rollback(store, keep).blocks) :
             Rollback(store, keep).blocks[i].proposal.epoch >= 0
      <3>1. /\ Rollback(store, keep).blocks = SubSeq(store.blocks, 1, keep + 1)
            /\ keep + 1 \in 0 .. Len(store.blocks) - 1
        BY <2>1, <1>2 DEF IInv, Rollback, DoRollback, Height
      <3>2. \A i \in 1 .. keep + 1 : SubSeq(store.blocks, 1, keep + 1)[i] = store.blocks[i]
        BY <3>1, <2>1 DEF IInv
      <3>3. Len(SubSeq(store.blocks, 1, keep + 1)) = keep + 1
        BY <3>1, <2>1 DEF IInv
      <3> QED
        BY <3>1, <3>2, <3>3, <2>1 DEF IInv
    <2> QED
      BY <1>2, <2>2, <2>3 DEF IInv, Integrity, DoRollback
  <1>3. CASE UNCHANGED store
    BY <1>3 DEF IInv, Integrity
  <1> QED
    BY <1>1, <1>2, <1>3 DEF Next

\* The ledger always passes verify_chain, has no gap, and its claims table
\* agrees with its blocks, whatever callers append or roll back
\* (ledger.rs append, rollback, verify_chain).
THEOREM LedgerIntegrity == Spec => []Integrity
  <1>1. IInv => Integrity
    BY DEF IInv
  <1> QED
    BY InitIInv, NextIInv, <1>1, PTL DEF Spec

\* A rollback can be undone block by block: the first block it deleted is
\* accepted by append again, so the restore path of reconcile_chain cannot be
\* refused by a leftover of the deleted blocks.
THEOREM RollbackUndoable == Spec => RollbackIsUndoable
  <1> DEFINE A == Len(store'.blocks) < Len(store.blocks) =>
                    Appendable(store', store.blocks[Len(store'.blocks) + 1])
  <1>1. IInv /\ [Next]_store => [A]_store
    <2> SUFFICES ASSUME IInv, [Next]_store, Len(store'.blocks) < Len(store.blocks)
                 PROVE  Appendable(store', store.blocks[Len(store'.blocks) + 1])
      OBVIOUS
    <2>1. IInv'
      BY NextIInv
    <2>2. ASSUME NEW b \in Offered, DoAppend(b) PROVE FALSE
      BY <2>2 DEF DoAppend, AppendBlock, IInv
    <2>3. CASE UNCHANGED store
      BY <2>3 DEF IInv
    <2>4. ASSUME NEW keep \in -1 .. Height(store), DoRollback(keep)
          PROVE  /\ Len(store'.blocks) \in Nat
                 /\ \A i \in 1 .. Len(store'.blocks) : store'.blocks[i] = store.blocks[i]
                 /\ store.blocks[Len(store'.blocks) + 1].proposal.epoch >= 0
      <3>1. store'.blocks = SubSeq(store.blocks, 1, keep + 1) /\ keep + 1 \in 0 .. Len(store.blocks) - 1
        BY <2>4 DEF DoRollback, Rollback, IInv, Height
      <3> QED
        BY <3>1 DEF IInv
    <2>5. \E keep \in -1 .. Height(store) : DoRollback(keep)
      BY <2>2, <2>3 DEF Next, IInv
    <2> QED
      BY <2>1, <2>4, <2>5, PrefixAppendable, Zenon DEF IInv, Integrity
  <1> QED
    BY InitIInv, NextIInv, <1>1, PTL DEF Spec, RollbackIsUndoable
=============================================================================
