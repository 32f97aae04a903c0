------------------------------- MODULE Ledger -------------------------------
(***************************************************************************)
(* The chain store as a component: one store, to which callers hand        *)
(* blocks in any order and which they roll back to any height.  Nothing is *)
(* assumed of the callers: Offered may hold blocks of any height, on any   *)
(* parent, with claims that clash.                                         *)
(***************************************************************************)
EXTENDS ChainStore

CONSTANT Offered    \* the blocks callers hand to append

VARIABLE store

Init == store = EmptyStore

\* append: takes the block or leaves both tables alone.
DoAppend(b) ==
    /\ Appendable(store, b)
    /\ store' = AppendBlock(store, b)

\* rollback(keep_height): -1 empties the ledger.
DoRollback(keep) ==
    /\ keep < Height(store)
    /\ store' = Rollback(store, keep)

Next ==
    \/ \E b \in Offered : DoAppend(b)
    \/ \E keep \in -1 .. Height(store) : DoRollback(keep)

Spec == Init /\ [][Next]_store

(***************************************************************************)
(* Properties.                                                             *)
(***************************************************************************)

\* The store passes verify_chain, has no gap, and its claims table is
\* exactly the claims of its blocks, whatever sequence of append and
\* rollback calls produced it (ledger.rs append, rollback, verify_chain).
Integrity == StoreOK(store)

\* A block once rolled back can be appended again on the same parent: undoing
\* a rollback block by block is always accepted, which the restore path of
\* reconcile_chain depends on.
RollbackIsUndoable ==
    [][Len(store'.blocks) < Len(store.blocks) =>
          Appendable(store', store.blocks[Len(store'.blocks) + 1])]_store
=============================================================================
