-------------------------- MODULE ChainStoreProofs --------------------------
(***************************************************************************)
(* What the operations of the chain store preserve, for every store and    *)
(* every block.                                                            *)
(***************************************************************************)
EXTENDS ChainStore, TLAPS

\* Clash is symmetric: the uniqueness constraints do not depend on which of
\* two claims was inserted first.
LEMMA ClashSymmetric == \A c, d : Clash(c, d) <=> Clash(d, c)
  BY DEF Clash

\* The blocks of a store stay a sequence when one is appended.
LEMMA AppendBlockType ==
  ASSUME NEW S, NEW st, NEW b, st.blocks \in Seq(S)
  PROVE  AppendBlock(st, b).blocks \in Seq(S \union {b})
  <1>1. st.blocks \in Seq(S \union {b})
    OBVIOUS
  <1> QED
    BY <1>1 DEF AppendBlock

\* append keeps the ledger sound: a block that passes its checks extends a
\* store that verifies, without gaps and with both tables in agreement, to
\* another such store (ledger.rs append, verify_chain).
THEOREM AppendKeepsStoreOK ==
  ASSUME NEW S, NEW st, NEW b, st.blocks \in Seq(S), StoreOK(st), Appendable(st, b)
  PROVE  StoreOK(AppendBlock(st, b))
  <1> DEFINE t == AppendBlock(st, b)
             n == Len(st.blocks)
  <1>1. /\ n \in Nat
        /\ Len(t.blocks) = n + 1
        /\ Height(t) = n /\ Height(st) = n - 1
        /\ \A i \in 1 .. n : t.blocks[i] = st.blocks[i]
        /\ t.blocks[n + 1] = b
        /\ t.claims = st.claims \union ClaimRows(b)
    <2>1. t.blocks = Append(st.blocks, b) /\ t.claims = st.claims \union ClaimRows(b)
      BY DEF AppendBlock
    <2>2. n \in Nat /\ Height(st) = n - 1
      BY DEF Height
    <2>3. /\ Len(t.blocks) = n + 1
          /\ \A i \in 1 .. n : t.blocks[i] = st.blocks[i]
          /\ t.blocks[n + 1] = b
      BY <2>1
    <2> QED
      BY <2>1, <2>2, <2>3 DEF Height
  <1> HIDE DEF t, n
  <1>2. b.proposal.height = n
    BY <1>1 DEF Appendable
  <1>3. \A i \in 1 .. n + 1 : LinkedAt(t, i)
    <2> SUFFICES ASSUME NEW i \in 1 .. n + 1 PROVE LinkedAt(t, i)
      OBVIOUS
    <2>1. CASE i \in 1 .. n
      <3>1. LinkedAt(st, i)
        BY <2>1 DEF StoreOK, VerifyChain, n
      <3>2. CASE i = 1
        BY <3>1, <3>2, <2>1, <1>1 DEF LinkedAt
      <3>3. CASE i # 1
        <4>1. i - 1 \in 1 .. n
          BY <3>3, <2>1, <1>1
        <4> QED
          BY <4>1, <3>1, <3>3, <2>1, <1>1 DEF LinkedAt
      <3> QED
        BY <3>2, <3>3
    <2>2. CASE i = n + 1 /\ n = 0
      <3>1. st.blocks = <<>>
        BY <2>2 DEF n
      <3> QED
        BY <2>2, <3>1, <1>1 DEF LinkedAt, Appendable, HeadHash
    <2>3. CASE i = n + 1 /\ n > 0
      <3>1. st.blocks # <<>>
        BY <2>3 DEF n
      <3>2. b.proposal.prev = BlockHash(st.blocks[n])
        BY <2>3, <3>1, <1>1 DEF Appendable, HeadHash, HeadBlock, GetBlock
      <3> QED
        BY <2>3, <3>2, <1>1 DEF LinkedAt
    <2> QED
      BY <2>1, <2>2, <2>3, <1>1
  <1>4. \A i, j \in 1 .. n + 1 :
          \A c \in t.blocks[i].proposal.claims, d \in t.blocks[j].proposal.claims :
             Clash(c, d) => i = j /\ c = d
    <2>1. \A i \in 1 .. n : \A d \in st.blocks[i].proposal.claims, c \in b.proposal.claims : ~Clash(d, c)
      <3> SUFFICES ASSUME NEW i \in 1 .. n, NEW d \in st.blocks[i].proposal.claims,
                          NEW c \in b.proposal.claims
                   PROVE  ~Clash(d, c)
        OBVIOUS
      <3>1. [claim |-> d, height |-> i - 1] \in st.claims
        BY DEF StoreOK, TablesAgree, n
      <3> QED
        BY <3>1 DEF Appendable
    <2>2. \A c, d \in b.proposal.claims : Clash(c, d) => c = d
      BY DEF Appendable
    <2>3. \A i, j \in 1 .. n : \A c \in st.blocks[i].proposal.claims, d \in st.blocks[j].proposal.claims :
             Clash(c, d) => i = j /\ c = d
      BY DEF StoreOK, VerifyChain, n
    <2> SUFFICES ASSUME NEW i \in 1 .. n + 1, NEW j \in 1 .. n + 1,
                        NEW c \in t.blocks[i].proposal.claims, NEW d \in t.blocks[j].proposal.claims,
                        Clash(c, d)
                 PROVE  i = j /\ c = d
      OBVIOUS
    <2>4. CASE i \in 1 .. n /\ j \in 1 .. n
      <3>1. c \in st.blocks[i].proposal.claims /\ d \in st.blocks[j].proposal.claims
        BY <2>4, <1>1
      <3> QED
        BY <3>1, <2>3, <2>4
    <2>5. CASE i = n + 1 /\ j = n + 1
      BY <2>2, <2>5, <1>1
    <2>6. CASE i \in 1 .. n /\ j = n + 1
      BY <2>1, <2>6, <1>1
    <2>7. CASE i = n + 1 /\ j \in 1 .. n
      BY <2>1, <2>7, <1>1, ClashSymmetric
    <2> QED
      BY <2>4, <2>5, <2>6, <2>7, <1>1
  <1>5. NoGap(t)
    <2> SUFFICES ASSUME NEW i \in 1 .. n + 1 PROVE t.blocks[i].proposal.height = i - 1
      BY <1>1 DEF NoGap
    <2>1. CASE i \in 1 .. n
      BY <2>1, <1>1 DEF StoreOK, NoGap, n
    <2>2. CASE i = n + 1
      BY <2>2, <1>1, <1>2
    <2> QED
      BY <2>1, <2>2, <1>1
  <1>6. TablesAgree(t)
    <2>1. ASSUME NEW r \in t.claims
          PROVE  r.height \in 0 .. n /\ r.claim \in t.blocks[r.height + 1].proposal.claims
      <3>1. CASE r \in st.claims
        <4>1. r.height \in 0 .. n - 1 /\ r.claim \in st.blocks[r.height + 1].proposal.claims
          BY <3>1, <1>1 DEF StoreOK, TablesAgree, GetBlock
        <4>2. r.height + 1 \in 1 .. n /\ r.height \in 0 .. n
          BY <4>1, <1>1
        <4> QED
          BY <4>1, <4>2, <1>1
      <3>2. CASE r \in ClaimRows(b)
        BY <3>2, <1>1, <1>2 DEF ClaimRows
      <3> QED
        BY <2>1, <3>1, <3>2, <1>1
    <2>2. ASSUME NEW i \in 1 .. n + 1, NEW c \in t.blocks[i].proposal.claims
          PROVE  [claim |-> c, height |-> i - 1] \in t.claims
      <3>1. CASE i \in 1 .. n
        BY <3>1, <2>2, <1>1 DEF StoreOK, TablesAgree, n
      <3>2. CASE i = n + 1
        BY <3>2, <2>2, <1>1, <1>2 DEF ClaimRows
      <3> QED
        BY <3>1, <3>2, <1>1
    <2> QED
      BY <2>1, <2>2, <1>1 DEF TablesAgree, GetBlock
  <1> QED
    BY <1>1, <1>3, <1>4, <1>5, <1>6 DEF StoreOK, VerifyChain, t

\* rollback keeps the ledger sound: it deletes a suffix of the blocks and
\* exactly the claims of that suffix, so no gap appears and no claim of a
\* deleted block survives (ledger.rs rollback; DESIGN.md: "rollback never
\* inserts a gap").
THEOREM RollbackKeepsStoreOK ==
  ASSUME NEW S, NEW st, NEW keep \in Int, st.blocks \in Seq(S), StoreOK(st), keep >= -1
  PROVE  /\ StoreOK(Rollback(st, keep))
         /\ Rollback(st, keep).blocks \in Seq(S)
  <1> DEFINE t == Rollback(st, keep)
             n == Len(st.blocks)
             m == IF keep < Height(st) THEN keep + 1 ELSE n
  <1>1. n \in Nat /\ m \in Nat /\ m <= n /\ m <= keep + 1 /\ (keep < n => m = keep + 1)
    BY DEF Height
  <1>2. t.blocks = SubSeq(st.blocks, 1, m) /\ t.claims = {r \in st.claims : r.height <= keep}
    BY DEF Rollback
  <1> HIDE DEF m
  <1>3. /\ t.blocks \in Seq(S)
        /\ Len(t.blocks) = m
        /\ \A i \in 1 .. m : t.blocks[i] = st.blocks[i]
    BY <1>1, <1>2
  <1>4. Height(t) = m - 1 /\ Height(st) = n - 1
    BY <1>3 DEF Height
  <1> HIDE DEF t, n
  <1>5. VerifyChain(t)
    <2>1. \A i \in 1 .. m : LinkedAt(t, i)
      <3> SUFFICES ASSUME NEW i \in 1 .. m PROVE LinkedAt(t, i)
        OBVIOUS
      <3>1. LinkedAt(st, i) /\ t.blocks[i] = st.blocks[i] /\ (i # 1 => t.blocks[i - 1] = st.blocks[i - 1])
        BY <1>1, <1>3 DEF StoreOK, VerifyChain, n
      <3> QED
        BY <3>1 DEF LinkedAt
    <2>2. ASSUME NEW i \in 1 .. m, NEW j \in 1 .. m,
                 NEW c \in t.blocks[i].proposal.claims, NEW d \in t.blocks[j].proposal.claims,
                 Clash(c, d)
          PROVE  i = j /\ c = d
      <3>1. i \in 1 .. n /\ j \in 1 .. n
        BY <1>1
      <3>2. c \in st.blocks[i].proposal.claims /\ d \in st.blocks[j].proposal.claims
        BY <2>2, <1>3
      <3> QED
        BY <2>2, <3>1, <3>2 DEF StoreOK, VerifyChain, n
    <2> QED
      BY <2>1, <2>2, <1>3 DEF VerifyChain
  <1>6. NoGap(t)
    <2> SUFFICES ASSUME NEW i \in 1 .. m PROVE t.blocks[i].proposal.height = i - 1
      BY <1>3 DEF NoGap
    <2>1. i \in 1 .. n /\ t.blocks[i] = st.blocks[i]
      BY <1>1, <1>3
    <2> QED
      BY <2>1 DEF StoreOK, NoGap, n
  <1>7. TablesAgree(t)
    <2>1. ASSUME NEW r \in t.claims
          PROVE  r.height \in 0 .. m - 1 /\ r.claim \in t.blocks[r.height + 1].proposal.claims
      <3>1. r \in st.claims /\ r.height <= keep
        BY <2>1, <1>2
      <3>2. r.height \in 0 .. n - 1 /\ r.claim \in st.blocks[r.height + 1].proposal.claims
        BY <3>1, <1>4 DEF StoreOK, TablesAgree, GetBlock
      <3>3. r.height \in 0 .. m - 1 /\ r.height + 1 \in 1 .. m
        BY <3>1, <3>2, <1>1 DEF m, Height
      <3> QED
        BY <3>2, <3>3, <1>3
    <2>2. ASSUME NEW i \in 1 .. m, NEW c \in t.blocks[i].proposal.claims
          PROVE  [claim |-> c, height |-> i - 1] \in t.claims
      <3>1. i \in 1 .. n /\ c \in st.blocks[i].proposal.claims
        BY <2>2, <1>1, <1>3
      <3>2. [claim |-> c, height |-> i - 1] \in st.claims
        BY <3>1 DEF StoreOK, TablesAgree, n
      <3>3. i - 1 <= keep
        BY <1>1
      <3> QED
        BY <3>2, <3>3, <1>2
    <2> QED
      BY <2>1, <2>2, <1>3, <1>4 DEF TablesAgree, GetBlock
  <1> QED
    BY <1>3, <1>5, <1>6, <1>7 DEF StoreOK, t

\* A store that holds the first m blocks of a chain that verifies accepts the
\* next block of that chain: this is what lets reconcile_chain put deleted
\* blocks back after a failed reorg.
THEOREM PrefixAppendable ==
  ASSUME NEW S, NEW full, NEW st, full.blocks \in Seq(S), st.blocks \in Seq(S),
         NEW m \in Nat, m < Len(full.blocks), Len(st.blocks) = m,
         \A i \in 1 .. m : st.blocks[i] = full.blocks[i],
         StoreOK(full), StoreOK(st),
         full.blocks[m + 1].proposal.epoch >= 0
  PROVE  Appendable(st, full.blocks[m + 1])
  <1> DEFINE b == full.blocks[m + 1]
             n == Len(full.blocks)
  <1>1. n \in Nat /\ m + 1 \in 1 .. n /\ Height(st) = m - 1
    BY DEF Height
  <1>2. b.proposal.height = Height(st) + 1
    BY <1>1 DEF StoreOK, NoGap
  <1>3. b.proposal.prev = HeadHash(st)
    <2>1. LinkedAt(full, m + 1)
      BY <1>1 DEF StoreOK, VerifyChain
    <2>2. CASE m = 0
      <3>1. st.blocks = <<>>
        BY <2>2
      <3> QED
        BY <2>1, <2>2, <3>1 DEF LinkedAt, HeadHash
    <2>3. CASE m > 0
      <3>1. st.blocks # <<>> /\ st.blocks[m] = full.blocks[m]
        BY <2>3
      <3>2. HeadHash(st) = BlockHash(full.blocks[m])
        BY <3>1, <1>1 DEF HeadHash, HeadBlock, GetBlock
      <3>3. b.proposal.prev = BlockHash(full.blocks[m])
        BY <2>1, <2>3 DEF LinkedAt
      <3> QED
        BY <3>2, <3>3
    <2> QED
      BY <2>2, <2>3
  <1>4. ASSUME NEW c \in b.proposal.claims, NEW r \in st.claims PROVE ~Clash(r.claim, c)
    <2>1. r.height \in 0 .. m - 1 /\ r.claim \in st.blocks[r.height + 1].proposal.claims
      BY <1>1 DEF StoreOK, TablesAgree, GetBlock
    <2>2. r.height + 1 \in 1 .. n /\ r.height + 1 # m + 1 /\ r.claim \in full.blocks[r.height + 1].proposal.claims
      BY <2>1, <1>1
    <2> QED
      BY <2>2, <1>1 DEF StoreOK, VerifyChain
  <1>5. ASSUME NEW c \in b.proposal.claims, NEW d \in b.proposal.claims, Clash(c, d) PROVE c = d
    BY <1>1, <1>5 DEF StoreOK, VerifyChain
  <1> QED
    BY <1>2, <1>3, <1>4, <1>5 DEF Appendable
=============================================================================
