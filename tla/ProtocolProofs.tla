--------------------------- MODULE ProtocolProofs ---------------------------
(***************************************************************************)
(* The ledger of every node stays sound, for any number of nodes, any      *)
(* claims, any hash order and any setting of the other constants.          *)
(***************************************************************************)
EXTENDS Protocol, ChainStoreProofs, WellFoundedInduction

(***************************************************************************)
(* The inductive invariant.  A store may be in the middle of a reorg, so   *)
(* the blocks a handler has set aside have to be described as well; and    *)
(* chains travel in messages, so those have to be described too.           *)
(***************************************************************************)
IsSeq(q) == \E S : q \in Seq(S)

\* The epoch of b is beyond the epoch its parent's hash covers.
EpochGrows(b) == b.proposal.epoch > b.proposal.prev[1][2]

ChainOK(st) ==
    /\ IsSeq(st.blocks)
    /\ StoreOK(st)
    /\ st.blocks # <<>> /\ st.blocks[1] = GenesisCheckpoint
    /\ \A i \in 2 .. Len(st.blocks) : EpochGrows(st.blocks[i])

\* A sync response is a piece of some chain: only the genesis block has height 0.
ResponseOK(blocks) ==
    /\ IsSeq(blocks) /\ blocks # <<>>
    /\ \A i \in 1 .. Len(blocks) : blocks[i].proposal.height = 0 => blocks[i] = GenesisCheckpoint

MsgOK(m) ==
    /\ m.type = "syncRequest" => m.from \in Int /\ m.from >= -1
    /\ m.type = "syncResponse" => ResponseOK(m.blocks)

SavedOK(blocks) ==
    IsSeq(blocks) /\ \A i \in 1 .. Len(blocks) : EpochGrows(blocks[i])

LockOK(s) ==
    /\ s.lock.op = "apply" => /\ s.lock.anc \in Nat /\ s.lock.anc <= Height(s.store)
                              /\ SavedOK(s.lock.saved)
    /\ s.lock.op = "restore" => SavedOK(s.lock.blocks) /\ s.lock.blocks # <<>>

Fields == {"id", "store", "pending", "committed", "proposed", "proposals", "shares",
           "signed", "view", "peers", "waiting", "rejects", "syncOpen", "out", "seq",
           "made", "boots", "lock"}

Core(s) ==
    /\ DOMAIN s = Fields
    /\ ChainOK(s.store)
    /\ \A m \in s.out : MsgOK(m)

NodeOK(s) == Core(s) /\ LockOK(s)

\* State t differs from s in nothing that the lock says, and its chain is not shorter.
Extends(s, t) == Core(t) /\ t.lock = s.lock /\ Height(t.store) >= Height(s.store)

IInv ==
    /\ DOMAIN node = Node /\ DOMAIN net = Node
    /\ \A n \in Node : NodeOK(node[n]) /\ \A m \in net[n] : MsgOK(m)

-----------------------------------------------------------------------------
\* Under ChainOK the epochs grow along the chain.
LEMMA ChainOKEpochs ==
  ASSUME NEW st, ChainOK(st)
  PROVE  \A i \in 2 .. Len(st.blocks) :
            st.blocks[i].proposal.epoch > st.blocks[i - 1].proposal.epoch
  <1>1. SUFFICES ASSUME NEW i \in 2 .. Len(st.blocks)
                 PROVE  st.blocks[i].proposal.epoch > st.blocks[i - 1].proposal.epoch
    OBVIOUS
  <1>2. PICK S : st.blocks \in Seq(S)
    BY DEF ChainOK, IsSeq
  <1>3. i \in 1 .. Len(st.blocks) /\ i # 1
    BY <1>2
  <1>4. st.blocks[i].proposal.prev = BlockHash(st.blocks[i - 1])
    BY <1>3 DEF ChainOK, StoreOK, VerifyChain, LinkedAt
  <1>5. BlockHash(st.blocks[i - 1])[1][2] = st.blocks[i - 1].proposal.epoch
    BY DEF BlockHash, ProposalHash
  <1>6. EpochGrows(st.blocks[i])
    BY DEF ChainOK
  <1> QED
    BY <1>4, <1>5, <1>6 DEF EpochGrows

\* A sound chain has a height and a head.
LEMMA ChainOKHead ==
  ASSUME NEW st, ChainOK(st)
  PROVE  /\ Height(st) \in Nat
         /\ Len(st.blocks) = Height(st) + 1
         /\ HeadHash(st) = BlockHash(HeadBlock(st))
         /\ HeadHash(st)[1][2] = HeadBlock(st).proposal.epoch
  <1>1. PICK S : st.blocks \in Seq(S)
    BY DEF ChainOK, IsSeq
  <1>2. st.blocks # <<>>
    BY DEF ChainOK
  <1>3. Len(st.blocks) \in Nat \ {0}
    BY <1>1, <1>2
  <1>4. HeadHash(st) = BlockHash(HeadBlock(st))
    BY <1>2 DEF HeadHash
  <1>5. BlockHash(HeadBlock(st))[1][2] = HeadBlock(st).proposal.epoch
    BY DEF BlockHash, ProposalHash
  <1> QED
    BY <1>3, <1>4, <1>5 DEF Height

\* append keeps a chain sound if the block's epoch grows (ledger.rs append).
LEMMA AppendChainOK ==
  ASSUME NEW st, NEW b, ChainOK(st), Appendable(st, b), EpochGrows(b)
  PROVE  ChainOK(AppendBlock(st, b)) /\ Height(AppendBlock(st, b)) = Height(st) + 1
  <1> DEFINE t == AppendBlock(st, b)
             n == Len(st.blocks)
  <1>1. PICK S : st.blocks \in Seq(S)
    BY DEF ChainOK, IsSeq
  <1>2. StoreOK(t)
    BY <1>1, AppendKeepsStoreOK DEF ChainOK
  <1>3. t.blocks \in Seq(S \union {b})
    BY <1>1, AppendBlockType, Zenon
  <1>4. t.blocks = Append(st.blocks, b)
    BY DEF AppendBlock
  <1>5. n \in Nat \ {0}
    BY <1>1 DEF ChainOK
  <1>6. /\ Len(t.blocks) = n + 1
        /\ \A i \in 1 .. n : t.blocks[i] = st.blocks[i]
        /\ t.blocks[n + 1] = b
    BY <1>1, <1>4
  <1> HIDE DEF t, n
  <1>7. t.blocks # <<>> /\ t.blocks[1] = GenesisCheckpoint
    <2>1. t.blocks # <<>>
      BY <1>6, <1>5
    <2> QED
      BY <2>1, <1>6, <1>5 DEF ChainOK
  <1>8. ASSUME NEW i \in 2 .. Len(t.blocks) PROVE EpochGrows(t.blocks[i])
    <2>1. CASE i = n + 1
      BY <2>1, <1>6
    <2>2. CASE i # n + 1
      <3>1. i \in 2 .. n /\ i \in 1 .. n
        BY <2>2, <1>6, <1>5
      <3> QED
        BY <3>1, <1>6 DEF ChainOK, n
    <2> QED
      BY <2>1, <2>2
  <1>9. ChainOK(t)
    BY <1>2, <1>3, <1>7, <1>8 DEF ChainOK, IsSeq
  <1> QED
    BY <1>9, <1>5, <1>6 DEF Height, t, n

\* rollback to an existing height keeps a chain sound (ledger.rs rollback).
LEMMA RollbackChainOK ==
  ASSUME NEW st, NEW keep \in Nat, ChainOK(st), keep <= Height(st)
  PROVE  ChainOK(Rollback(st, keep)) /\ Height(Rollback(st, keep)) = keep
  <1> DEFINE t == Rollback(st, keep)
             n == Len(st.blocks)
  <1>1. PICK S : st.blocks \in Seq(S)
    BY DEF ChainOK, IsSeq
  <1>2. StoreOK(t) /\ t.blocks \in Seq(S)
    BY <1>1, RollbackKeepsStoreOK DEF ChainOK
  <1>3. n \in Nat /\ keep + 1 \in 1 .. n /\ Height(st) = n - 1
    BY <1>1 DEF Height
  <1>4. t.blocks = SubSeq(st.blocks, 1, keep + 1)
    <2>1. CASE keep < Height(st)
      BY <2>1 DEF Rollback
    <2>2. CASE keep = Height(st)
      BY <2>2, <1>3 DEF Rollback
    <2> QED
      BY <2>1, <2>2, <1>3
  <1>5. Len(t.blocks) = keep + 1 /\ \A i \in 1 .. keep + 1 : t.blocks[i] = st.blocks[i]
    BY <1>1, <1>3, <1>4
  <1> HIDE DEF t, n
  <1>6. t.blocks # <<>> /\ t.blocks[1] = GenesisCheckpoint
    <2>1. t.blocks # <<>>
      BY <1>5
    <2> QED
      BY <2>1, <1>5, <1>3 DEF ChainOK
  <1>7. ASSUME NEW i \in 2 .. Len(t.blocks) PROVE EpochGrows(t.blocks[i])
    <2>1. i \in 1 .. keep + 1 /\ i \in 2 .. n
      BY <1>5, <1>3
    <2> QED
      BY <2>1, <1>5 DEF ChainOK, n
  <1>8. ChainOK(t)
    BY <1>2, <1>6, <1>7 DEF ChainOK, IsSeq
  <1> QED
    BY <1>8, <1>5 DEF Height, t

\* A block that validation accepts is beyond its parent's epoch, or is genesis.
LEMMA ValidatedBlock ==
  ASSUME NEW st, NEW b, NEW seen, NEW plausible, ChainOK(st),
         ValidateCheckpoint(b, st, seen, plausible)
  PROVE  \/ b.proposal.height = 0
         \/ b.proposal.height = Height(st) + 1 /\ EpochGrows(b)
  <1>1. CASE b.proposal = GenesisProposal
    BY <1>1 DEF GenesisProposal
  <1>2. CASE ValidateProposal(b.proposal, st, seen, plausible)
    <2>1. /\ b.proposal.height = Height(st) + 1
          /\ b.proposal.prev = HeadHash(st)
          /\ b.proposal.epoch > HeadBlock(st).proposal.epoch
      BY <1>2 DEF ValidateProposal, ChainOK
    <2> QED
      BY <2>1, ChainOKHead DEF EpochGrows
  <1> QED
    BY <1>1, <1>2 DEF ValidateCheckpoint

\* request_sync queues at most one well-formed request (protocol.rs request_sync).
LEMMA RequestSyncExtends ==
  ASSUME NEW s, NEW from \in Int, from >= -1, Core(s)
  PROVE  Extends(s, RequestSync(s, from)) /\ RequestSync(s, from).store = s.store
  <1> DEFINE m == SyncRequestMsg(s.id, from)
             t == [s EXCEPT !.syncOpen = ~RateLimited, !.out = @ \union {m}]
  <1>1. MsgOK(m)
    BY DEF MsgOK, SyncRequestMsg
  <1>2. DOMAIN t = Fields /\ t.store = s.store /\ t.lock = s.lock /\ t.out = s.out \union {m}
    BY DEF Core, Fields
  <1>3. Height(s.store) \in Nat
    BY ChainOKHead DEF Core
  <1>4. Extends(s, t)
    BY <1>1, <1>2, <1>3 DEF Extends, Core
  <1>5. Extends(s, s)
    BY <1>3 DEF Extends
  <1> QED
    BY <1>2, <1>4, <1>5 DEF RequestSync

\* commit_local of a validated block keeps the chain sound (protocol.rs commit_local).
LEMMA CommitLocalExtends ==
  ASSUME NEW s, NEW b, NEW seen, NEW plausible, Core(s),
         ValidateCheckpoint(b, s.store, seen, plausible)
  PROVE  Extends(s, CommitLocal(s, b))
  <1> DEFINE p == b.proposal
             settled == [s EXCEPT !.pending = {c \in @ : c.id \notin ClaimIds(p)},
                                  !.proposed = @ \ ClaimIds(p)]
             added == [settled EXCEPT
                         !.store = AppendBlock(@, b),
                         !.committed = @ \union ClaimIds(p),
                         !.proposals = @ \ {p},
                         !.shares = {x \in @ : x.proposal # p},
                         !.view = AdvanceView(@, p.epoch),
                         !.out = @ \union {CommitMsg(b)}]
             known == [settled EXCEPT
                         !.committed = @ \union (ClaimIds(p) \intersect AllCommittedClaimIds(s.store))]
  <1>1. ChainOK(s.store) /\ Height(s.store) \in Nat
    BY ChainOKHead DEF Core
  <1>2. \/ p.height = 0
        \/ p.height = Height(s.store) + 1 /\ EpochGrows(b)
    BY <1>1, ValidatedBlock
  <1>3. Extends(s, s)
    BY <1>1 DEF Extends
  <1>4. CASE p.height <= Height(s.store)
    BY <1>3, <1>4 DEF CommitLocal
  <1>5. CASE ~(p.height <= Height(s.store))
    <2>1. p.height = Height(s.store) + 1 /\ EpochGrows(b)
      BY <1>1, <1>2, <1>5
    <2>2. /\ DOMAIN settled = Fields /\ settled.store = s.store
          /\ settled.lock = s.lock /\ settled.out = s.out
      BY DEF Core, Fields
    <2>3. CASE Appendable(s.store, b)
      <3>1. CommitLocal(s, b) = added
        BY <1>5, <2>3 DEF CommitLocal
      <3> HIDE DEF settled
      <3>2. /\ DOMAIN added = Fields /\ added.store = AppendBlock(s.store, b)
            /\ added.lock = s.lock /\ added.out = s.out \union {CommitMsg(b)}
        BY <2>2 DEF Fields
      <3> HIDE DEF added
      <3>3. MsgOK(CommitMsg(b))
        BY DEF MsgOK, CommitMsg
      <3>4. ChainOK(added.store) /\ Height(added.store) = Height(s.store) + 1
        BY <1>1, <2>1, <2>3, <3>2, AppendChainOK
      <3> QED
        BY <1>1, <3>1, <3>2, <3>3, <3>4 DEF Extends, Core
    <2>4. CASE ~Appendable(s.store, b) /\ IsAlreadyCommitted(s.store, b)
      <3>1. CommitLocal(s, b) = known
        BY <1>5, <2>4 DEF CommitLocal
      <3> HIDE DEF settled
      <3>2. /\ DOMAIN known = Fields /\ known.store = s.store
            /\ known.lock = s.lock /\ known.out = s.out
        BY <2>2 DEF Fields
      <3> HIDE DEF known
      <3> QED
        BY <1>1, <3>1, <3>2 DEF Extends, Core
    <2>5. CASE ~Appendable(s.store, b) /\ ~IsAlreadyCommitted(s.store, b)
      <3>1. CommitLocal(s, b) = RequestSync(s, p.height - 1)
        BY <1>5, <2>5 DEF CommitLocal
      <3>2. p.height - 1 \in Int /\ p.height - 1 >= -1
        BY <1>1, <2>1
      <3> QED
        BY <3>1, <3>2, RequestSyncExtends
    <2> QED
      BY <2>3, <2>4, <2>5
  <1> QED
    BY <1>4, <1>5

\* Steps of a handler that extend the node's state compose.
LEMMA ExtendsTrans ==
  ASSUME NEW s, NEW t, NEW u, Core(s), Extends(s, t), Extends(t, u)
  PROVE  Extends(s, u)
  BY ChainOKHead DEF Extends, Core

\* A change of the fields the invariant does not read, or of out by messages
\* that are no sync messages, is an extension.
LEMMA SameChain ==
  ASSUME NEW s, NEW t, Core(s), DOMAIN t = Fields, t.store = s.store, t.lock = s.lock,
         \A m \in t.out : m \in s.out \/ MsgOK(m)
  PROVE  Extends(s, t)
  BY ChainOKHead DEF Extends, Core

\* maybe_commit keeps the chain sound (protocol.rs maybe_commit).
LEMMA MaybeCommitExtends ==
  ASSUME NEW s, NEW p, Core(s)
  PROVE  Extends(s, MaybeCommit(s, p))
  <1> DEFINE b == SealedBlock(s, p)
  <1> HIDE DEF b
  <1>1. CASE /\ Cardinality(b.signers) >= QuorumSize(s)
             /\ ValidateCheckpoint(b, s.store, s.committed, Plausible[s.id])
    <2>1. MaybeCommit(s, p) = CommitLocal(s, b)
      BY <1>1 DEF MaybeCommit, b
    <2> QED
      BY <1>1, <2>1, CommitLocalExtends
  <1>2. CASE ~(/\ Cardinality(b.signers) >= QuorumSize(s)
               /\ ValidateCheckpoint(b, s.store, s.committed, Plausible[s.id]))
    <2>1. MaybeCommit(s, p) = s
      BY <1>2 DEF MaybeCommit, b
    <2> QED
      BY <2>1, SameChain DEF Core
  <1> QED
    BY <1>1, <1>2

\* Holding and signing a proposal leaves the chain alone.
LEMMA HoldExtends ==
  ASSUME NEW s, NEW p, Core(s)
  PROVE  Extends(s, AddOwnSignature(HoldProposal(s, p), p))
  <1> DEFINE t == HoldProposal(s, p)
             u == AddOwnSignature(t, p)
  <1>1. DOMAIN t = Fields /\ t.store = s.store /\ t.lock = s.lock /\ t.out = s.out
    BY DEF HoldProposal, Core, Fields
  <1> HIDE DEF t
  <1>2. /\ DOMAIN u = Fields /\ u.store = s.store /\ u.lock = s.lock
        /\ u.out = s.out \union {ShareMsg(t.id, p)}
    BY <1>1 DEF AddOwnSignature, Fields
  <1>3. MsgOK(ShareMsg(t.id, p))
    BY DEF MsgOK, ShareMsg
  <1> HIDE DEF u
  <1>4. Extends(s, u)
    BY <1>2, <1>3, SameChain
  <1> QED
    BY <1>4 DEF u, t

\* on_proposal keeps the chain sound.
LEMMA OnProposalExtends ==
  ASSUME NEW s, NEW p, Core(s)
  PROVE  Extends(s, OnProposal(s, p))
  <1> DEFINE held == AddOwnSignature(HoldProposal(s, p), p)
  <1>1. Extends(s, held)
    BY HoldExtends
  <1> HIDE DEF held
  <1>2. Extends(held, MaybeCommit(held, p))
    BY <1>1, MaybeCommitExtends DEF Extends
  <1>3. Extends(s, MaybeCommit(held, p))
    BY <1>1, <1>2, ExtendsTrans
  <1>4. Extends(s, s)
    BY SameChain DEF Core
  <1>5. OnProposal(s, p) \in {s, held, MaybeCommit(held, p)}
    BY DEF OnProposal, held
  <1> QED
    BY <1>1, <1>3, <1>4, <1>5

\* on_signature keeps the chain sound.
LEMMA OnSignatureExtends ==
  ASSUME NEW s, NEW n, NEW p, Core(s)
  PROVE  Extends(s, OnSignature(s, n, p))
  <1> DEFINE t == [s EXCEPT !.shares = @ \union {[node |-> n, proposal |-> p]}]
  <1>1. DOMAIN t = Fields /\ t.store = s.store /\ t.lock = s.lock /\ t.out = s.out
    BY DEF Core, Fields
  <1>2. OnSignature(s, n, p) \in {s, MaybeCommit(t, p)}
    BY DEF OnSignature
  <1> HIDE DEF t
  <1>3. Extends(s, t)
    BY <1>1, SameChain
  <1>4. Extends(t, MaybeCommit(t, p))
    BY <1>3, MaybeCommitExtends DEF Extends
  <1>5. Extends(s, MaybeCommit(t, p))
    BY <1>3, <1>4, ExtendsTrans
  <1>6. Extends(s, s)
    BY SameChain DEF Core
  <1> QED
    BY <1>2, <1>5, <1>6

\* propose_internal keeps the chain sound.
LEMMA ProposeExtends ==
  ASSUME NEW s, Core(s)
  PROVE  Extends(s, ProposeInternal(s))
  <1> DEFINE p == DraftProposal(s)
             t == AddOwnSignature(HoldProposal(s, p), p)
             u == [t EXCEPT !.out = @ \union {ProposalMsg(p)}]
  <1>1. ProposeInternal(s) = MaybeCommit(u, p)
    BY DEF ProposeInternal
  <1> HIDE DEF p
  <1>2. Extends(s, t)
    BY HoldExtends
  <1> HIDE DEF t
  <1>3. /\ DOMAIN u = Fields /\ u.store = t.store /\ u.lock = t.lock
        /\ u.out = t.out \union {ProposalMsg(p)}
    BY <1>2 DEF Extends, Core, Fields
  <1>4. MsgOK(ProposalMsg(p))
    BY DEF MsgOK, ProposalMsg
  <1> HIDE DEF u
  <1>5. Extends(t, u)
    BY <1>2, <1>3, <1>4, SameChain DEF Extends
  <1>6. Extends(u, MaybeCommit(u, p))
    BY <1>5, MaybeCommitExtends DEF Extends
  <1>7. Extends(s, u)
    BY <1>2, <1>5, ExtendsTrans
  <1> QED
    BY <1>1, <1>6, <1>7, ExtendsTrans

\* on_heartbeat and tick leave the chain alone.
LEMMA HeartbeatExtends ==
  ASSUME NEW s, Core(s)
  PROVE  /\ \A n, height : Extends(s, OnHeartbeat(s, n, height))
         /\ \A gone, timeout : Extends(s, OnTick(s, gone, timeout))
  <1>1. ASSUME NEW n, NEW height PROVE Extends(s, OnHeartbeat(s, n, height))
    <2> DEFINE t == [s EXCEPT !.peers = @ \union {n}]
    <2>1. DOMAIN t = Fields /\ t.store = s.store /\ t.lock = s.lock /\ t.out = s.out
      BY DEF Core, Fields
    <2>2. OnHeartbeat(s, n, height) \in {t, RequestSync(t, Height(s.store))}
      BY DEF OnHeartbeat
    <2> HIDE DEF t
    <2>3. Extends(s, t)
      BY <2>1, SameChain
    <2>4. Height(s.store) \in Int /\ Height(s.store) >= -1
      BY ChainOKHead DEF Core
    <2>5. Extends(t, RequestSync(t, Height(s.store)))
      BY <2>3, <2>4, RequestSyncExtends DEF Extends
    <2> QED
      BY <2>2, <2>3, <2>5, ExtendsTrans
  <1>2. ASSUME NEW gone, NEW timeout PROVE Extends(s, OnTick(s, gone, timeout))
    <2> DEFINE m == HeartbeatMsg(s.id, Height(s.store))
               t == OnTick(s, gone, timeout)
    <2>1. DOMAIN t = Fields /\ t.store = s.store /\ t.lock = s.lock /\ t.out = s.out \union {m}
      BY DEF Core, Fields, OnTick
    <2>2. MsgOK(m)
      BY DEF MsgOK, HeartbeatMsg
    <2> HIDE DEF t, m
    <2>3. Extends(s, t)
      BY <2>1, <2>2, SameChain
    <2> QED
      BY <2>3 DEF t
  <1> QED
    BY <1>1, <1>2

\* A lock that sets no blocks aside asks nothing of the store.
LEMMA SetLock ==
  ASSUME NEW t, NEW l, Core(t), l.op \notin {"apply", "restore"}
  PROVE  NodeOK([t EXCEPT !.lock = l])
  <1> DEFINE u == [t EXCEPT !.lock = l]
  <1>1. DOMAIN u = Fields /\ u.store = t.store /\ u.lock = l /\ u.out = t.out
    BY DEF Core, Fields
  <1> HIDE DEF u
  <1>2. NodeOK(u)
    BY <1>1 DEF NodeOK, Core, LockOK
  <1> QED
    BY <1>2 DEF u

\* What follows a commit is the rest of a suffix or the queue of early commits.
LEMMA ResumeOK ==
  ASSUME NEW t, NEW heights, NEW rest, Core(t)
  PROVE  NodeOK(Resume(t, heights, rest)) /\ NodeOK([t EXCEPT !.lock = Suffix(rest)])
  <1>1. Suffix(rest).op \notin {"apply", "restore"}
    BY DEF Suffix, Free
  <1>2. Flush(heights, rest).op \notin {"apply", "restore"}
    BY DEF Flush
  <1> DEFINE l == IF Height(t.store) + 1 \in heights THEN Flush(heights, rest) ELSE Suffix(rest)
  <1>3. l.op \notin {"apply", "restore"}
    BY <1>1, <1>2
  <1>4. Resume(t, heights, rest) = [t EXCEPT !.lock = l]
    BY DEF Resume
  <1> HIDE DEF l
  <1> QED
    BY <1>1, <1>3, <1>4, SetLock

\* on_commit keeps the chain sound, for a block alone or in a suffix.
LEMMA OnCommitOK ==
  ASSUME NEW s, NEW b, NEW rest, Core(s)
  PROVE  NodeOK(OnCommit(s, b, rest))
  <1> DEFINE h == b.proposal.height
             head == Height(s.store)
             Return(t) == [t EXCEPT !.lock = Suffix(rest)]
             early == InsertPendingCommit(s, b)
             noted == NoteCommitReject(s, b)
             counted == [s EXCEPT !.committed = @ \union ClaimIds(b.proposal)]
             done == CommitLocal(counted, b)
  <1>1. head \in Nat
    BY ChainOKHead DEF Core
  <1>2. Core(early)
    <2>1. DOMAIN early = Fields /\ early.store = s.store /\ early.lock = s.lock /\ early.out = s.out
      BY DEF InsertPendingCommit, Core, Fields
    <2> QED
      BY <2>1, SameChain DEF Extends
  <1>3. Core(noted)
    <2>1. DOMAIN noted = Fields /\ noted.store = s.store /\ noted.lock = s.lock /\ noted.out = s.out
      BY DEF NoteCommitReject, Core, Fields
    <2> QED
      BY <2>1, SameChain DEF Extends
  <1>4. Core(counted) /\ counted.store = s.store
    <2>1. /\ DOMAIN counted = Fields /\ counted.store = s.store
          /\ counted.lock = s.lock /\ counted.out = s.out
      BY DEF Core, Fields
    <2> QED
      BY <2>1, SameChain, Zenon DEF Extends
  <1>5. Core(RequestSync(s, -1)) /\ Core(RequestSync(early, head))
    BY <1>1, <1>2, RequestSyncExtends DEF Extends
  <1>6. ValidateCheckpoint(b, s.store, s.committed, Plausible[s.id]) => Core(done)
    <2> SUFFICES ASSUME ValidateCheckpoint(b, s.store, s.committed, Plausible[s.id])
                 PROVE  Core(done)
      OBVIOUS
    <2> HIDE DEF counted
    <2>1. Extends(counted, done)
      BY <1>4, CommitLocalExtends
    <2> QED
      BY <2>1 DEF Extends
  <1>7. \/ OnCommit(s, b, rest) \in {Return(s), Return(RequestSync(s, -1)), Return(noted),
                                    Return(RequestSync(early, head))}
        \/ /\ ValidateCheckpoint(b, s.store, s.committed, Plausible[s.id])
           /\ OnCommit(s, b, rest) =
                 Resume(done, {x.proposal.height : x \in done.waiting}, rest)
    BY DEF OnCommit
  <1> HIDE DEF done, noted, early, counted
  <1>8. /\ NodeOK(Return(s)) /\ NodeOK(Return(noted))
        /\ NodeOK(Return(RequestSync(s, -1))) /\ NodeOK(Return(RequestSync(early, head)))
    BY <1>3, <1>5, ResumeOK, SMTT(30)
  <1>9. Core(done) => NodeOK(Resume(done, {x.proposal.height : x \in done.waiting}, rest))
    BY ResumeOK, Zenon
  <1> HIDE DEF Return
  <1> QED
    BY <1>6, <1>7, <1>8, <1>9

\* flush_pending_commits keeps the chain sound.
LEMMA FlushOK ==
  ASSUME NEW s, Core(s)
  PROVE  NodeOK(FlushPendingCommit(s))
  <1> DEFINE h == Height(s.store) + 1
             b == CHOOSE x \in s.waiting : x.proposal.height = h
             taken == [s EXCEPT !.waiting = @ \ {b}]
             t == IF ValidateCheckpoint(b, s.store, {}, Plausible[s.id])
                  THEN CommitLocal(taken, b) ELSE taken
             later == {k \in s.lock.heights : k > h}
  <1>1. FlushPendingCommit(s) = Resume(t, later, s.lock.blocks)
    BY DEF FlushPendingCommit
  <1> HIDE DEF b
  <1>2. /\ DOMAIN taken = Fields /\ taken.store = s.store
        /\ taken.lock = s.lock /\ taken.out = s.out
    BY DEF Core, Fields
  <1> HIDE DEF taken
  <1>3. Core(taken)
    BY <1>2, SameChain DEF Extends
  <1>4. Core(t)
    BY <1>2, <1>3, CommitLocalExtends DEF Extends
  <1> HIDE DEF t, later
  <1> QED
    BY <1>1, <1>4, ResumeOK, Zenon

\* on_sync_request answers with a piece of a sound chain.
LEMMA SyncRequestExtends ==
  ASSUME NEW s, NEW from \in Int, from >= -1, Core(s)
  PROVE  Extends(s, OnSyncRequest(s, from))
  <1> DEFINE q == s.store.blocks
             blocks == SubSeq(q, from + 2, Len(q))
             t == [s EXCEPT !.out = @ \union {SyncResponseMsg(blocks)}]
  <1>1. PICK S : q \in Seq(S)
    BY DEF Core, ChainOK, IsSeq
  <1>2. OnSyncRequest(s, from) = IF blocks = <<>> THEN s ELSE t
    BY DEF OnSyncRequest
  <1>3. CASE blocks = <<>>
    BY <1>2, <1>3, SameChain DEF Core
  <1>4. CASE blocks # <<>>
    <2>1. Len(q) \in Nat /\ from + 2 >= 1
      BY <1>1
    <2>2. from + 2 <= Len(q)
      BY <1>1, <1>4, <2>1
    <2>3. /\ blocks \in Seq(S)
          /\ Len(blocks) = Len(q) - from - 1
          /\ \A i \in 1 .. Len(blocks) : blocks[i] = q[from + 1 + i]
      BY <1>1, <2>1, <2>2
    <2>4. ASSUME NEW i \in 1 .. Len(blocks), blocks[i].proposal.height = 0
          PROVE  blocks[i] = GenesisCheckpoint
      <3>1. from + 1 + i \in 1 .. Len(q) /\ blocks[i] = q[from + 1 + i]
        BY <2>1, <2>2, <2>3
      <3>2. q[from + 1 + i].proposal.height = from + i
        <4>1. NoGap(s.store)
          BY DEF Core, ChainOK, StoreOK
        <4> QED
          BY <4>1, <3>1, <2>1 DEF NoGap
      <3>3. from + 1 + i = 1
        BY <3>1, <3>2, <2>4, <2>3, <2>1
      <3> QED
        BY <3>1, <3>3, Zenon DEF Core, ChainOK
    <2> HIDE DEF blocks
    <2>5. MsgOK(SyncResponseMsg(blocks))
      <3>1. ResponseOK(blocks)
        BY <1>4, <2>3, <2>4 DEF ResponseOK, IsSeq
      <3> QED
        BY <3>1 DEF MsgOK, SyncResponseMsg
    <2>6. /\ DOMAIN t = Fields /\ t.store = s.store /\ t.lock = s.lock
          /\ t.out = s.out \union {SyncResponseMsg(blocks)}
      BY DEF Core, Fields
    <2> HIDE DEF t
    <2>7. Extends(s, t)
      BY <2>5, <2>6, SameChain
    <2> QED
      BY <1>2, <1>4, <2>7
  <1> QED
    BY <1>3, <1>4

-----------------------------------------------------------------------------
\* A non-empty set of numbers between 0 and some bound has a greatest element.
LEMMA HasMax ==
  ASSUME NEW N \in Nat, NEW T \in SUBSET (0 .. N), T # {}
  PROVE  Max({-1} \union T) \in T
  <1> DEFINE D == {N - h : h \in T}
             R == OpToRel(<, Nat)
  <1>1. D \subseteq Nat /\ D # {}
    <2>1. PICK g : g \in T
      OBVIOUS
    <2>2. N - g \in D
      BY <2>1
    <2>3. \A h \in T : N - h \in Nat
      OBVIOUS
    <2> QED
      BY <2>2, <2>3
  <1>2. PICK x \in D : \A y \in D : ~(<<y, x>> \in R)
    <2>1. IsWellFoundedOn(R, Nat)
      BY NatLessThanWellFounded, Zenon
    <2> HIDE DEF R, D
    <2> QED
      BY <1>1, <2>1, WFMin, Zenon
  <1>3. \A y \in D : ~(y < x)
    BY <1>1, <1>2, Zenon DEF OpToRel
  <1>4. PICK h \in T : x = N - h
    BY <1>2, Zenon
  <1>5. \A k \in T : h >= k
    <2> SUFFICES ASSUME NEW k \in T PROVE h >= k
      OBVIOUS
    <2>1. N - k \in D
      OBVIOUS
    <2>2. ~(N - k < N - h)
      BY <2>1, <1>3, <1>4
    <2>3. k \in Int /\ h \in Int
      OBVIOUS
    <2> QED
      BY <2>2, <2>3
  <1> DEFINE U == {-1} \union T
  <1>6. h \in U /\ \A k \in U : h >= k
    BY <1>5
  <1>7. Max(U) \in U /\ \A k \in U : Max(U) >= k
    <2> HIDE DEF U
    <2> QED
      BY <1>6, Zenon DEF Max
  <1>8. h \in 0 .. N
    OBVIOUS
  <1>9. \A u \in U : u = -1 \/ u \in T
    OBVIOUS
  <1> HIDE DEF U
  <1>10. Max(U) # -1
    BY <1>6, <1>7, <1>8
  <1>11. Max(U) \in T
    BY <1>7, <1>9, <1>10
  <1> QED
    BY <1>11 DEF U

\* A full chain shares at least the genesis block with the local one
\* (protocol.rs common_ancestor).
LEMMA AncestorExists ==
  ASSUME NEW st, NEW blocks, ChainOK(st), ResponseOK(blocks),
         \E i \in DOMAIN blocks : blocks[i].proposal.height = 0
  PROVE  CommonAncestor(st, blocks) \in 0 .. Height(st)
  <1> DEFINE T == {h \in 0 .. Height(st) :
                      \E i \in DOMAIN blocks :
                         /\ blocks[i].proposal.height = h
                         /\ BlockHash(blocks[i]) = BlockHash(GetBlock(st, h))}
  <1>1. PICK S : blocks \in Seq(S)
    BY DEF ResponseOK, IsSeq
  <1>2. PICK i \in DOMAIN blocks : blocks[i].proposal.height = 0
    OBVIOUS
  <1>3. blocks[i] = GenesisCheckpoint
    BY <1>1, <1>2 DEF ResponseOK
  <1>4. GetBlock(st, 0) = GenesisCheckpoint
    BY DEF GetBlock, ChainOK
  <1>5. Height(st) \in Nat
    BY ChainOKHead
  <1>6. 0 \in T
    BY <1>2, <1>3, <1>4, <1>5
  <1>7. T \in SUBSET (0 .. Height(st)) /\ T # {}
    BY <1>6
  <1>8. CommonAncestor(st, blocks) = Max({-1} \union T)
    BY DEF CommonAncestor
  <1> HIDE DEF T
  <1> QED
    BY <1>5, <1>7, <1>8, HasMax, Zenon

\* reconcile_chain rolls back to a height both chains share and sets aside a
\* piece of a sound chain.
LEMMA ReconcileOK ==
  ASSUME NEW s, NEW blocks, Core(s), s.lock = Free, ResponseOK(blocks),
         \E i \in DOMAIN blocks : blocks[i].proposal.height = 0
  PROVE  NodeOK(ReconcileChain(s, blocks))
  <1> DEFINE q == s.store.blocks
             anc == CommonAncestor(s.store, blocks)
             incoming == Above(blocks, anc)
             saved == SubSeq(q, anc + 2, Len(q))
             t == [s EXCEPT !.store = Rollback(@, anc),
                            !.waiting = IF anc < Height(s.store)
                                        THEN {b \in @ : b.proposal.height <= anc} ELSE @,
                            !.lock = Apply(anc, saved, incoming)]
  <1>1. ReconcileChain(s, blocks) \in {s, t}
    BY DEF ReconcileChain
  <1>2. NodeOK(s)
    BY DEF NodeOK, LockOK, Free
  <1>3. ChainOK(s.store) /\ Height(s.store) \in Nat /\ Len(q) = Height(s.store) + 1
    BY ChainOKHead DEF Core
  <1>4. anc \in Nat /\ anc <= Height(s.store)
    BY <1>3, AncestorExists
  <1> HIDE DEF anc, incoming
  <1>5. SavedOK(saved)
    <2>1. PICK S : q \in Seq(S)
      BY <1>3 DEF ChainOK, IsSeq
    <2>2. CASE anc + 2 <= Len(q)
      <3>1. /\ saved \in Seq(S)
            /\ Len(saved) = Len(q) - anc - 1
            /\ \A i \in 1 .. Len(saved) : saved[i] = q[anc + 1 + i]
        BY <2>1, <2>2, <1>4
      <3> HIDE DEF saved
      <3>2. ASSUME NEW i \in 1 .. Len(saved) PROVE EpochGrows(saved[i])
        <4>1. Len(q) \in Nat /\ i \in Nat /\ 1 <= i /\ i <= Len(q) - anc - 1
          BY <3>1, <1>3, <1>4
        <4>2. anc + 1 + i \in 2 .. Len(q)
          BY <4>1, <1>4
        <4> QED
          BY <4>2, <3>1, <1>3, Zenon DEF ChainOK
      <3> QED
        BY <3>1, <3>2 DEF SavedOK, IsSeq
    <2>3. CASE ~(anc + 2 <= Len(q))
      <3>1. saved = <<>>
        BY <2>1, <2>3, <1>3, <1>4
      <3>2. <<>> \in Seq({}) /\ Len(<<>>) = 0
        OBVIOUS
      <3>3. IsSeq(<<>>)
        BY <3>2 DEF IsSeq
      <3>4. \A i \in 1 .. 0 : EpochGrows(<<>>[i])
        OBVIOUS
      <3>5. SavedOK(<<>>)
        BY <3>2, <3>3, <3>4 DEF SavedOK
      <3> QED
        BY <3>1, <3>5, Zenon
    <2> QED
      BY <2>2, <2>3
  <1> HIDE DEF saved
  <1>6. /\ DOMAIN t = Fields /\ t.store = Rollback(s.store, anc)
        /\ t.lock = Apply(anc, saved, incoming) /\ t.out = s.out
    BY DEF Core, Fields
  <1>7. ChainOK(t.store) /\ Height(t.store) = anc
    BY <1>3, <1>4, <1>6, RollbackChainOK
  <1> HIDE DEF t
  <1>8. LockOK(t)
    BY <1>4, <1>5, <1>6, <1>7 DEF LockOK, Apply
  <1> QED
    BY <1>1, <1>2, <1>6, <1>7, <1>8 DEF NodeOK, Core

\* The end of a reorg leaves the store alone and frees the mutex.
LEMMA ReorgDoneOK ==
  ASSUME NEW s, Core(s)
  PROVE  NodeOK(ReorgDone(s))
  <1> DEFINE t == ReorgDone(s)
  <1>1. DOMAIN t = Fields /\ t.store = s.store /\ t.lock = Free /\ t.out = s.out
    BY DEF ReorgDone, Core, Fields
  <1> HIDE DEF t
  <1>2. NodeOK(t)
    BY <1>1 DEF NodeOK, Core, LockOK, Free
  <1> QED
    BY <1>2 DEF t

\* One turn of the re-apply loop keeps the chain sound, whether the block is
\* appended or makes the node roll back to the ancestor.
LEMMA ApplyOK ==
  ASSUME NEW s, NodeOK(s), s.lock.op = "apply"
  PROVE  NodeOK(ApplyBlock(s))
  <1> DEFINE b == Head(s.lock.blocks)
             t == CommitLocal(s, b)
             next == [t EXCEPT !.lock = Apply(s.lock.anc, s.lock.saved, Tail(s.lock.blocks))]
             undone == [s EXCEPT !.store = Rollback(@, s.lock.anc),
                                 !.lock = Restore(s.lock.saved)]
  <1>1. /\ Core(s) /\ s.lock.anc \in Nat /\ s.lock.anc <= Height(s.store)
        /\ SavedOK(s.lock.saved)
    BY DEF NodeOK, LockOK
  <1>2. Height(s.store) \in Nat
    BY <1>1, ChainOKHead DEF Core
  <1>3. ApplyBlock(s) =
          IF ValidateCheckpoint(b, s.store, {}, Plausible[s.id]) THEN
              IF Len(s.lock.blocks) = 1 THEN ReorgDone(t) ELSE next
          ELSE IF s.lock.saved = <<>> THEN ReorgDone(undone)
          ELSE undone
    BY DEF ApplyBlock
  <1> HIDE DEF b
  <1>4. CASE ValidateCheckpoint(b, s.store, {}, Plausible[s.id])
    <2>1. Extends(s, t)
      BY <1>1, <1>4, CommitLocalExtends
    <2> HIDE DEF t
    <2>2. Core(t) /\ Height(t.store) \in Nat /\ Height(t.store) >= Height(s.store)
      BY <2>1, ChainOKHead DEF Extends, Core
    <2>3. /\ DOMAIN next = Fields /\ next.store = t.store /\ next.out = t.out
          /\ next.lock = Apply(s.lock.anc, s.lock.saved, Tail(s.lock.blocks))
      BY <2>2 DEF Core, Fields
    <2> HIDE DEF next
    <2>4. LockOK(next)
      BY <1>1, <1>2, <2>2, <2>3 DEF LockOK, Apply
    <2>5. NodeOK(next)
      BY <2>2, <2>3, <2>4 DEF NodeOK, Core
    <2>6. NodeOK(ReorgDone(t))
      BY <2>2, ReorgDoneOK
    <2> QED
      BY <1>3, <1>4, <2>5, <2>6
  <1>5. CASE ~ValidateCheckpoint(b, s.store, {}, Plausible[s.id])
    <2>1. /\ DOMAIN undone = Fields /\ undone.store = Rollback(s.store, s.lock.anc)
          /\ undone.lock = Restore(s.lock.saved) /\ undone.out = s.out
      BY <1>1 DEF Core, Fields
    <2> HIDE DEF undone
    <2>2. Core(undone)
      BY <1>1, <2>1, RollbackChainOK DEF Core
    <2>3. NodeOK(ReorgDone(undone))
      BY <2>2, ReorgDoneOK
    <2>4. s.lock.saved # <<>> => NodeOK(undone)
      BY <1>1, <2>1, <2>2 DEF NodeOK, LockOK, Restore
    <2> QED
      BY <1>3, <1>5, <2>3, <2>4
  <1> QED
    BY <1>4, <1>5

\* One turn of the restore loop keeps the chain sound.
LEMMA RestoreOK ==
  ASSUME NEW s, NodeOK(s), s.lock.op = "restore"
  PROVE  NodeOK(RestoreBlock(s))
  <1> DEFINE q == s.lock.blocks
             b == Head(q)
             added == [s EXCEPT !.store = AppendBlock(@, b)]
             t == IF Appendable(s.store, b) THEN added ELSE s
             next == [t EXCEPT !.lock = Restore(Tail(q))]
  <1>1. Core(s) /\ SavedOK(q) /\ q # <<>>
    BY DEF NodeOK, LockOK
  <1>2. RestoreBlock(s) = IF Len(q) = 1 THEN ReorgDone(t) ELSE next
    BY DEF RestoreBlock
  <1>3. PICK S : q \in Seq(S)
    BY <1>1 DEF SavedOK, IsSeq
  <1>4. b = q[1] /\ 1 \in 1 .. Len(q)
    BY <1>1, <1>3
  <1>5. EpochGrows(b)
    BY <1>1, <1>4 DEF SavedOK
  <1>6. Len(q) # 1 => SavedOK(Tail(q)) /\ Tail(q) # <<>>
    <2> SUFFICES ASSUME Len(q) # 1 PROVE SavedOK(Tail(q)) /\ Tail(q) # <<>>
      OBVIOUS
    <2>1. /\ Tail(q) \in Seq(S) /\ Len(Tail(q)) = Len(q) - 1 /\ Len(q) \in Nat
          /\ \A i \in 1 .. Len(q) - 1 : Tail(q)[i] = q[i + 1]
      BY <1>1, <1>3
    <2>2. \A i \in 1 .. Len(Tail(q)) : EpochGrows(Tail(q)[i])
      BY <1>1, <2>1 DEF SavedOK
    <2>3. Len(Tail(q)) # 0
      BY <1>4, <2>1
    <2>4. Tail(q) # <<>>
      <3>1. \A w : Len(w) # 0 => w # <<>>
        OBVIOUS
      <3> QED
        BY <2>3, <3>1, Zenon
    <2> QED
      BY <2>1, <2>2, <2>4 DEF SavedOK, IsSeq
  <1> HIDE DEF q, b
  <1>7. /\ DOMAIN added = Fields /\ added.store = AppendBlock(s.store, b)
        /\ added.lock = s.lock /\ added.out = s.out
    BY <1>1 DEF Core, Fields
  <1> HIDE DEF added
  <1>8. Core(t)
    BY <1>1, <1>5, <1>7, AppendChainOK DEF Core
  <1> HIDE DEF t
  <1>9. /\ DOMAIN next = Fields /\ next.store = t.store
        /\ next.lock = Restore(Tail(q)) /\ next.out = t.out
    BY <1>8 DEF Core, Fields
  <1> HIDE DEF next
  <1>10. Len(q) # 1 => NodeOK(next)
    BY <1>6, <1>8, <1>9 DEF NodeOK, Core, LockOK, Restore
  <1> QED
    BY <1>2, <1>8, <1>10, ReorgDoneOK

-----------------------------------------------------------------------------
\* A node starts with a sound chain, on an empty store and on a sound one.
LEMMA BootOK ==
  ASSUME NEW n, NEW found, NEW boots, found = EmptyStore \/ ChainOK(found)
  PROVE  NodeOK(Boot(n, found, boots))
  <1> DEFINE st == EnsureGenesis(found)
             s == Boot(n, found, boots)
  <1>1. ASSUME found = EmptyStore PROVE ChainOK(st)
    <2> DEFINE g == [blocks |-> <<GenesisCheckpoint>>, claims |-> {}]
    <2>1. st = g
      <3>1. ClaimRows(GenesisCheckpoint) = {}
        BY DEF ClaimRows, GenesisCheckpoint, GenesisProposal
      <3>2. Append(<<>>, GenesisCheckpoint) = <<GenesisCheckpoint>>
        OBVIOUS
      <3>3. Appendable(EmptyStore, GenesisCheckpoint)
        BY DEF Appendable, EmptyStore, GenesisCheckpoint, GenesisProposal, Height, HeadHash
      <3> QED
        BY <1>1, <3>1, <3>2, <3>3 DEF EnsureGenesis, EmptyStore, AppendBlock
    <2>2. g.blocks \in Seq({GenesisCheckpoint}) /\ Len(g.blocks) = 1 /\ g.blocks[1] = GenesisCheckpoint
      OBVIOUS
    <2>3. GenesisCheckpoint.proposal = GenesisProposal /\ GenesisProposal.claims = {}
      BY DEF GenesisCheckpoint, GenesisProposal
    <2>4. GenesisProposal.height = 0 /\ GenesisProposal.prev = GenesisPrevHash
      BY DEF GenesisProposal
    <2>5. g.claims = {} /\ g.blocks # <<>>
      OBVIOUS
    <2> HIDE DEF g
    <2>6. StoreOK(g)
      BY <2>2, <2>3, <2>4, <2>5 DEF StoreOK, VerifyChain, LinkedAt, NoGap, TablesAgree
    <2>7. ChainOK(g)
      BY <2>2, <2>5, <2>6 DEF ChainOK, IsSeq
    <2> QED
      BY <2>1, <2>7
  <1>2. ASSUME ChainOK(found) PROVE ChainOK(st)
    <2>1. st = found
      BY <1>2 DEF EnsureGenesis, ChainOK
    <2> QED
      BY <1>2, <2>1
  <1>3. ChainOK(st)
    BY <1>1, <1>2, SMTT(30)
  <1>4. DOMAIN s = Fields /\ s.store = st /\ s.lock = Free /\ s.out = {}
    BY ZenonT(30) DEF Boot, Fields
  <1> HIDE DEF s, st
  <1>5. NodeOK(s)
    BY <1>3, <1>4, SMTT(30) DEF NodeOK, Core, LockOK, Free
  <1> QED
    BY <1>5 DEF s

\* A node that goes on in a good state, and publishes good messages, keeps the
\* invariant.
LEMMA BecomeOK ==
  ASSUME IInv, NEW n \in Node, NEW nt, NEW s, DOMAIN nt = Node,
         \A k \in Node : \A m \in nt[k] : MsgOK(m),
         NodeOK(s), Become(n, nt, s)
  PROVE  IInv'
  <1> DEFINE e == [s EXCEPT !.out = {}]
  <1>1. DOMAIN e = Fields /\ e.store = s.store /\ e.lock = s.lock /\ e.out = {}
    BY DEF NodeOK, Core, Fields
  <1> HIDE DEF e
  <1>2. NodeOK(e)
    BY <1>1 DEF NodeOK, Core, LockOK
  <1>3. node' = [node EXCEPT ![n] = IF s.lock = Free THEN e ELSE s]
    BY DEF Become, e
  <1>4. DOMAIN node' = Node /\ \A k \in Node : NodeOK(node'[k])
    BY <1>2, <1>3 DEF IInv
  <1>5. DOMAIN net' = Node /\ \A k \in Node : \A m \in net'[k] : MsgOK(m)
    <2>1. CASE s.lock = Free
      <3>1. net' = [k \in Node |-> nt[k] \union {m \in s.out : ~DroppedBy(k, m)}]
        BY <2>1 DEF Become, Publish
      <3>2. \A m \in s.out : MsgOK(m)
        BY DEF NodeOK, Core
      <3> QED
        BY <3>1, <3>2
    <2>2. CASE s.lock # Free
      BY <2>2 DEF Become
    <2> QED
      BY <2>1, <2>2
  <1> QED
    BY <1>4, <1>5 DEF IInv

\* The same for a node that handled message m.
LEMMA HandleOK ==
  ASSUME IInv, NEW n \in Node, NEW m, NEW s, NodeOK(s), Handle(n, m, s)
  PROVE  IInv'
  <1> DEFINE nt == Consumed(n, m)
  <1>1. nt = net \/ nt = [net EXCEPT ![n] = @ \ {m}]
    BY DEF Consumed
  <1>2. Become(n, nt, s)
    BY DEF Handle
  <1> HIDE DEF nt
  <1>3. DOMAIN nt = Node /\ \A k \in Node : \A x \in nt[k] : MsgOK(x)
    BY <1>1 DEF IInv
  <1> QED
    BY <1>2, <1>3, BecomeOK

\* A node whose mutex is free and that extends its chain is good.
LEMMA IdleExtends ==
  ASSUME NEW s, NEW t, s.lock = Free, Extends(s, t)
  PROVE  NodeOK(t)
  BY DEF Extends, NodeOK, LockOK, Free

\* Every message handler preserves the invariant.
LEMMA DeliverOK ==
  ASSUME IInv, NEW n \in Node, Deliver(n)
  PROVE  IInv'
  <1>1. NodeOK(node[n]) /\ Core(node[n])
    BY DEF IInv, NodeOK
  <1> DEFINE s == node[n]
  <1>2. PICK m \in net[n] : \/ ReceiveClaim(n, m) \/ ReceiveProposal(n, m)
                           \/ ReceiveShare(n, m) \/ ReceiveCommit(n, m)
                           \/ ReceiveHeartbeat(n, m) \/ ReceiveSyncRequest(n, m)
                           \/ ReceiveSyncResponse(n, m)
    BY DEF Deliver
  <1>3. MsgOK(m)
    BY DEF IInv
  <1>4. s.lock = Free
    BY <1>2 DEF ReceiveClaim, ReceiveProposal, ReceiveShare, ReceiveCommit, ReceiveHeartbeat,
                ReceiveSyncRequest, ReceiveSyncResponse, Take, Idle
  <1>5. CASE ReceiveClaim(n, m)
    <2>1. PICK q : Handle(n, m, [s EXCEPT !.pending = q])
      BY <1>5, Zenon DEF ReceiveClaim
    <2> DEFINE t == [s EXCEPT !.pending = q]
    <2>2. DOMAIN t = Fields /\ t.store = s.store /\ t.lock = s.lock /\ t.out = s.out
      BY <1>1 DEF Core, Fields
    <2> HIDE DEF t
    <2>3. NodeOK(t)
      BY <1>1, <1>4, <2>2, SameChain, IdleExtends
    <2> QED
      BY <2>1, <2>3, HandleOK DEF t
  <1>6. CASE ReceiveProposal(n, m)
    <2>1. NodeOK(OnProposal(s, m.proposal))
      BY <1>1, <1>4, OnProposalExtends, IdleExtends
    <2> QED
      BY <1>6, <2>1, HandleOK DEF ReceiveProposal
  <1>7. CASE ReceiveShare(n, m)
    <2>1. NodeOK(OnSignature(s, m.node, m.proposal))
      BY <1>1, <1>4, OnSignatureExtends, IdleExtends
    <2> QED
      BY <1>7, <2>1, HandleOK DEF ReceiveShare
  <1>8. CASE ReceiveCommit(n, m)
    <2>1. NodeOK(OnCommit(s, m.block, <<>>))
      BY <1>1, OnCommitOK
    <2> QED
      BY <1>8, <2>1, HandleOK DEF ReceiveCommit
  <1>9. CASE ReceiveHeartbeat(n, m)
    <2>1. NodeOK(OnHeartbeat(s, m.node, m.height))
      BY <1>1, <1>4, HeartbeatExtends, IdleExtends
    <2> QED
      BY <1>9, <2>1, HandleOK DEF ReceiveHeartbeat
  <1>10. CASE ReceiveSyncRequest(n, m)
    <2>1. m.from \in Int /\ m.from >= -1
      BY <1>3, <1>10 DEF ReceiveSyncRequest, Take, MsgOK
    <2>2. NodeOK(OnSyncRequest(s, m.from))
      BY <1>1, <1>4, <2>1, SyncRequestExtends, IdleExtends
    <2> QED
      BY <1>10, <2>2, HandleOK DEF ReceiveSyncRequest
  <1>11. CASE ReceiveSyncResponse(n, m)
    <2>1. ResponseOK(m.blocks)
      BY <1>3, <1>11 DEF ReceiveSyncResponse, Take, MsgOK
    <2>2. NodeOK(OnSyncResponse(s, m.blocks))
      <3>1. CASE \E i \in DOMAIN m.blocks : m.blocks[i].proposal.height = 0
        <4>1. OnSyncResponse(s, m.blocks) = ReconcileChain(s, m.blocks)
          BY <3>1 DEF OnSyncResponse
        <4> QED
          BY <1>1, <1>4, <2>1, <3>1, <4>1, ReconcileOK, SMTT(30)
      <3>2. CASE ~ \E i \in DOMAIN m.blocks : m.blocks[i].proposal.height = 0
        <4>1. OnSyncResponse(s, m.blocks) = OnCommit(s, Head(m.blocks), Tail(m.blocks))
          BY <3>2 DEF OnSyncResponse
        <4> QED
          BY <1>1, <4>1, OnCommitOK
      <3> QED
        BY <3>1, <3>2
    <2> QED
      BY <1>11, <2>2, HandleOK DEF ReceiveSyncResponse
  <1> QED
    BY <1>2, <1>5, <1>6, <1>7, <1>8, <1>9, <1>10, <1>11, SMTT(30)

\* Every step of a handler that holds the mutex preserves the invariant.
LEMMA ResumedOK ==
  ASSUME IInv, NEW n \in Node, Resumed(n)
  PROVE  IInv'
  <1> DEFINE s == node[n]
  <1>1. NodeOK(s) /\ Core(s)
    BY DEF IInv, NodeOK
  <1>2. DOMAIN net = Node /\ \A k \in Node : \A m \in net[k] : MsgOK(m)
    BY DEF IInv
  <1>3. CASE SuffixStep(n)
    BY <1>1, <1>2, <1>3, OnCommitOK, BecomeOK DEF SuffixStep, Continue
  <1>4. CASE FlushStep(n)
    BY <1>1, <1>2, <1>4, FlushOK, BecomeOK DEF FlushStep, Continue
  <1>5. CASE ApplyStep(n)
    BY <1>1, <1>2, <1>5, ApplyOK, BecomeOK DEF ApplyStep, Continue
  <1>6. CASE RestoreStep(n)
    BY <1>1, <1>2, <1>6, RestoreOK, BecomeOK DEF RestoreStep, Continue
  <1> QED
    BY <1>3, <1>4, <1>5, <1>6 DEF Resumed

\* Claims, timers, the sync interval and restarts preserve the invariant.
LEMMA LocalOK ==
  ASSUME IInv, NEW n \in Node,
         \/ \E id \in ClaimId : MakeClaim(n, id)
         \/ \E c \in node[n].made : SubmitClaim(n, c)
         \/ Tick(n) \/ Propose(n) \/ SyncWindow(n) \/ Restart(n)
  PROVE  IInv'
  <1> DEFINE s == node[n]
  <1>1. NodeOK(s) /\ Core(s)
    BY DEF IInv, NodeOK
  <1>2. DOMAIN net = Node /\ \A k \in Node : \A m \in net[k] : MsgOK(m)
    BY DEF IInv
  <1>3. ASSUME NEW c, SubmitClaim(n, c) PROVE IInv'
    <2> DEFINE r == [s EXCEPT !.made = @ \ {c}]
               queued == [r EXCEPT !.pending = @ \union {c}, !.out = @ \union {ClaimMsg(c)}]
    <2>1. s.lock = Free
      BY <1>3, ZenonT(30) DEF SubmitClaim, Idle
    <2>2. Become(n, net, Submit(r, c))
      BY <1>3, Zenon DEF SubmitClaim
    <2>3. /\ DOMAIN r = Fields /\ r.store = s.store
          /\ r.lock = s.lock /\ r.out = s.out
      BY <1>1 DEF Core, Fields
    <2> HIDE DEF r
    <2>4. /\ DOMAIN queued = Fields /\ queued.store = s.store
          /\ queued.lock = s.lock /\ queued.out = s.out \union {ClaimMsg(c)}
      BY <2>3 DEF Fields
    <2>5. MsgOK(ClaimMsg(c))
      BY DEF MsgOK, ClaimMsg
    <2>6. Submit(r, c) = r \/ Submit(r, c) = queued
      BY DEF Submit
    <2> HIDE DEF queued
    <2>7. NodeOK(r)
      BY <1>1, <2>1, <2>3, SameChain, IdleExtends, SMTT(30)
    <2>8. NodeOK(queued)
      BY <1>1, <2>1, <2>4, <2>5, SameChain, IdleExtends, SMTT(30) DEF Core
    <2>9. NodeOK(Submit(r, c))
      BY <2>6, <2>7, <2>8, Zenon
    <2> QED
      BY <1>2, <2>2, <2>9, BecomeOK, SMTT(30)
  <1>4. CASE Tick(n)
    <2>1. PICK gone, timeout : Become(n, net, OnTick(s, gone, timeout))
      BY <1>4, SMTT(30) DEF Tick
    <2>2. NodeOK(OnTick(s, gone, timeout))
      BY <1>1, <1>4, HeartbeatExtends, IdleExtends, SMTT(30) DEF Tick, Idle
    <2> QED
      BY <1>2, <2>1, <2>2, BecomeOK, SMTT(30)
  <1>5. CASE Propose(n)
    <2>1. NodeOK(ProposeInternal(s))
      BY <1>1, <1>5, ProposeExtends, IdleExtends DEF Propose, Idle
    <2> QED
      BY <1>2, <1>5, <2>1, BecomeOK DEF Propose
  <1>6. CASE SyncWindow(n)
    <2> DEFINE t == [s EXCEPT !.syncOpen = TRUE]
    <2>1. DOMAIN t = Fields /\ t.store = s.store /\ t.lock = s.lock /\ t.out = s.out
      BY <1>1 DEF Core, Fields
    <2>2. node' = [node EXCEPT ![n] = t] /\ net' = net
      BY <1>6, SMTT(30) DEF SyncWindow
    <2> HIDE DEF t
    <2>3. NodeOK(t)
      BY <1>1, <2>1, SMTT(30) DEF NodeOK, Core, LockOK
    <2> QED
      BY <2>2, <2>3 DEF IInv
  <1>7. CASE Restart(n)
    <2> DEFINE t == Boot(n, s.store, s.boots + 1)
    <2>1. NodeOK(t)
      BY <1>1, BootOK DEF Core
    <2>2. node' = [node EXCEPT ![n] = t] /\ net' = net
      BY <1>7 DEF Restart
    <2> HIDE DEF t
    <2> QED
      BY <2>1, <2>2 DEF IInv
  <1>8. ASSUME NEW id, MakeClaim(n, id) PROVE IInv'
    <2> DEFINE c == [id |-> id, node |-> n, seq |-> s.seq + 1, seen |-> Height(s.store)]
               t == [s EXCEPT !.seq = @ + 1, !.made = @ \union {c}]
    <2>1. DOMAIN t = Fields /\ t.store = s.store /\ t.lock = s.lock /\ t.out = s.out
      BY <1>1 DEF Core, Fields
    <2>2. node' = [node EXCEPT ![n] = t] /\ net' = net
      BY <1>8, Zenon DEF MakeClaim
    <2> HIDE DEF t
    <2>3. NodeOK(t)
      BY <1>1, <2>1, SMTT(30) DEF NodeOK, Core, LockOK
    <2> QED
      BY <2>2, <2>3 DEF IInv
  <1> QED
    BY <1>3, <1>4, <1>5, <1>6, <1>7, <1>8

\* Nodes start good, with nothing on its way.
LEMMA InitIInv == Init => IInv
  <1> SUFFICES ASSUME Init PROVE IInv
    OBVIOUS
  <1>1. \A n : NodeOK(Boot(n, EmptyStore, 1))
    BY BootOK
  <1> QED
    BY <1>1 DEF Init, IInv

\* Every step preserves the invariant.
LEMMA NextIInv == IInv /\ [Next]_vars => IInv'
  <1> SUFFICES ASSUME IInv, [Next]_vars PROVE IInv'
    OBVIOUS
  <1>1. CASE UNCHANGED vars
    BY <1>1 DEF vars, IInv
  <1>2. ASSUME NEW n \in Node,
               \/ \E id \in ClaimId : MakeClaim(n, id)
               \/ \E c \in node[n].made : SubmitClaim(n, c)
               \/ Deliver(n) \/ Resumed(n) \/ Tick(n) \/ Propose(n)
               \/ SyncWindow(n) \/ Restart(n)
        PROVE  IInv'
    BY <1>2, DeliverOK, ResumedOK, LocalOK
  <1> QED
    BY <1>1, <1>2 DEF Next

\* Every node's ledger is sound at every transaction boundary: in the middle
\* of a reorg, after an abandoned one and after a crash.  For any number of
\* nodes, any claims, any order of hashes and any lost, repeated or reordered
\* messages (protocol.rs, every caller of append and rollback).
THEOREM LedgersSound == Spec => []ChainsSound
  <1>1. IInv => ChainsSound
    <2> SUFFICES ASSUME IInv, NEW n \in Node
                 PROVE  LET blocks == StoreOf(n).blocks
                        IN  /\ StoreOK(StoreOf(n))
                            /\ blocks # <<>> /\ blocks[1] = GenesisCheckpoint
                            /\ \A i \in 2 .. Len(blocks) :
                                  blocks[i].proposal.epoch > blocks[i - 1].proposal.epoch
      BY DEF ChainsSound
    <2>1. ChainOK(StoreOf(n))
      BY DEF IInv, NodeOK, Core, StoreOf
    <2> HIDE DEF StoreOf
    <2> QED
      BY <2>1, ChainOKEpochs DEF ChainOK
  <1> QED
    BY InitIInv, NextIInv, <1>1, PTL DEF Spec
=============================================================================
