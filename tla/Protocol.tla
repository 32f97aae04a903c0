------------------------------ MODULE Protocol ------------------------------
(***************************************************************************)
(* The consensus protocol: every node's state machine                      *)
(* (src/src/consensus/protocol.rs), its ledger, and the gossip that        *)
(* connects the nodes.                                                     *)
(*                                                                         *)
(* A node is a record: the fields of ProtocolState, the store, and "lock". *)
(* Handlers run under the state mutex and publish what they queued in      *)
(* "out" when they release it.  A handler that writes the store more than  *)
(* once (a suffix of blocks, the queue of early commits, a reorg) is split *)
(* at its transactions: between two of them the mutex is held and "lock"   *)
(* says what is left to do, so a crash can hit there and no other handler  *)
(* of that node can run.                                                   *)
(***************************************************************************)
EXTENDS Validation, FiniteSetsExt

CONSTANTS
    Node,               \* node ids, numbers so that they are ordered
    ClaimId,            \* ids the claims of a behaviour take
    Plausible,          \* Plausible[n]: claims that pass n's FLOPS check
    Byzantine,          \* EXODUS_BYZANTINE
    Window,             \* active_peer_window, in blocks
    RateLimited,        \* sync_request_interval_seconds > 0
    HashLess(_, _),     \* the order of block hashes
    MaxPendingClaims,   \* MAX_PENDING_CLAIMS
    MaxPendingCommits,  \* MAX_PENDING_COMMITS
    MaxCommitRejects,   \* MAX_RECENT_COMMIT_REJECTS
    Redelivery,         \* the network may deliver a message again
    PeersLeave,         \* peers may go stale
    Ticking,            \* the nodes whose timer fires in a behaviour
    TimelySync,         \* a sync round trip is shorter than the interval
    MaxHeight,          \* bound: no proposal above this height
    MaxView,            \* bound: no election timeout from this view on
    MaxBoots            \* bound: starts of each node, the first included

ASSUME NodeAssumption ==
    /\ Node \subseteq Nat \ {0}
    /\ IsFiniteSet(Node)
    /\ ClaimId \subseteq Nat
    /\ Ticking \subseteq Node
    /\ Plausible \in [Node -> SUBSET ClaimId]
    /\ {Byzantine, RateLimited, Redelivery, PeersLeave, TimelySync} \subseteq BOOLEAN
    /\ {Window, MaxPendingClaims, MaxPendingCommits, MaxCommitRejects} \subseteq Nat
    /\ {MaxHeight, MaxView} \subseteq Nat /\ MaxBoots \in Nat \ {0}

VARIABLES
    node,       \* node[n]: the state of node n
    net,        \* net[n]: messages on their way to n
    submitted,  \* history: every claim ever made
    signatures  \* history: [node, proposal] for every share ever signed

vars == <<node, net, submitted, signatures>>

-----------------------------------------------------------------------------
(***************************************************************************)
(* Messages.  Heartbeats and sync requests are dropped by the node that    *)
(* sent them; everything else reaches its sender as well.  Fork alerts are *)
(* left out: receiving one changes nothing but a set that only             *)
(* deduplicates fork alerts.                                               *)
(***************************************************************************)
ClaimMsg(c) == [type |-> "claim", claim |-> c]
ProposalMsg(p) == [type |-> "proposal", proposal |-> p]
ShareMsg(n, p) == [type |-> "share", node |-> n, proposal |-> p]
CommitMsg(b) == [type |-> "commit", block |-> b]
HeartbeatMsg(n, h) == [type |-> "heartbeat", node |-> n, height |-> h]
SyncRequestMsg(n, from) == [type |-> "syncRequest", node |-> n, from |-> from]
SyncResponseMsg(blocks) == [type |-> "syncResponse", blocks |-> blocks]

DroppedBy(n, m) == m.type \in {"heartbeat", "syncRequest"} /\ m.node = n

Publish(nt, ms) == [n \in Node |-> nt[n] \union {m \in ms : ~DroppedBy(n, m)}]

(***************************************************************************)
(* What is left of the handler that holds the mutex.                       *)
(***************************************************************************)
Free == [op |-> "free"]
Suffix(blocks) == IF blocks = <<>> THEN Free ELSE [op |-> "suffix", blocks |-> blocks]
Flush(heights, blocks) == [op |-> "flush", heights |-> heights, blocks |-> blocks]
Apply(anc, saved, blocks) ==
    [op |-> "apply", anc |-> anc, saved |-> saved, blocks |-> blocks]
Restore(blocks) == [op |-> "restore", blocks |-> blocks]

(***************************************************************************)
(* The committee, its sealer and its quorum, as node state s sees them.    *)
(* A claim is worth one compute unit.                                      *)
(***************************************************************************)
CommitteeMembers(s) ==
    LET recent == {s.store.blocks[i] : i \in (Len(s.store.blocks) - Window + 1 .. Len(s.store.blocks))
                                                \intersect DOMAIN s.store.blocks}
    IN  {s.id} \union s.peers
        \union ({b.proposal.sealer : b \in recent} \ {GenesisSealer})
        \union UNION {b.signers : b \in recent}

SealerForView(s, view) ==
    LET C == CommitteeMembers(s)
        Before(a, b) == LET wa == TotalCuForNode(s.store, a)
                            wb == TotalCuForNode(s.store, b)
                        IN  wa > wb \/ (wa = wb /\ a < b)
    IN  CHOOSE m \in C : Cardinality({x \in C : Before(x, m)}) = view % Cardinality(C)

\* Mutant of QuorumSize: one share too many in majority mode.
QuorumSizeTooBig(s) == Cardinality(CommitteeMembers(s)) \div 2 + 2

QuorumSize(s) ==
    LET n == Cardinality(CommitteeMembers(s))
    IN  IF Byzantine THEN 2 * ((n - 1) \div 3) + 1 ELSE n \div 2 + 1

IsSealer(s) == SealerForView(s, s.view) = s.id

-----------------------------------------------------------------------------
(***************************************************************************)
(* Internal methods of ProtocolState, as functions on the node's state.    *)
(***************************************************************************)
RequestSync(s, from) ==
    IF RateLimited /\ ~s.syncOpen
    THEN s
    ELSE [s EXCEPT !.syncOpen = ~RateLimited,
                   !.out = @ \union {SyncRequestMsg(s.id, from)}]

\* A proposal is held: its claims leave the queue and count as proposed.
HoldProposal(s, p) ==
    [s EXCEPT !.proposals = @ \union {p},
              !.proposed = @ \union ClaimIds(p),
              !.pending = {c \in @ : c.id \notin ClaimIds(p)}]

AddOwnSignature(s, p) ==
    [s EXCEPT !.shares = @ \union {[node |-> s.id, proposal |-> p]},
              !.signed = @ \union {p},
              !.out = @ \union {ShareMsg(s.id, p)}]

\* Mutant of AdvanceView: committing leaves the view alone.
AdvanceViewNever(view, epoch) == view

AdvanceView(view, epoch) == IF epoch + 1 > view THEN epoch + 1 ELSE view

CommitLocal(s, b) ==
    LET p == b.proposal
        settled == [s EXCEPT !.pending = {c \in @ : c.id \notin ClaimIds(p)},
                             !.proposed = @ \ ClaimIds(p)]
    IN  IF p.height <= Height(s.store) THEN s
        ELSE IF Appendable(s.store, b) THEN
            [settled EXCEPT
                !.store = AppendBlock(@, b),
                !.committed = @ \union ClaimIds(p),
                !.proposals = @ \ {p},
                !.shares = {x \in @ : x.proposal # p},
                !.view = AdvanceView(@, p.epoch),
                !.out = @ \union {CommitMsg(b)}]
        ELSE IF IsAlreadyCommitted(s.store, b) THEN
            [settled EXCEPT
                !.committed = @ \union (ClaimIds(p) \intersect AllCommittedClaimIds(s.store))]
        ELSE RequestSync(s, p.height - 1)

Signers(s, p) == {x.node : x \in {y \in s.shares : y.proposal = p}}

\* Mutant of SealedBlock: the quorum is not recorded.
SealedBlockUnfrozen(s, p) == [proposal |-> p, signers |-> Signers(s, p), quorum |-> 0]

\* The block maybe_commit makes of a proposal, with the quorum of this moment.
SealedBlock(s, p) == [proposal |-> p, signers |-> Signers(s, p), quorum |-> QuorumSize(s)]

MaybeCommit(s, p) ==
    LET b == SealedBlock(s, p)
    IN  IF /\ Cardinality(b.signers) >= QuorumSize(s)
           /\ ValidateCheckpoint(b, s.store, s.committed, Plausible[s.id])
        THEN CommitLocal(s, b)
        ELSE s

NoteCommitReject(s, b) ==
    LET ring == Append(s.rejects, BlockHash(b))
    IN  [s EXCEPT !.rejects = IF Len(ring) > MaxCommitRejects THEN Tail(ring) ELSE ring]

CommitRejectSeen(s, b) == \E i \in DOMAIN s.rejects : s.rejects[i] = BlockHash(b)

\* Mutant of InsertPendingCommit: the queue has no cap.
InsertPendingCommitUnbounded(s, b) ==
    [s EXCEPT !.waiting = {x \in @ : x.proposal.height # b.proposal.height} \union {b}]

\* One early commit per height; a full queue drops its lowest height.
InsertPendingCommit(s, b) ==
    LET q == {x \in s.waiting : x.proposal.height # b.proposal.height} \union {b}
        lowest == {x \in q : \A y \in q : x.proposal.height <= y.proposal.height}
    IN  [s EXCEPT !.waiting = IF Cardinality(q) > MaxPendingCommits THEN q \ lowest ELSE q]

\* The loops of flush_pending_commits and on_sync_response: go on with the
\* early commit that comes next, if any of "heights" is, else with "blocks".
Resume(s, heights, blocks) ==
    [s EXCEPT !.lock = IF Height(s.store) + 1 \in heights
                       THEN Flush(heights, blocks) ELSE Suffix(blocks)]

-----------------------------------------------------------------------------
(***************************************************************************)
(* Message handlers.                                                       *)
(***************************************************************************)
KnownClaim(s, c) ==
    \/ c.id \in s.committed \union s.proposed
    \/ \E d \in s.pending : d.id = c.id

\* The claim queues on_claims may leave: the queue is a hash map, so one over
\* its cap drops any of its claims, the new one included.
OnClaims(s, c) ==
    LET q == s.pending \union {c}
    IN  IF KnownClaim(s, c) THEN {s.pending}
        ELSE IF Cardinality(q) > MaxPendingClaims
             THEN {k \in SUBSET q : Cardinality(k) = MaxPendingClaims}
        ELSE {q}

AcceptsProposal(s, p) ==
    /\ p \notin s.proposals \union s.signed
    /\ p.height > Height(s.store)
    /\ p.sealer = SealerForView(s, p.epoch)
    /\ ValidateProposal(p, s.store, s.committed, Plausible[s.id])

OnProposal(s, p) ==
    LET held == AddOwnSignature(HoldProposal(s, p), p)
    IN  IF ~AcceptsProposal(s, p) THEN s
        ELSE IF IsSealer(held) THEN MaybeCommit(held, p)
        ELSE held

\* Any node that completes the quorum commits, sealer or not.
OnSignature(s, n, p) ==
    IF p \in s.proposals
    THEN MaybeCommit([s EXCEPT !.shares = @ \union {[node |-> n, proposal |-> p]}], p)
    ELSE s

(***************************************************************************)
(* on_commit, for a block that arrives alone or as the first of a suffix   *)
(* of which "rest" is left.  A head always exists: every store starts with *)
(* the genesis block.                                                      *)
(***************************************************************************)
OnCommit(s, b, rest) ==
    LET h == b.proposal.height
        head == Height(s.store)
        Return(t) == [t EXCEPT !.lock = Suffix(rest)]
    IN  IF h <= head THEN
            Return(IF h = head /\ HashLess(BlockHash(b), HeadHash(s.store))
                   THEN RequestSync(s, -1) ELSE s)
        ELSE IF h > head + 1 THEN Return(RequestSync(InsertPendingCommit(s, b), head))
        ELSE IF b.proposal.prev # HeadHash(s.store) THEN Return(RequestSync(s, -1))
        ELSE IF CommitRejectSeen(s, b) THEN Return(s)
        ELSE IF ~ValidateCheckpoint(b, s.store, s.committed, Plausible[s.id])
             THEN Return(NoteCommitReject(s, b))
        ELSE LET t == CommitLocal([s EXCEPT !.committed = @ \union ClaimIds(b.proposal)], b)
             IN  Resume(t, {x.proposal.height : x \in t.waiting}, rest)

\* One turn of the loop of flush_pending_commits.
FlushPendingCommit(s) ==
    LET h == Height(s.store) + 1
        b == CHOOSE x \in s.waiting : x.proposal.height = h
        taken == [s EXCEPT !.waiting = @ \ {b}]
        t == IF ValidateCheckpoint(b, s.store, {}, Plausible[s.id])
             THEN CommitLocal(taken, b) ELSE taken
    IN  Resume(t, {k \in s.lock.heights : k > h}, s.lock.blocks)

OnHeartbeat(s, n, height) ==
    LET t == [s EXCEPT !.peers = @ \union {n}]
    IN  IF height > Height(s.store) THEN RequestSync(t, Height(s.store)) ELSE t

\* Mutant of OnSyncRequest: the first block asked for is left out.
OnSyncRequestSkips(s, from) ==
    LET blocks == SubSeq(s.store.blocks, from + 3, Len(s.store.blocks))
    IN  IF blocks = <<>> THEN s
        ELSE [s EXCEPT !.out = @ \union {SyncResponseMsg(blocks)}]

OnSyncRequest(s, from) ==
    LET blocks == SubSeq(s.store.blocks, from + 2, Len(s.store.blocks))
    IN  IF blocks = <<>> THEN s
        ELSE [s EXCEPT !.out = @ \union {SyncResponseMsg(blocks)}]

(***************************************************************************)
(* reconcile_chain, cut at its transactions.  A full response is one       *)
(* node's chain in height order.                                           *)
(***************************************************************************)
Tip(blocks) == blocks[Len(blocks)]

\* Mutants of Preferred: every other chain of the same length is adopted; a
\* chain has to be two blocks longer.
PreferredOnTie(st, blocks) ==
    Tip(blocks).proposal.height >= Height(st) /\ BlockHash(Tip(blocks)) # HeadHash(st)
PreferredLate(st, blocks) == Tip(blocks).proposal.height > Height(st) + 1

Preferred(st, blocks) ==
    LET h == Tip(blocks).proposal.height
    IN  \/ h > Height(st)
        \/ h = Height(st) /\ HashLess(BlockHash(Tip(blocks)), HeadHash(st))

CommonAncestor(st, blocks) ==
    Max({-1} \union
        {h \in 0 .. Height(st) :
            \E i \in DOMAIN blocks : /\ blocks[i].proposal.height = h
                                     /\ BlockHash(blocks[i]) = BlockHash(GetBlock(st, h))})

\* The blocks are in height order, so those up to h come first.
Above(blocks, h) ==
    LET upTo == {i \in DOMAIN blocks : blocks[i].proposal.height <= h}
    IN  SubSeq(blocks, Cardinality(upTo) + 1, Len(blocks))

Contiguous(st, anc, blocks) ==
    \A i \in DOMAIN blocks :
        /\ blocks[i].proposal.height = anc + i
        /\ blocks[i].proposal.prev =
              IF i > 1 THEN BlockHash(blocks[i - 1])
              ELSE IF HasBlock(st, anc) THEN BlockHash(GetBlock(st, anc))
              ELSE GenesisPrevHash

\* Compare, find the ancestor, check contiguity, snapshot and roll back.
ReconcileChain(s, blocks) ==
    LET anc == CommonAncestor(s.store, blocks)
        incoming == Above(blocks, anc)
    IN  IF Preferred(s.store, blocks) /\ Contiguous(s.store, anc, incoming)
        THEN [s EXCEPT !.store = Rollback(@, anc),
                       !.waiting = IF anc < Height(s.store)
                                   THEN {b \in @ : b.proposal.height <= anc} ELSE @,
                       !.lock = Apply(anc, SubSeq(s.store.blocks, anc + 2, Len(s.store.blocks)),
                                        incoming)]
        ELSE s

\* Mutant of ReorgDone: the committed set is not rebuilt.
ReorgDoneStale(s) == [s EXCEPT !.lock = Free]

\* The mutex is released with the committed set rebuilt from the store.
ReorgDone(s) ==
    [s EXCEPT !.committed = AllCommittedClaimIds(s.store), !.lock = Free]

\* One turn of the re-apply loop.  A block that fails makes the node roll
\* back to the ancestor and put the saved blocks back.  (What the first
\* restore loop appends is above the ancestor and goes in that rollback.)
ApplyBlock(s) ==
    LET b == Head(s.lock.blocks)
        t == CommitLocal(s, b)
        undone == [s EXCEPT !.store = Rollback(@, s.lock.anc), !.lock = Restore(s.lock.saved)]
    IN  IF ValidateCheckpoint(b, s.store, {}, Plausible[s.id]) THEN
            IF Len(s.lock.blocks) = 1 THEN ReorgDone(t)
            ELSE [t EXCEPT !.lock = Apply(s.lock.anc, s.lock.saved, Tail(s.lock.blocks))]
        ELSE IF s.lock.saved = <<>> THEN ReorgDone(undone)
        ELSE undone

\* One turn of the restore loop: a refused append is ignored.
RestoreBlock(s) ==
    LET b == Head(s.lock.blocks)
        t == IF Appendable(s.store, b) THEN [s EXCEPT !.store = AppendBlock(@, b)] ELSE s
    IN  IF Len(s.lock.blocks) = 1 THEN ReorgDone(t)
        ELSE [t EXCEPT !.lock = Restore(Tail(s.lock.blocks))]

OnSyncResponse(s, blocks) ==
    IF \E i \in DOMAIN blocks : blocks[i].proposal.height = 0
    THEN ReconcileChain(s, blocks)
    ELSE OnCommit(s, Head(blocks), Tail(blocks))

-----------------------------------------------------------------------------
(***************************************************************************)
(* Timers.                                                                 *)
(***************************************************************************)

\* tick: prune the peers that went stale, move to the next view if the
\* election timeout has passed, and always announce the head.
OnTick(s, gone, timeout) ==
    [s EXCEPT !.peers = @ \ gone,
              !.view = IF timeout THEN @ + 1 ELSE @,
              !.out = @ \union {HeartbeatMsg(s.id, Height(s.store))}]

\* created_at has a resolution of one second; it is modelled by the number
\* of times the node was started, the least that tells two proposals of one
\* node for the same content apart.
DraftProposal(s) ==
    [height |-> Height(s.store) + 1, epoch |-> s.view, prev |-> HeadHash(s.store),
     sealer |-> s.id, at |-> s.boots,
     claims |-> {c \in s.pending : c.id \notin s.committed \union s.proposed}]

CanPropose(s) ==
    /\ IsSealer(s)
    /\ \A p \in s.proposals : p.height # Height(s.store) + 1
    /\ ValidateProposal(DraftProposal(s), s.store, {}, Plausible[s.id])

ProposeInternal(s) ==
    LET p == DraftProposal(s)
        t == AddOwnSignature(HoldProposal(s, p), p)
    IN  MaybeCommit([t EXCEPT !.out = @ \union {ProposalMsg(p)}], p)

(***************************************************************************)
(* A node as new and ensure_genesis make it from the store they find.      *)
(***************************************************************************)
EnsureGenesis(st) ==
    IF st.blocks = <<>> /\ Appendable(st, GenesisCheckpoint)
    THEN AppendBlock(st, GenesisCheckpoint) ELSE st

Boot(n, found, boots) ==
    LET st == EnsureGenesis(found) IN
    [id |-> n, store |-> st, pending |-> {}, committed |-> AllCommittedClaimIds(st),
     proposed |-> {}, proposals |-> {}, shares |-> {}, signed |-> {},
     view |-> HeadBlock(st).proposal.epoch + 1, peers |-> {}, waiting |-> {},
     rejects |-> <<>>, syncOpen |-> TRUE, out |-> {}, seq |-> 0, made |-> {},
     boots |-> boots, lock |-> Free]

-----------------------------------------------------------------------------
(***************************************************************************)
(* Actions.                                                                *)
(***************************************************************************)

\* Node n goes on in state s, and publishes what it queued if the mutex is free.
Become(n, nt, s) ==
    /\ node' = [node EXCEPT ![n] = IF s.lock = Free THEN [s EXCEPT !.out = {}] ELSE s]
    /\ net' = IF s.lock = Free THEN Publish(nt, s.out) ELSE nt
    /\ signatures' = signatures \union {[node |-> n, proposal |-> p] : p \in s.signed}

Idle(n) == node[n].lock = Free

Take(n, m, type) == Idle(n) /\ m \in net[n] /\ m.type = type

Consumed(n, m) == IF Redelivery THEN net ELSE [net EXCEPT ![n] = @ \ {m}]

Handle(n, m, s) == Become(n, Consumed(n, m), s) /\ UNCHANGED submitted

\* submit_contribution numbers a claim and reads the height without the mutex,
\* so a handler may be halfway through a reorg.
MakeClaim(n, id) ==
    LET s == node[n]
        c == [id |-> id, node |-> n, seq |-> s.seq + 1, seen |-> Height(s.store)]
    IN  /\ \A d \in submitted : d.id # id
        /\ submitted' = submitted \union {c}
        /\ node' = [node EXCEPT ![n] = [s EXCEPT !.seq = @ + 1, !.made = @ \union {c}]]
        /\ UNCHANGED <<net, signatures>>

\* submit_claim.  A claim the node itself finds implausible is refused; its
\* sequence number is used up.
Submit(s, c) ==
    IF c.id \notin Plausible[s.id] \/ c \in s.pending \/ c.id \in s.committed
    THEN s
    ELSE [s EXCEPT !.pending = @ \union {c}, !.out = @ \union {ClaimMsg(c)}]

SubmitClaim(n, c) ==
    /\ Idle(n)
    /\ Become(n, net, Submit([node[n] EXCEPT !.made = @ \ {c}], c))
    /\ UNCHANGED submitted

ReceiveClaim(n, m) ==
    /\ Take(n, m, "claim")
    /\ \E q \in OnClaims(node[n], m.claim) : Handle(n, m, [node[n] EXCEPT !.pending = q])

ReceiveProposal(n, m) ==
    Take(n, m, "proposal") /\ Handle(n, m, OnProposal(node[n], m.proposal))

ReceiveShare(n, m) ==
    Take(n, m, "share") /\ Handle(n, m, OnSignature(node[n], m.node, m.proposal))

ReceiveCommit(n, m) ==
    Take(n, m, "commit") /\ Handle(n, m, OnCommit(node[n], m.block, <<>>))

ReceiveHeartbeat(n, m) ==
    Take(n, m, "heartbeat") /\ Handle(n, m, OnHeartbeat(node[n], m.node, m.height))

ReceiveSyncRequest(n, m) ==
    Take(n, m, "syncRequest") /\ Handle(n, m, OnSyncRequest(node[n], m.from))

ReceiveSyncResponse(n, m) ==
    Take(n, m, "syncResponse") /\ Handle(n, m, OnSyncResponse(node[n], m.blocks))

\* The steps of a handler that still holds the mutex.
Continue(n, op, s) ==
    node[n].lock.op = op /\ Become(n, net, s) /\ UNCHANGED submitted

SuffixStep(n) ==
    Continue(n, "suffix", OnCommit(node[n], Head(node[n].lock.blocks), Tail(node[n].lock.blocks)))

FlushStep(n) == Continue(n, "flush", FlushPendingCommit(node[n]))

ApplyStep(n) == Continue(n, "apply", ApplyBlock(node[n]))

RestoreStep(n) == Continue(n, "restore", RestoreBlock(node[n]))

\* A step of the run loop.  Whether peers are stale and whether the election
\* timeout has passed depends on the clock.
Tick(n) ==
    /\ Idle(n)
    /\ n \in Ticking
    /\ \E gone \in IF PeersLeave THEN SUBSET node[n].peers ELSE {{}},
          timeout \in {FALSE, node[n].view < MaxView} :
             Become(n, net, OnTick(node[n], gone, timeout))
    /\ UNCHANGED submitted

\* propose_now, which the run loop calls, and tick when it takes over a view.
Propose(n) ==
    /\ Idle(n)
    /\ Height(node[n].store) < MaxHeight
    /\ CanPropose(node[n])
    /\ Become(n, net, ProposeInternal(node[n]))
    /\ UNCHANGED submitted

\* sync_request_interval_seconds have passed since n's last sync request.
SyncWindow(n) ==
    /\ ~node[n].syncOpen
    /\ TimelySync => \A k \in Node : \A m \in net[k] :
                        /\ m.type = "syncRequest" => m.node # n
                        /\ m.type = "syncResponse" => k # n
    /\ node' = [node EXCEPT ![n].syncOpen = TRUE]
    /\ UNCHANGED <<net, submitted, signatures>>

\* The process dies, between two transactions if it is in a handler, and is
\* started again on the store it left.
Restart(n) ==
    /\ node[n].boots < MaxBoots
    /\ node' = [node EXCEPT ![n] = Boot(n, node[n].store, node[n].boots + 1)]
    /\ UNCHANGED <<net, submitted, signatures>>

Init ==
    /\ node = [n \in Node |-> Boot(n, EmptyStore, 1)]
    /\ net = [n \in Node |-> {}]
    /\ submitted = {}
    /\ signatures = {}

Deliver(n) ==
    \E m \in net[n] :
        \/ ReceiveClaim(n, m)
        \/ ReceiveProposal(n, m)
        \/ ReceiveShare(n, m)
        \/ ReceiveCommit(n, m)
        \/ ReceiveHeartbeat(n, m)
        \/ ReceiveSyncRequest(n, m)
        \/ ReceiveSyncResponse(n, m)

Resumed(n) == SuffixStep(n) \/ FlushStep(n) \/ ApplyStep(n) \/ RestoreStep(n)

Next ==
    \E n \in Node :
        \/ \E id \in ClaimId : MakeClaim(n, id)
        \/ \E c \in node[n].made : SubmitClaim(n, c)
        \/ Deliver(n)
        \/ Resumed(n)
        \/ Tick(n)
        \/ Propose(n)
        \/ SyncWindow(n)
        \/ Restart(n)

Spec == Init /\ [][Next]_vars

-----------------------------------------------------------------------------
(***************************************************************************)
(* Properties.                                                             *)
(***************************************************************************)
StoreOf(n) == node[n].store

\* The state has its shape, the queues fed by the network keep their caps
\* (the queue of early commits has one block per height and never more than
\* MAX_PENDING_COMMITS), claims come from their authors, and nothing is left
\* unpublished while the mutex is free.
TypeOK ==
    \A n \in Node :
        LET s == node[n]
        IN  /\ s.id = n
            /\ s.made \union s.pending \subseteq submitted
            /\ \A p \in s.proposals \union s.signed : p.claims \subseteq submitted /\ p.height >= 1
            /\ s.peers \subseteq Node \ {n}
            /\ s.view \in Nat /\ s.seq \in Nat /\ s.boots \in 1 .. MaxBoots
            /\ s.committed \union s.proposed \subseteq ClaimId
            /\ {x.node : x \in s.shares} \subseteq Node
            /\ Cardinality(s.waiting) <= MaxPendingCommits
            /\ Cardinality({b.proposal.height : b \in s.waiting}) = Cardinality(s.waiting)
            /\ Len(s.rejects) <= MaxCommitRejects
            /\ s.lock.op \in {"free", "suffix", "flush", "apply", "restore"}
            /\ s.lock = Free => s.out = {}

\* Every node's ledger passes verify_chain, starts at the canonical genesis
\* block, has strictly growing epochs, and has a claims table that agrees
\* with its blocks, at every transaction boundary: in the middle of a reorg,
\* after one that was abandoned, and after a crash between two transactions
\* (ledger.rs append and rollback as protocol.rs calls them).
ChainsSound ==
    \A n \in Node :
        LET blocks == StoreOf(n).blocks
        IN  /\ StoreOK(StoreOf(n))
            /\ blocks # <<>> /\ blocks[1] = GenesisCheckpoint
            /\ \A i \in 2 .. Len(blocks) : blocks[i].proposal.epoch > blocks[i - 1].proposal.epoch

\* The in-memory committed set is the set of claims of the ledger whenever
\* the mutex is free.  on_commit adds a block's claims before commit_local
\* has tried to append it, and reorgs rebuild the set only at their end; a
\* claim counted as committed that the ledger lacks would never be sealed.
CommittedMatchesStore ==
    \A n \in Node : Idle(n) => node[n].committed = AllCommittedClaimIds(StoreOf(n))

\* Every block of every ledger was signed by at least as many nodes as the
\* quorum frozen in it says, and each of them really signed that proposal
\* (maybe_commit, validate_checkpoint).
QuorumBacked ==
    \A n \in Node : \A i \in 2 .. Len(StoreOf(n).blocks) :
        LET b == StoreOf(n).blocks[i]
        IN  /\ b.quorum >= 1 /\ Cardinality(b.signers) >= b.quorum
            /\ \A k \in b.signers : [node |-> k, proposal |-> b.proposal] \in signatures

\* A node never emits a second proposal for a height within one run of its
\* process: the rule stated at the outstanding-proposal check of
\* propose_internal.  A reorg that fails on a claim this node rejects breaks
\* it: commit_local has already removed the outstanding proposal.
NoSiblingProposals ==
    \A x, y \in signatures :
        (/\ x.proposal.sealer = y.proposal.sealer
         /\ x.proposal.height = y.proposal.height
         /\ x.proposal.at = y.proposal.at) => x.proposal = y.proposal

\* The view of a node is beyond the epoch of its head block, so that what it
\* proposes passes the epoch check (commit_local, ensure_genesis).
ViewAheadOfHead ==
    \A n \in Node : node[n].view > HeadBlock(StoreOf(n)).proposal.epoch

(***************************************************************************)
(* The chain node state s stands for: in the middle of a reorg the one the *)
(* node would restore.                                                     *)
(***************************************************************************)
LogicalChain(s) ==
    IF s.lock.op = "apply" THEN SubSeq(s.store.blocks, 1, s.lock.anc + 1) \o s.lock.saved
    ELSE IF s.lock.op = "restore" THEN s.store.blocks \o s.lock.blocks
    ELSE s.store.blocks

Choice == INSTANCE ForkChoice WITH
    chain <- [n \in Node |-> LogicalChain(node[n])],
    boots <- [n \in Node |-> node[n].boots]

\* A node that does not crash only ever moves to a better chain: longer, or as
\* long with a smaller head hash; one that does still has a chain.  A reorg
\* that fails partway leaves the chain it started from, and one that succeeds
\* is a single change, although the code rolls back first and validates block
\* by block (reconcile_chain, commit_local).
ImplementsForkChoice == Choice!Spec

\* The quorum of a block is "computed once at sealing time, recorded in the
\* proposal, and every signature share and the final block reference that
\* frozen number" (DESIGN.md, Frozen quorum): two blocks made of one proposal
\* have the same quorum.
QuorumFrozen ==
    \A n, k \in Node : \A i \in DOMAIN StoreOf(n).blocks, j \in DOMAIN StoreOf(k).blocks :
        LET b == StoreOf(n).blocks[i]
            c == StoreOf(k).blocks[j]
        IN  b.proposal = c.proposal => b.quorum = c.quorum

\* A proposal a node has signed for its next height can be appended: "a
\* proposal is only signed by a validator if it passes every check here.
\* Rules are deliberately strict about *double claims* and *replay*"
\* (validation.rs, head comment).
SignedIsAppendable ==
    \A n \in Node : \A p \in node[n].proposals :
        p.prev = HeadHash(StoreOf(n)) =>
            \A c \in p.claims, r \in StoreOf(n).claims : ~Clash(r.claim, c)

-----------------------------------------------------------------------------
(***************************************************************************)
(* Liveness.  The transport delivers what it was given while connections   *)
(* stay up, the run loop ticks and proposes forever, a handler that holds  *)
(* the mutex goes on, and intervals pass.                                  *)
(***************************************************************************)
Fairness ==
    \A n \in Node :
        /\ WF_vars(\E m \in net[n] : \/ ReceiveClaim(n, m) \/ ReceiveProposal(n, m)
                                     \/ ReceiveShare(n, m) \/ ReceiveCommit(n, m))
        /\ \A k \in Node \ {n} : WF_vars(\E m \in net[n] : ReceiveHeartbeat(n, m) /\ m.node = k)
        /\ \A h \in 0 .. MaxHeight :
              /\ WF_vars(\E m \in net[n] : ReceiveSyncRequest(n, m) /\ m.from + 1 = h)
              /\ WF_vars(\E m \in net[n] : ReceiveSyncResponse(n, m)
                                           /\ m.blocks[1].proposal.height = h)
        /\ WF_vars(\E c \in node[n].made : SubmitClaim(n, c))
        /\ WF_vars(Resumed(n))
        /\ WF_vars(Tick(n))
        /\ WF_vars(Propose(n))
        /\ WF_vars(SyncWindow(n))

\* Nodes that agree on the head agree on the whole chain and the credits in it.
Converged == \A n, k \in Node : HeadHash(StoreOf(n)) = HeadHash(StoreOf(k))

\* Ledgers that went apart while the network was split end up the same and
\* stay so: the longer branch is fetched and adopted (the comment on the
\* different-parent branch of on_commit: "so reconcile_chain can roll us back
\* to the common ancestor and adopt it, instead of rejecting forever").
Healing == <>[]Converged

\* Claim c, if it is ever made, is at last in the ledger of every node, and stays
\* there: gossip, sealing, share collection and commit (or the reorg to a twin
\* of the block) all complete.
Sealed(c) ==
    <>[](c \in submitted => \A n \in Node : \E r \in StoreOf(n).claims : r.claim = c)
=============================================================================
