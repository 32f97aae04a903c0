----------------------------- MODULE MCProtocol -----------------------------
(* Protocol with an order of hashes that TLC can evaluate.  SHA-256 orders  *)
(* blocks arbitrarily; this order compares contents, newest block first.    *)
EXTENDS Protocol, TLC

Mask(S) == SumSet({2 ^ x : x \in S})

\* The numbers a block hash is compared by, before its parent's.
Digits(h) ==
    LET p == h[1]
    IN  <<p[4], p[6], p[2], Mask({c.id : c \in p[5]}), Mask(h[2])>>

RECURSIVE MCHashLess(_, _)
MCHashLess(a, b) ==
    IF a = b THEN FALSE
    ELSE LET x == Digits(a)
             y == Digits(b)
             differ == {i \in DOMAIN x : x[i] # y[i]}
         IN  IF differ = {} THEN MCHashLess(a[1][3], b[1][3])
             ELSE x[Min(differ)] < y[Min(differ)]

\* Node 1 runs with a smaller FLOPS tolerance and rejects claim 3.
OnePicky == [n \in Node |-> IF n = 1 THEN ClaimId \ {3} ELSE ClaimId]

AllPlausible == [n \in Node |-> ClaimId]

(***************************************************************************)
(* A network that was split: each node sealed blocks on its own, with the  *)
(* protocol's own operations, and nothing it published has arrived.        *)
(***************************************************************************)
SealAlone(s, id) ==
    LET c == [id |-> id, node |-> s.id, seq |-> s.seq + 1, seen |-> Height(s.store)]
    IN  [ProposeInternal([s EXCEPT !.pending = {c}, !.seq = @ + 1]) EXCEPT !.out = {}]

ClaimsOf(st) == {r.claim : r \in st.claims}

\* Node n starts as start[n]; the blocks of "late" are still on their way and
\* the claims of "lost" were forgotten in crashes.
InitFrom(start, late, lost) ==
    /\ node = start
    /\ net = [n \in Node |-> {CommitMsg(b) : b \in late}]
    /\ submitted = lost \union UNION {ClaimsOf(start[n].store) : n \in Node}
    /\ signatures = UNION {{[node |-> n, proposal |-> p] : p \in start[n].signed} : n \in Node}

Fresh(n) == Boot(n, EmptyStore, 1)

\* Node 1 is one block away from genesis, node 2 two other blocks.
Forked(boots) ==
    (1 :> SealAlone(Boot(1, EmptyStore, boots), 1)) @@
    (2 :> SealAlone(SealAlone(Boot(2, EmptyStore, boots), 2), 3))

BlocksOf(s) == {s.store.blocks[i] : i \in 2 .. Len(s.store.blocks)}

\* What node 2 published was lost with the connections.
SplitInit == InitFrom(Forked(1), {}, {})

SplitFairSpec == SplitInit /\ [][Next]_vars /\ Fairness

\* Every node has heard every other one.
Connected(start) == [n \in Node |-> [start[n] EXCEPT !.peers = Node \ {n}]]

\* Two claims that are not sealed yet, and claims that crashes made forgotten.
First == [id |-> 1, node |-> 2, seq |-> 1, seen |-> 0]
Second == [id |-> 3, node |-> 2, seq |-> 2, seen |-> 0]
Forgotten(ids) == {[id |-> id, node |-> 1, seq |-> id, seen |-> 0] : id \in ids}

\* Three ways to start.  The nodes are on different branches, the longer one is
\* on its way, and either they do not crash and can make claim 4, or they may
\* crash.  Or they know each other, hold a claim, one has made another that the
\* other rejects, and their views change.
ForkedInit ==
    \/ InitFrom(Forked(MaxBoots), BlocksOf(Forked(MaxBoots)[2]), {})
    \/ InitFrom(Forked(MaxBoots - 1), BlocksOf(Forked(MaxBoots - 1)[2]), Forgotten({4}))
    \/ LET start == [n \in Node |-> [Boot(n, EmptyStore, MaxBoots) EXCEPT
                        !.pending = {First}, !.made = {c \in {Second} : c.node = n},
                        !.seq = IF n = 2 THEN 2 ELSE 0]]
       IN  InitFrom(Connected(start), {}, {First, Second} \union Forgotten({2, 4}))

ForkedSpec == ForkedInit /\ [][Next]_vars

\* A network that was split, or nodes that know each other and start from
\* genesis, with a claim to seal; nobody crashes any more.
MeetingInit ==
    \/ InitFrom(Forked(MaxBoots), {}, {})
    \/ LET start == [n \in Node |-> Boot(n, EmptyStore, MaxBoots)]
       IN  InitFrom(Connected([start EXCEPT ![2].made = {First}, ![2].seq = 1]), {},
                    {First} \union Forgotten({2, 3}))

MeetingFairSpec == MeetingInit /\ [][Next]_vars /\ Fairness

\* The claim of a connected network is sealed by all its nodes (submit_claim,
\* propose_internal, on_signature_share and commit_local together).
ClaimsSealed == Sealed(First)

\* Connected nodes that all hold a claim of node 2.
QueuedInit ==
    LET c == [id |-> 1, node |-> 2, seq |-> 1, seen |-> 0]
        start == [n \in Node |-> [Fresh(n) EXCEPT !.pending = {c}, !.seq = IF n = 2 THEN 1 ELSE 0]]
    IN  /\ node = Connected(start)
        /\ net = [n \in Node |-> {}]
        /\ submitted = {c}
        /\ signatures = {}

QueuedSpec == QueuedInit /\ [][Next]_vars

(***************************************************************************)
(* Node 1 has proposed a block with node 2's signature outstanding.  Node  *)
(* 2 signed it, completed the quorum, lost sight of node 1 and sealed a    *)
(* claim that node 1 rejects on top.  Node 3 sealed a block of its own and *)
(* asks node 2 for its chain.                                              *)
(***************************************************************************)
Outrun ==
    LET c == [id |-> 1, node |-> 1, seq |-> 1, seen |-> 0]
        ready == [Fresh(1) EXCEPT !.pending = {c}, !.seq = 1, !.view = 2, !.peers = {2}]
        signer == OnSignature(OnProposal([Fresh(2) EXCEPT !.peers = {1}], DraftProposal(ready)),
                              1, DraftProposal(ready))
    IN  (1 :> [ProposeInternal(ready) EXCEPT !.out = {}]) @@
        (2 :> SealAlone([signer EXCEPT !.peers = {}, !.out = {}], 3)) @@
        (3 :> SealAlone(Fresh(3), 2))

OutrunInit ==
    /\ node = Outrun
    /\ net = [n \in Node |-> IF n = 2 THEN {SyncRequestMsg(3, -1)} ELSE {}]
    /\ submitted = UNION {ClaimsOf(Outrun[n].store) : n \in Node}
    /\ signatures = UNION {{[node |-> n, proposal |-> p] : p \in Outrun[n].signed} : n \in Node}

OutrunSpec == OutrunInit /\ [][Next]_vars

\* Node 1 is new; node 2 has sealed three blocks, the commits of the last two
\* are on their way.
Lagging ==
    (1 :> Fresh(1)) @@ (2 :> SealAlone(SealAlone(SealAlone(Fresh(2), 1), 2), 3))

LaggingInit ==
    InitFrom(Lagging, {Lagging[2].store.blocks[i] : i \in 3 .. Len(Lagging[2].store.blocks)}, {})

LaggingFairSpec == LaggingInit /\ [][Next]_vars /\ Fairness
=============================================================================
