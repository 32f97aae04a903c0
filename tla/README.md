# Exodus in TLA+

Exodus is a peer-to-peer ledger of inference work. Nodes turn the inference they
run into signed *claims*, gossip them, seal them into blocks by collecting
signature shares, and keep the blocks in a local SQLite ledger. Users chat with a
node, which asks its own model runtime and those of its peers. This directory
holds TLA+ specifications of the ledger, the validation rules, the consensus
protocol, the TCP gossip below it, and of the chat, model file and event handlers
above it; the TLC models that check them; and TLAPS proofs.

## The system and its parts

| Part | Source | Here |
| --- | --- | --- |
| Ledger: two SQLite tables, append and rollback | `src/src/ledger.rs` | `ChainStore`, `Ledger` |
| Validation of proposals and blocks | `src/src/consensus/validation.rs` | `Validation` |
| Consensus: claims, proposals, shares, commits, sync, reorg, timers | `src/src/consensus/protocol.rs` | `Protocol`, `ForkChoice` |
| Data model, hashes, messages | `src/src/models.rs` | `ChainStore`, `Protocol` |
| Coordinator: claims, subscriptions, run loop | `src/src/coordinator.rs` | `Protocol` |
| Gossip over TCP: connections, relaying, duplicates | `src/src/network/tcp.rs` | `Gossip`, `Broadcast` |
| Model runtimes: llama-server, llama-cli | `src/src/llama_server.rs`, `inference.rs` | `Runtime` |
| Chat and the inference fan-out | `src/src/api.rs`, `coordinator.rs` | `Inference` |
| Model uploads and deletes | `src/src/api.rs` | `ModelFiles` |
| Event stream, commit hooks | `src/src/api.rs`, `coordinator.rs`, `protocol.rs` | `EventStream` |
| Accounting, rewards, telemetry | `accounting.rs`, `rewards.rs`, `coordinator.rs` | not modelled |
| Identity, crypto, config, probes, HTML, CLI, simulation | the other files | not modelled |

A node runs one `ConsensusProtocol`. Gossip callbacks and the run loop call it
from several threads; every call takes one mutex, changes `ProtocolState` and
the store, and publishes the queued messages after it releases the mutex. The
store has a lock of its own and every write is one transaction. The gossip
transport calls the handlers on the threads of its read loops. Consensus uses it
to send messages, the fan-out to ask peers for completions; a completion that
succeeds is submitted to consensus as a claim; a commit runs the hooks that feed
the event streams.

The parts are specified apart where one only uses what the other promises:
`Protocol` assumes of the transport what `Broadcast` says and `Gossip` is shown to
implement. The parts that share state are composed: `Inference` puts the chat
handlers over `Runtime` and `ModelFiles`, and `Api` adds `EventStream`.

## Modules

- **`ChainStore`**: the data and the store as operators on a value
  `[blocks, claims]`, one field per table. `Appendable` has the checks of
  `append` and the uniqueness constraints of the schema, `AppendBlock` and
  `Rollback` are the transactions, `VerifyChain` is `verify_chain`. Hashes are
  the content they cover: a block hash covers the proposal and the signers, not
  the quorum.
- **`Ledger`**: a store that any caller may append to or roll back. `Offered` is
  the set of blocks callers come with.
- **`Validation`**: `validate_proposal` and `validate_checkpoint` as predicates.
- **`Protocol`**: all nodes. `node[n]` is a record with the fields of
  `ProtocolState`, the store and the coordinator's sequence counter. Each
  method of `ProtocolState` is a function from record to record (`OnCommit`,
  `MaybeCommit`, `ReconcileChain`, ...); each entry point is an action
  (`ReceiveCommit`, `Tick`, `Propose`, `SubmitClaim`, ...). A claim is numbered
  without the mutex (`MakeClaim`) and queued under it (`SubmitClaim`). A handler that writes
  the store several times is cut at its transactions: `lock` says what the
  handler has left to do, and no other handler of that node runs meanwhile
  (`SuffixStep`, `FlushStep`, `ApplyStep`, `RestoreStep`). `Restart` can hit at
  any of these points and keeps nothing but the store.
- **`ForkChoice`**: what fork choice promises. A node has one chain and replaces
  it only by a better one; a reorg is one step or none.
- **`Gossip`**: the TCP transport of all nodes. A connection has two ends, each
  with the write task and the read loop of `register_connection`; `peers[n]` holds
  keys and the ends whose sender they own, so replacing or removing an entry drops
  a sender (`DropSenders`) and ends its write task once the queue is written.
  `loop` says what each `connect_loop` does (from the configuration, from
  discovery, from `connect_peer`). `on_frame` is three steps, because other
  threads run between them: `Read` (own frame, duplicate, or noted), `Deliver` and
  `Relay`. `Finish` is the end of `register_connection`, which removes its key
  whoever holds it. `Break`, `Close` and `Stopped` are the faults.
- **`Broadcast`**: what users of the transport get: a frame is handed to a node at
  most once, in any order, or never.
- **`Runtime`**: `complete_local`. `srv[n]` is `ServerState` and the holder of its
  mutex, `at[n][p]` the process listening on a port, `call[k]` how far a caller is.
  Steps 1, 2 and 3 of `ensure_ready` are `Reuse`, `Adopt` and `Start`; the wait for
  the model is cut into `Loaded`, `LoadExits` and `LoadTimesOut` with the mutex held;
  `Post` and `Answer` run after it is released. Killing a process cuts off the
  requests in progress at it. The free port of `Start` may be the configured one, as in
  the code, so `Adopt` may find the node's own child there, kill it and return a dead
  port. `NodeKilled` leaves the child running, as a process the next `ServerState`
  does not know.
- **`ModelFiles`**: uploads chunk by chunk into a temporary file, and deletes. A file
  is the sequence of chunks it holds. `ChunkLost` is a write that fails after
  `write_all` returned. A client that leaves during the rename leaves a rename that
  the blocking pool still completes.
- **`Inference`**: `/exodus/chat` and the peers' side of it. A chat starts its local
  completion, publishes the request, collects (`Collect`, `Deadline`), joins the
  local completion, claims it and picks a reply (`Join`); a peer takes a permit or
  answers busy, completes, responds, claims, and gives the permit back. `open` is
  the key set of `infer_tx`. Clients may leave and nodes may crash in between. Texts
  are their normalised characters and a length, which is all `pick_agreed_reply`
  reads. `setup` is a constant of a behaviour: configuration and client activity.
- **`EventStream`**: commit hooks and the bounded channel of each client. Listener
  calls are queued by `commit_local` under the mutex (`Store`), taken by the handler
  (`Drain`) and made after it released the mutex (`Tell`), so calls of two handlers
  can come in any order. The greeting is left out.
- **`Api`**: `Inference` and `EventStream` together.
- **`MCLedger`, `MCProtocol`, `MCGossip`, `MCApi`**: instances for TLC, with the order
  of hashes and the initial states below.
- **`ChainStoreProofs`, `LedgerProofs`, `ProtocolProofs`, `GossipProofs`, `RuntimeProofs`,
  `ServiceProofs`, `ApiProofs`, `AnswerProofs`**: theorems.

Source name to field: `pending`, `proposals`, `signed`, `view`, `peers` keep
their names; `committed` is `committed_claim_ids`, `proposed` is
`proposed_claim_ids`, `shares` is `signatures`, `waiting` is `pending_commits`,
`rejects` is `recent_commit_rejects`, `out` is `outgoing`; `made` holds the
claims between `submit_contribution` and `submit_claim`; `syncOpen` is true
when `request_sync` would not be held back by its interval.

### Abstractions

- Signatures verify and hashes do not collide. The FLOPS check depends on the
  tolerance configured at a node: `Plausible[n]` is the set of claims that pass
  it at node n. A claim is worth one compute unit.
- `created_at` of a proposal is the number of starts of its node (`at`), the
  least that tells two proposals of one node with the same content apart.
- `net[n]` is the set of messages on their way to n, delivered in any order.
  With `Redelivery` a message may arrive any number of times. Losing a message is
  never delivering it. `Gossip` shows why order is not assumed: frames of one
  origin overtake each other on two paths.
- Whether the election timeout or a peer's staleness has passed is
  nondeterministic; so is the end of the sync interval.
- `on_claims` drops entries in hash-map order: any choice.
- Left out: fork alerts (they only fill a set that deduplicates fork alerts),
  logging, unread heartbeat fields, `reconstruct` of rows
  written before quorums were stored.
- In `Gossip` a frame is its own id and one handler stands for the topics and
  subscriptions of a node. Back-off delays are not modelled. A node never dials its
  own address.
- In `Runtime` a process that is healthy is ready and a request to it succeeds, fails
  or is cut off; HTTP framing and JSON are these outcomes. A free port is one no
  process of the model listens on, and nobody takes it before the server binds it; the
  fallback of `pick_free_port` to a port that is taken is left out.
- In `Inference` how many peers a chat expects is any number: it depends on the
  committee and connections of the moment. A request reaches a peer at most once,
  as `Broadcast` allows; a response up to `copies` times, more than it allows.
  Requests whose model name is refused change nothing and are left out.
- `tick` calls `propose_now` when it takes over a view. `Propose` is enabled at
  any moment, so that call is one of its steps.

## Runs

The constants `MaxHeight`, `MaxView` and `MaxBoots` bound blocks, election
timeouts and starts. `Ticking` names the nodes whose timers fire.

| Run | What it shows | Bounds |
| --- | --- | --- |
| `ledger` | Both tables stay sound and consistent, and what a rollback deletes can be appended again. | 2 competing branches with clashing claims |
| `reorg` | Reorgs that complete, reorgs that fail at a block one node rejects, view changes and crashes at any transaction boundary keep ledgers sound, blocks backed by as many real signatures as their quorum says, the committed set equal to the ledger and the view ahead, and implement `ForkChoice`. | 2 nodes, branches of 1 and 2 blocks or connected at genesis; 4 claims, 3 blocks, 3 starts; node 1 rejects claim 3 |
| `meeting` | Without the rate limit a split network converges; in a connected one a claim ends in both ledgers and stays. | branches of 1 and 2 blocks; or 2 nodes, majority, 1 claim |
| `catch_up` | A new node converges through the rate limit although its queue of early commits overflows. | chain of 3 blocks, queue of 1 |
| `gossip` | The transport implements `Broadcast`, frames stop circulating, on a tree every frame published while it is linked reaches every node, and broken links come back. | 3 nodes, 3 connections, 3 frames, window 2; the five topologies of `MCGossip` |
| `api` | Servers are not orphaned and ports have the right model, but for names that end alike; permits, claims, files and temporary files are accounted for; the reply has most agreement; lost events are marked; chats are answered and streams follow. | up to 3 nodes, 2 chats, 3 models, the configured port and 1 more, 4 uploads, 1 fault, 2 clients, 4 commits, a channel of 2; the eleven scenarios of `MCApi` |

Why these bounds are enough to be interesting: a branch of two blocks against
one gives every reorg case (ancestor below both tips, longer, tie after one more
block, failure at the second block with one already applied). Two nodes in
majority mode have a quorum of two, so each needs the other's share, and both
complete the block. A queue of one early commit overflows with two.

`gossip` starts from five setups: a line of three with a link that breaks, two nodes
that dial each other (one closes), a peer dialled twice, a spur with a double
link, and a line with three frames. Together they have every way a frame can come
back: to its origin, to a node that noted it, over the second of two connections. A
window of two holds the two frames that circulate in the first four; one less (a mutant
of `NoteSeen`) already delivers twice. In the last the window evicts, and no frame
comes back.

`api` starts from eleven setups, so that each multiplies only what belongs together: two
chats for different models, for one model, with a server to adopt, and for models one of
which is named like the end of the other, on one node; two chats that keep a peer with
one permit busy; a fan-out to two peers with three texts, answers that come twice and a
client that leaves; a chat while servers exit, nodes are killed and models are deleted;
uploads of one name and one that is too large; a chat for a model in upload, with an empty
upload and a peer whose inference is disabled; two clients of the event stream; and one
client that falls behind more than once. The configured port and one more are the least
with which a server can be replaced on another port. A channel of two events with four
commits is the least in which events are queued in an order and overflow all the same.

Initial states other than the cold start are built with the protocol's own
operations (`SealAlone`, `Boot`): a node that was alone sealed blocks, and what
it published was lost with the connection or is still on its way.

### Runs that find a disagreement

Each states one sentence of the repository and TLC finds a behaviour of the code
that contradicts it.

| Run | Sentence | Behaviour |
| --- | --- | --- |
| `heal_limited` | `protocol.rs:700-705`, "instead of rejecting forever" | The heartbeat's `request_sync(head)` uses the rate limiter's interval (5 s); the suffix that answers it shows a foreign parent, and `request_sync(-1)` is dropped. The next heartbeat (10 s) repeats this. |
| `frozen_quorum` | `DESIGN.md:176-178`, quorum "recorded in the proposal" | Two nodes that know different peers make blocks of one proposal with different quorums. |
| `sibling` | `protocol.rs:1040-1043`, "Never emit a sibling proposal at a height we already have an outstanding [...] proposal for" | Three nodes. A reorg applies the block of the node's own outstanding proposal, which `commit_local` drops from `proposals`, and fails at a later block, which this node's tolerance rejects. The chain is restored, the proposal is not, and the node proposes again for that height. |
| `exact_model` | `llama_server.rs:118-121`, "serving this exact model" | The server on the configured port has `tiny-m`, whose path ends with the file name of the `m` that is asked for; it is adopted. |
| `gossip_guard` | `tcp.rs:80-82`, the reader is told "to drop the connection" | Two nodes dial each other; a frame returns to its origin over the second connection, the read loop of a healthy link ends, but `register_connection` waits for its write task and the connection stays. |
| `seq_reuse` | `validation.rs:3-4`, strict about replay | Sequence numbers restart with the process; a signed proposal cannot be appended and blocks its height. |

### Fairness

`Fairness` is weak fairness of: delivery (per kind of message, and for
heartbeats, sync requests and sync responses per sender or first height, so that
none is passed over forever), the steps of a handler that holds the mutex, the
run loop's tick and propose, and the end of the sync interval. The code
justifies it: readers deliver frames as they come while a connection is up, the
loop in `Coordinator::run` never ends, and a handler holds its mutex for a finite
time. Message loss is not fair, so the liveness runs start after the network
healed and set `Redelivery` to false. `TimelySync` says that a round trip is
shorter than the sync interval; `heal_limited` needs it to be a fair account of
a healthy network and `catch_up` holds with it. `ClaimsSealed`
is about one block, because a proposal that overtakes the commit of its parent is
dropped and nobody sends it again.

`Gossip`, `Inference` and `Api` use one weak fairness of everything the nodes' threads
and tasks do (`Task`, `ApiTask`): the process does not stop while some task can go on.
Their tasks run out, so a task that stays enabled is taken in the end. In `Gossip` this
includes that a listening peer is reached and that a dead connection is
written to, which the heartbeats of every node ensure; in `Inference`, that deadlines
expire. Publishing, breaking, closing, clients, deliveries, server processes and crashes are
not fair, so `ChatsAnswered` holds although peers and servers may never answer.

## Proofs

`ChainStoreProofs` is about the operators, for any blocks and claims:

- `AppendKeepsStoreOK`: an allowed append keeps `StoreOK` (links, no gap, no claim
  or sequence number twice, tables agree).
- `RollbackKeepsStoreOK`: so does a rollback, to any height.
- `PrefixAppendable`: each block of a sound chain may be appended to the rollback
  of that chain to the height below it.

`LedgerProofs` is about `Ledger`, for every set `Offered`:

- `LedgerIntegrity`: `Spec => []Integrity`. The inductive invariant adds to
  `StoreOK` that the blocks form a sequence, which the provers need to reason
  about appended and cut sequences.
- `RollbackUndoable`: `Spec => RollbackIsUndoable`, from the same invariant and
  `PrefixAppendable`.

The argument for append: the new block's claims clash with no row of the claims
table; because the tables agree, every claim of every earlier block is such a
row; so no pair of claims along the longer chain clashes. This is why
`TablesAgree` has to be part of the invariant: `verify_chain` alone, which reads
only the blocks, is not inductive.

`ProtocolProofs` is about `Protocol`, for any number of nodes, any claims, any
order of hashes and any bounds:

- `LedgersSound`: `Spec => []ChainsSound`. Every node's ledger is sound at every
  transaction boundary, in the middle of a reorg, after an abandoned one and
  after a crash, whatever messages are lost, repeated or reordered.

The inductive invariant `IInv` says more than `ChainsSound`, because a reorg keeps
and receives blocks outside the store:

- a store holds a chain that starts at genesis, whose epochs grow, with `StoreOK`
  (`ChainOK`);
- every block a reorg saved has an epoch beyond that of the parent its hash names
  (`SavedOK`), and the ancestor is on the chain (`LockOK`). Saved blocks are
  appended without validation, so nothing else keeps epochs growing;
- a sync response, on its way or queued, is not empty, and if it holds the
  genesis block that block is the shared one (`ResponseOK`, `MsgOK`). Without
  this a reorg could find no common ancestor.

The argument, one lemma per operation: a handler either leaves the store alone,
appends a block that validation accepted, or rolls back to an ancestor.
`Extends(s, t)` is what all handlers but the reorg do, and it is transitive, so
handlers that call each other compose. A validated block has a larger epoch than
the head (`validate_proposal`) and `Appendable` holds before `append`, so
`AppendKeepsStoreOK` applies. For a reorg, `HasMax` gives the common ancestor,
`RollbackKeepsStoreOK` covers the rollback, and a saved block that `append`
accepts names the head as its parent, so its epoch is larger. A restart reads the
store alone, and the store is good at every transaction boundary.

`GossipProofs` is about `Gossip`, for any number of nodes, connections and frames, on any
topology, however connections break and nodes close:

- `GossipTypeCorrect`: `Spec => []TypeOK`. `GInv` adds that what connections carry and
  windows hold was published, and that entries belong to connections there are.
- `GossipIsBroadcast`: `Spec /\ []WindowHolds => ImplementsBroadcast`, where `WindowHolds`
  says that no more frames are published than the window of seen ids holds. The
  hypothesis is needed: a frame that returns after it has left the window is handed
  over again.

The argument for the second: while nothing leaves a window, a frame is noted before it is
handed over. `BInv` says that a read loop about to hand a frame over is the only one of
its node that holds it, that the frame is noted and was not handed over before, and that
what was handed over is noted. `Read` notes and takes a frame in one step (`note_seen`
holds the lock for both), so a second loop finds it noted.

`RuntimeProofs` is about `Runtime` for any nodes, callers, models and ports, with
processes that exit and nodes that are killed at any moment:

- `ServersKept`: `RuntimeSpec => []NoOrphan`.
- `PortsRight`: `RuntimeSpec => []GivenRightModel`. Nothing is assumed of the ports: the
  free port may be the configured one.

The inductive invariant `RInv` adds two facts to the types and the two properties:

- a caller that loads holds the mutex, the child is the process at the recorded
  port, and that process has exited or has the caller's model (`Loading`);
- when the mutex is free and there is a child, it is at the recorded port and has
  exited or has the recorded model (`Settled`).

The second is why `Reuse` may trust `st.model`: it is set only after the load and
cleared before the next server is started. Without the first, a second `Start` could
interleave with a load and lose its child. `WInv` adds that a completion that ended
carries an error or a model's reply, and that the process a caller waits at is ready.

`ServiceProofs` is about the files and streams of `Api`, for any setups, nodes, uploads,
streams and any capacity:

- `FilesAreWhole`: `Spec => []FilesWhole`, and `TempsAreAccounted`:
  `Spec => []TempsAccounted`. `FilesInv` says what a temporary file holds: the chunks of
  its upload so far, in order, less the last if it was lost. It belongs to one upload,
  because its name has the upload's id, so a rename brings one upload's file.
- `GapsAreMarked`: `ApiSpec => []GapsMarked`. `StreamInv` says that the queue of a client
  holds the latest calls without a gap, and that what it heard ends where the queue
  begins, or a lag marker is heard or due (`Follows`).

`ApiProofs` and `AnswerProofs` are about the chats of `Api`, for any setups, chats, nodes
and models:

- `ApiServersKept`: `ApiSpec => []NoOrphan`. Every step of the composition is a step of
  `Runtime` or leaves it alone, so `RInv` carries over.
- `ApiClaimsAreWork`: `ApiSpec => []ClaimsAreWork`. `CInv` relates the
  places a completion is recorded in: a request exists only for a chat that has started, at a
  node other than the chat's own; a reply that may be claimed stands for a call
  that is done with a model's reply (`OfJob`); and what is claimed is settled, the
  chat answered or the request done, so that neither is claimed again (`OfClaim`).
  `WInv` gives the model's reply.
- `ApiSlotsHold`: `ApiSpec => []SlotsHold`. `SInv` is the balance: on every node the free
  permits and the requests that hold one add up to `max_concurrent_inference`.
- `ApiAnswerAgreed`: `ApiSpec => []AnswerAgreed`. What the loop of `pick_agreed_reply`
  leaves in `best` is shown with the first turn at which it would be otherwise; `PInv`
  says that a chat keeps replies of other nodes only, no more than nodes it heard from,
  and that its answer was picked from them.
- `ApiTypeCorrect`: `ApiSpec => []TypeOK`. Answers of one node count once, so there are
  no more than peers.

Assumptions, each named in the module that declares the constants:

- `GossipAssumption` of `Gossip`: the types of the constants and setups;
- `RuntimeAssumption`: every call belongs to a node, and `NoModel` is no model;
- `CallsAreCompletions`, `SetupsAssumption`, `NodesAssumption`, `UploadsAssumption` of
  `Inference`: a completion belongs to a chat and a node, setups name known chats,
  nodes, models and uploads, and there are finitely many nodes;
- `StreamsAssumption` of `Api`: a channel holds at least one event.

The theorems about the ledger and the protocol use none; `NodeAssumption` of `Protocol`
states the types of its constants for the runs.

Only model-checked: of `Protocol` the quorums, the committed set, the views, the queue
bounds and the refinement of `ForkChoice`; and all liveness, which the proof system does
not handle.

## What the properties leave open

Some weaknesses of the code are allowed by properties on purpose, because no
document promises otherwise; the models show them.

- A client that disconnects leaves its entry of `infer_tx` behind: the handler is dropped
  before it calls `drop_inference`. It leaves its temporary file as well, which
  `TempsAccounted` allows.
- A crash inside a reorg leaves a sound chain that may be shorter than before, and
  `ForkChoice` allows it: the documents speak of forks that fail, not of crashes.
- An upload whose last write fails is renamed all the same (`FilesWhole`).
- A caller that was given a port may reach another model's server if the server was
  replaced in between (`GivenRightModel` ends at the return of `ensure_ready`).
- `GivenRightModel` excepts the configured port when another model's path ends with the
  name; `exact_model` shows what happens there.
- A server of a node that was killed runs on, on a port nobody looks at (`NoOrphan` is
  about the servers of the running process).
- A frame that returns after it has left the window of seen ids is handled and relayed
  again.
- Two connect loops for one address remove each other's entry of `peers`; `Relinks` is
  about trees with one loop per link.
- Listener calls can come in another order than the commits, and commits told between
  the greeting and the subscription of a client are lost (`GapsMarked` counts calls,
  from the subscription).
- Stubs of peers with inference disabled take part in the vote (`AnswerAgreed`).

## Not modelled, and why

- Accounting and rewards: floating-point formulas over ledger rows, without state.
  Their rounding is out of TLC's reach, and without it nothing but the formula is left.
- Telemetry: the last announcement of each peer, read by the dashboard only.
- Read-only endpoints, HTML, the command line, environment parsing, GPU and system
  probes, key generation and encoding: I/O without protocol state.
- Prompts, token and FLOPS estimates: strings and floating point.
- `simulation.rs` and `local.rs`: a test harness and its in-process transport.
- Power loss that makes SQLite lose a committed transaction (`synchronous=NORMAL`);
  `Restart` keeps every committed transaction.
