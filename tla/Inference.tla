----------------------------- MODULE Inference -----------------------------
(***************************************************************************)
(* Distributed chat: the handler of /exodus/chat completes locally and     *)
(* asks every peer, collects their answers until it has heard from enough  *)
(* of them or a deadline passes, and picks the reply with most agreement.  *)
(* Peers complete requests of others within a bound on concurrent ones,    *)
(* and log completed work as claims.                                       *)
(*                                                                         *)
(* The completion of chat c on node n is the call <<c, n>> of Runtime; the *)
(* model files are those of ModelFiles.                                    *)
(***************************************************************************)
EXTENDS Runtime, Sequences

CONSTANTS
    Chat,
    Upload, MaxChunks,  \* see ModelFiles
    ParamsKnown,        \* models whose name tells their parameter count
    Setups              \* see setup

VARIABLES
    setup,      \* the nodes' configurations and what clients do, constant:
                \*   nodes     the nodes of the network
                \*   asks      c -> [node, model] for the chats that are made
                \*   present   n -> the model files at the start
                \*   other     n -> the model of a server on the configured port
                \*   off       nodes with inference disabled
                \*   distributed, server: the flags of all nodes
                \*   slots     max_concurrent_inference
                \*   text      n -> what its runtime replies
                \*   copies    how often a response arrives
                \*   leaves    clients may disconnect
                \*   faults    server exits, node kills and deletes allowed
                \*   uploads   the uploads that are made
                \*   streams   the clients of /exodus/events, see Api
                \*   commits   bound: commits
    disk, temp, upload,
    chat,       \* chat[c]: [at, expected, inbox, seen, replies, answer]
    open,       \* chats with an entry in infer_tx
    job,        \* job[<<c, n>>]: [at, reply], a peer's request at node n
    slots,      \* slots[n]: free permits of infer_slots
    arrived,    \* arrived[<<c, n>>]: responses that arrived
    claims,     \* claims[<<c, n>>]: claims logged for the completion
    faults      \* faults so far

F == INSTANCE ModelFiles

fileVars == <<disk, temp, upload>>
inferVars == <<chat, open, job, slots, arrived, claims>>
vars == <<setup, srv, at, call, fileVars, inferVars, faults>>

ASSUME CallsAreCompletions ==
    Call = Chat \X Node /\ CallNode = [k \in Call |-> k[2]]

ASSUME SetupsAssumption ==
    \A s \in Setups : /\ \A c \in DOMAIN s.asks : c \in Chat /\ s.asks[c] \in [node : Node, model : Model]
                      /\ s.nodes \subseteq Node /\ s.slots \in Nat
                      /\ s.uploads \subseteq Upload
                      /\ \A n \in Node : s.text[n].len \in Nat

ASSUME NodesAssumption == IsFiniteSet(Node) /\ Node # {}

ASSUME UploadsAssumption ==
    \A u \in Upload : u.node \in Node /\ u.chunks \in Nat

Home(c) == setup.asks[c].node
ModelOf(c) == setup.asks[c].model
Made == DOMAIN setup.asks
Enabled(n) == n \notin setup.off

(***************************************************************************)
(* pick_agreed_reply.  A text is its normalised characters and its length. *)
(***************************************************************************)
Bigrams(t) == {<<t.chars[i], t.chars[i + 1]>> : i \in 1 .. Len(t.chars) - 1}

\* dice_similarity(a, b) >= 0.5
Agree(a, b) ==
    \/ a = b
    \/ IF Len(a.chars) < 2 \/ Len(b.chars) < 2 THEN a.chars = b.chars
       ELSE 4 * Cardinality(Bigrams(a) \cap Bigrams(b))
                >= Cardinality(Bigrams(a)) + Cardinality(Bigrams(b))

Votes(cands, i) ==
    Cardinality({j \in DOMAIN cands : j = i \/ Agree(cands[i].text, cands[j].text)})

\* Mutant of Beats: the last of equals wins.
BeatsOrEquals(votes, len, best) ==
    votes > best.votes \/ (votes = best.votes /\ len >= best.len)

Beats(votes, len, best) == votes > best.votes \/ (votes = best.votes /\ len > best.len)

\* One turn of the loop over the candidates.
Better(cands, i, best) ==
    IF Beats(Votes(cands, i), cands[i].text.len, best)
    THEN [at |-> i, votes |-> Votes(cands, i), len |-> cands[i].text.len]
    ELSE best

\* The best after each turn; the local reply comes first.
BestAfter(cands) ==
    LET best[i \in 0 .. Len(cands)] ==
            IF i = 0 THEN [at |-> 1, votes |-> 0, len |-> 0]
            ELSE Better(cands, i, best[i - 1])
    IN  best

PickAgreedReply(cands) == BestAfter(cands)[Len(cands)]

StubText(n) == [chars |-> <<7, 8, 9>>, len |-> 9]   \* the node's name is a small part of it

\* What a completed peer replied.
Text(n) == IF Enabled(n) THEN setup.text[n] ELSE StubText(n)

(***************************************************************************)
(* The chat handler.                                                       *)
(***************************************************************************)
\* No model file, or inference disabled: a stub.
ChatStub(c) ==
    /\ chat[c].at = "new"
    /\ ~F!Present(Home(c), ModelOf(c)) \/ ~Enabled(Home(c))
    /\ chat' = [chat EXCEPT ![c].at = "stub"]
    /\ UNCHANGED <<setup, runtimeVars, fileVars, open, job, slots, arrived, claims, faults>>

\* The local completion is started and the request published.  How many peers
\* are expected depends on the committee and on the connections of the moment.
ChatStart(c) ==
    /\ chat[c].at = "new"
    /\ F!Present(Home(c), ModelOf(c)) /\ Enabled(Home(c))
    /\ call' = Ask(<<c, Home(c)>>, ModelOf(c))
    /\ IF setup.distributed
       THEN /\ open' = open \cup {c}
            /\ job' = [k \in Call |-> IF k[1] = c /\ k[2] \in setup.nodes \ {Home(c)}
                                      THEN [job[k] EXCEPT !.at = "asked"] ELSE job[k]]
            /\ \E e \in 0 .. Cardinality(setup.nodes) - 1 :
                  chat' = [chat EXCEPT ![c].at = "collect", ![c].expected = e]
       ELSE /\ chat' = [chat EXCEPT ![c].at = "join"]
            /\ UNCHANGED <<open, job>>
    /\ UNCHANGED <<setup, srv, at, fileVars, slots, arrived, claims, faults>>

\* drop_inference
DropInference(c) == open \ {c}

\* Mutant of Collect: every answer counts.
CollectAll(c) ==
    LET n == Head(chat[c].inbox)
        seen == chat[c].seen \cup {n}
        enough == chat[c].expected > 0 /\ Cardinality(seen) >= chat[c].expected
    IN  /\ chat[c].at = "collect" /\ chat[c].inbox # <<>>
        /\ chat' = [chat EXCEPT ![c].inbox = IF enough THEN <<>> ELSE Tail(@), ![c].seen = seen,
                        ![c].replies = IF job[<<c, n>>].reply = "ok" THEN Append(@, n) ELSE @,
                        ![c].at = IF enough THEN "join" ELSE @]
        /\ open' = IF enough THEN DropInference(c) ELSE open
        /\ UNCHANGED <<setup, runtimeVars, fileVars, job, slots, arrived, claims, faults>>

\* The next answer: a second one of a node is skipped, a reply is kept, an
\* error is not, and enough of them end the collection.
Collect(c) ==
    LET n == Head(chat[c].inbox)
        first == n \notin chat[c].seen
        seen == chat[c].seen \cup {n}
        enough == first /\ chat[c].expected > 0 /\ Cardinality(seen) >= chat[c].expected
    IN  /\ chat[c].at = "collect" /\ chat[c].inbox # <<>>
        /\ chat' = [chat EXCEPT ![c].inbox = IF enough THEN <<>> ELSE Tail(@), ![c].seen = seen,
                        ![c].replies = IF first /\ job[<<c, n>>].reply = "ok" THEN Append(@, n) ELSE @,
                        ![c].at = IF enough THEN "join" ELSE @]
        /\ open' = IF enough THEN DropInference(c) ELSE open
        /\ UNCHANGED <<setup, runtimeVars, fileVars, job, slots, arrived, claims, faults>>

Deadline(c) ==
    /\ chat[c].at = "collect"
    /\ chat' = [chat EXCEPT ![c].at = "join", ![c].inbox = <<>>]
    /\ open' = DropInference(c)
    /\ UNCHANGED <<setup, runtimeVars, fileVars, job, slots, arrived, claims, faults>>

\* record_inference_claim.  A contribution that cannot be submitted is given up
\* silently.
Logged(k, m) ==
    \/ /\ Enabled(k[2]) /\ m \in ParamsKnown
       /\ claims' = [claims EXCEPT ![k] = @ + 1]
    \/ UNCHANGED claims

\* The replies to choose from: the local one, then the peers' in the order
\* they arrived.
Candidates(c) ==
    LET local == IF call[<<c, Home(c)>>].reply = "error" THEN <<>> ELSE <<Home(c)>>
        who == local \o chat[c].replies
    IN  [i \in DOMAIN who |-> [node |-> who[i], text |-> Text(who[i])]]

\* The local completion has ended: its claim, the choice and the answer.
Join(c) ==
    LET k == <<c, Home(c)>>
        cands == Candidates(c)
    IN  /\ chat[c].at = "join"
        /\ call[k].at = "done"
        /\ IF call[k].reply = "error" THEN UNCHANGED claims ELSE Logged(k, ModelOf(c))
        /\ chat' = [chat EXCEPT ![c].at = "answered",
                        ![c].answer = IF cands = <<>> THEN {} ELSE {PickAgreedReply(cands)}]
        /\ UNCHANGED <<setup, runtimeVars, fileVars, open, job, slots, arrived, faults>>

\* The client disconnects: the handler is dropped where it waits, and with it
\* the call of drop_inference; the local completion goes on.
ChatLeft(c) ==
    /\ setup.leaves
    /\ chat[c].at \in {"collect", "join"}
    /\ chat' = [chat EXCEPT ![c].at = "left", ![c].inbox = <<>>]
    /\ UNCHANGED <<setup, runtimeVars, fileVars, open, job, slots, arrived, claims, faults>>

(***************************************************************************)
(* A peer's request.                                                       *)
(***************************************************************************)
\* on_infer_request: a thread of its own handles the request.
Receive(k) ==
    /\ job[k].at = "asked"
    /\ job' = [job EXCEPT ![k].at = "got"]
    /\ UNCHANGED <<setup, runtimeVars, fileVars, chat, open, slots, arrived, claims, faults>>

Replies(j, k, reply) == [j EXCEPT ![k] = [at |-> "replied", reply |-> reply]]

\* No permit is free: the answer is an error.
Busy(k) ==
    /\ job[k].at = "got"
    /\ slots[k[2]] = 0
    /\ job' = [job EXCEPT ![k] = [at |-> "done", reply |-> "error"]]
    /\ UNCHANGED <<setup, runtimeVars, fileVars, chat, open, slots, arrived, claims, faults>>

\* Mutant of TakeSlot: the number of permits is looked at, none is taken.
TakeSlotNone(n) == slots

\* try_acquire
TakeSlot(n) == [slots EXCEPT ![n] = @ - 1]

\* A permit is taken.  Without inference the reply is a stub, without the
\* model file an error; otherwise the completion is started.
Acquire(k) ==
    LET n == k[2]
        m == ModelOf(k[1])
    IN  /\ job[k].at = "got"
        /\ slots[n] > 0
        /\ slots' = TakeSlot(n)
        /\ IF ~Enabled(n) THEN job' = Replies(job, k, "ok") /\ UNCHANGED call
           ELSE IF ~F!Present(n, m) THEN job' = Replies(job, k, "error") /\ UNCHANGED call
           ELSE /\ call' = Ask(k, m)
                /\ job' = [job EXCEPT ![k].at = "run"]
        /\ UNCHANGED <<setup, srv, at, fileVars, chat, open, arrived, claims, faults>>

\* The response is published, with the permit still held.
Respond(k) ==
    /\ job[k].at = "run"
    /\ call[k].at = "done"
    /\ job' = Replies(job, k, IF call[k].reply = "error" THEN "error" ELSE "ok")
    /\ UNCHANGED <<setup, runtimeVars, fileVars, chat, open, slots, arrived, claims, faults>>

\* Mutant of Claimable: errors are claimed too.
ClaimableError(k) == Enabled(k[2])

\* Work is claimed when there was no error and inference is enabled.
Claimable(k) == job[k].reply = "ok" /\ Enabled(k[2])

\* The claim is logged and the permit given back.
Finish(k) ==
    /\ job[k].at = "replied"
    /\ job' = [job EXCEPT ![k].at = "done"]
    /\ IF Claimable(k) THEN Logged(k, ModelOf(k[1])) ELSE UNCHANGED claims
    /\ slots' = [slots EXCEPT ![k[2]] = @ + 1]
    /\ UNCHANGED <<setup, runtimeVars, fileVars, chat, open, arrived, faults>>

\* on_infer_response at the node that asked: the answer goes to the handler
\* if there is an entry for the request.
Arrive(k) ==
    LET c == k[1]
    IN  /\ job[k].at \in {"replied", "done"} /\ job[k].reply # "none"
        /\ arrived[k] < setup.copies
        /\ arrived' = [arrived EXCEPT ![k] = @ + 1]
        /\ chat' = IF c \in open /\ chat[c].at = "collect"
                   THEN [chat EXCEPT ![c].inbox = Append(@, k[2])] ELSE chat
        /\ UNCHANGED <<setup, runtimeVars, fileVars, open, job, slots, claims, faults>>

(***************************************************************************)
(* Composition with the runtimes and the model files.                      *)
(***************************************************************************)
CompleteLocal(k) ==
    /\ \/ CallStep(k)
       \/ LET present == F!Present(k[2], call[k].model)
          IN  IF setup.server THEN Check(k, present) ELSE CliStart(k, present)
    /\ UNCHANGED <<setup, fileVars, inferVars, faults>>

ChangeFiles(u) ==
    /\ F!UploadStep(u)
    /\ UNCHANGED <<setup, runtimeVars, inferVars, faults>>

UploaderLeaves(u) ==
    /\ setup.leaves
    /\ F!UploaderLeaves(u)
    /\ UNCHANGED <<setup, runtimeVars, inferVars, faults>>

Fault == faults < setup.faults /\ faults' = faults + 1

DeleteModel(n, m) ==
    /\ Fault
    /\ F!Delete(n, m)
    /\ UNCHANGED <<setup, runtimeVars, inferVars>>

ServerComesUp(n, p) ==
    /\ ServerReady(n, p)
    /\ UNCHANGED <<setup, fileVars, inferVars, faults>>

ServerCrashes(n, p) ==
    /\ Fault
    /\ ServerExits(n, p)
    /\ UNCHANGED <<setup, fileVars, inferVars>>

\* The node is killed and started again: its handlers, its collectors and the
\* requests it was working on are gone.
NodeCrashes(n) ==
    /\ Fault
    /\ NodeKilled(n)
    /\ chat' = [c \in Chat |->
            IF c \in Made /\ Home(c) = n /\ chat[c].at \in {"collect", "join"}
            THEN [chat[c] EXCEPT !.at = "left", !.inbox = <<>>] ELSE chat[c]]
    /\ open' = {c \in open : Home(c) # n}
    /\ job' = [k \in Call |-> IF k[2] = n /\ job[k].at \in {"got", "run", "replied"}
                              THEN [job[k] EXCEPT !.at = "lost"] ELSE job[k]]
    /\ slots' = [slots EXCEPT ![n] = setup.slots]
    /\ upload' = [u \in Upload |-> IF u.node = n /\ upload[u].at \in {"writing", "rename", "detached"}
                                   THEN [upload[u] EXCEPT !.at = "left"] ELSE upload[u]]
    /\ UNCHANGED <<setup, disk, temp, arrived, claims>>

Init ==
    /\ setup \in Setups
    /\ RuntimeInit
    /\ \A n \in Node : at[n][Configured].model = setup.other[n]
    /\ F!FilesInit(setup.present)
    /\ chat = [c \in Chat |-> [at |-> "new", expected |-> 0, inbox |-> <<>>, seen |-> {},
                               replies |-> <<>>, answer |-> {}]]
    /\ open = {}
    /\ job = [k \in Call |-> [at |-> "none", reply |-> "none"]]
    /\ slots = [n \in Node |-> setup.slots]
    /\ arrived = [k \in Call |-> 0]
    /\ claims = [k \in Call |-> 0]
    /\ faults = 0

\* What the nodes' threads and tasks do.
Task ==
    \/ \E c \in Made : ChatStub(c) \/ ChatStart(c) \/ Collect(c) \/ Deadline(c) \/ Join(c)
    \/ \E k \in Call : \/ Busy(k) \/ Acquire(k) \/ Respond(k) \/ Finish(k)
                       \/ CompleteLocal(k)
    \/ \E u \in setup.uploads : ChangeFiles(u)

\* What clients, the network and the server processes do.
Environment ==
    \/ \E c \in Made : ChatLeft(c)
    \/ \E u \in setup.uploads : UploaderLeaves(u)
    \/ \E k \in Call : Receive(k) \/ Arrive(k)
    \/ \E n \in setup.nodes :
                       \/ NodeCrashes(n)
                       \/ \E m \in Model : DeleteModel(n, m)
                       \/ \E p \in Port : ServerComesUp(n, p) \/ ServerCrashes(n, p)

Next == Task \/ Environment

Spec == Init /\ [][Next]_vars

\* Threads and tasks that can go on do; time passes, so deadlines expire.
Fairness == WF_vars(Task)
FairSpec == Spec /\ Fairness

(***************************************************************************)
(* Properties.                                                             *)
(***************************************************************************)
\* The state has its shape: a chat holds fewer replies than there are nodes
\* (one per peer, however often a response comes), and a completion is
\* claimed at most once.
TypeOK ==
    /\ RuntimeTypeOK
    /\ \A c \in Chat : /\ chat[c].at \in {"new", "stub", "collect", "join", "answered", "left"}
                       /\ Len(chat[c].replies) < Cardinality(Node)
    /\ open \subseteq Made
    /\ \A k \in Call : /\ job[k].at \in {"none", "asked", "got", "run", "replied", "done", "lost"}
                       /\ claims[k] \in {0, 1}

\* A node never works on more requests of others than
\* max_concurrent_inference, a request counting until its response is out
\* ("The permit is held for the whole completion").
SlotsHold ==
    \A n \in Node : Cardinality({k \in Call : k[2] = n /\ job[k].at \in {"run", "replied"}})
                        <= setup.slots

\* A claim stands for a completion that the claiming node's runtime finished,
\* and a completion is claimed once: neither stubs nor errors are work.
ClaimsAreWork ==
    \A k \in Call : claims[k] > 0 =>
        /\ claims[k] = 1
        /\ Enabled(k[2])
        /\ call[k].at = "done" /\ call[k].reply \in Model

\* Candidate i has more agreement than j, or as much and a longer text.
Outranks(cands, i, j) ==
    \/ Votes(cands, i) > Votes(cands, j)
    \/ Votes(cands, i) = Votes(cands, j) /\ cands[i].text.len > cands[j].text.len

\* The reply a client gets has as much agreement as any other, among those
\* the greatest length, and is the local one if that is as good ("ties broken
\* by length, then the local node"), whatever order the peers' answers came in.
AnswerAgreed ==
    \A c \in Made : \A a \in chat[c].answer :
        LET cands == Candidates(c)
        IN  /\ a.at \in DOMAIN cands
            /\ \A i \in DOMAIN cands : ~Outranks(cands, i, a.at)
            /\ \A i \in 1 .. a.at - 1 : Outranks(cands, a.at, i)

\* Every chat is answered, unless its client or node went away: neither a slow
\* peer nor a server that hangs while it loads can hold it up.  And all
\* permits come back.
ChatsAnswered ==
    <>[](/\ \A c \in Made : chat[c].at \in {"stub", "answered", "left"}
         /\ slots = [n \in Node |-> setup.slots])

\* See ModelFiles.
FilesWhole == F!FilesWhole
TempsAccounted == F!TempsAccounted
=============================================================================
