----------------------------- MODULE ApiProofs -----------------------------
(***************************************************************************)
(* What holds of chats, requests of peers and claims for any number of     *)
(* nodes, chats and models.                                                *)
(***************************************************************************)
EXTENDS Api, RuntimeProofs, TLAPS

(***************************************************************************)
(* The runtimes of RuntimeProofs go on as part of the API.                 *)
(***************************************************************************)
RuntimeStep ==
    \/ \E k \in Call : \/ CallStep(k)
                       \/ \E present \in BOOLEAN : Check(k, present) \/ CliStart(k, present)
    \/ \E n \in Node : \/ NodeKilled(n)
                       \/ \E p \in Port : ServerReady(n, p) \/ ServerExits(n, p)

LEMMA RuntimeSteps ==
    ASSUME RInv, WInv, RuntimeStep
    PROVE  RInv' /\ WInv' /\ \A j \in Call : call[j].at = "done" => call'[j] = call[j]
  <1>1. RuntimeNext
    BY DEF RuntimeStep, RuntimeNext
  <1>2. RInv'
    BY <1>1, StepInv
  <1>3. ASSUME NEW k \in Call, CallStep(k) PROVE WInv'
    BY <1>3, CallerGood, SwitchGood, TimeoutGood DEF CallStep
  <1>4. ASSUME NEW k \in Call, NEW present \in BOOLEAN, Check(k, present) \/ CliStart(k, present)
        PROVE  WInv'
    BY <1>4, CallerGood
  <1>5. ASSUME NEW n \in Node, NodeKilled(n) \/ \E p \in Port : ServerReady(n, p) \/ ServerExits(n, p)
        PROVE  WInv'
    BY <1>5, ProcessGood
  <1>6. WInv'
    BY <1>3, <1>4, <1>5 DEF RuntimeStep
  <1>7. \A j \in Call : call[j].at = "done" => call'[j] = call[j]
    BY DoneStays DEF RuntimeStep
  <1> QED BY <1>2, <1>6, <1>7

LEMMA AskSteps ==
    ASSUME RInv, WInv, NEW k \in Call, NEW m \in Model, call' = Ask(k, m), UNCHANGED <<srv, at>>
    PROVE  RInv' /\ WInv' /\ \A j \in Call \ {k} : call'[j] = call[j]
  <1>1. \A j \in Call \ {k} : call'[j] = call[j]
    BY Facts DEF Ask
  <1> QED
    BY <1>1, AskStep, AskGood

LEMMA RuntimeRests ==
    ASSUME RInv, WInv, UNCHANGED runtimeVars
    PROVE  RInv' /\ WInv' /\ UNCHANGED call
  <1>1. UNCHANGED <<srv, at, call>>
    BY DEF runtimeVars
  <1>2. WInv'
    BY <1>1 DEF WInv
  <1> QED
    BY <1>1, <1>2, StepInv

(***************************************************************************)
(* Chats.                                                                  *)
(***************************************************************************)
\* All that the argument needs to know of the type of chat.
IsChat == DOMAIN chat = Chat /\ \A c \in Chat : "at" \in DOMAIN chat[c]

\* A step of one chat.
LEMMA ChatMoves ==
    ASSUME IsChat, NEW c \in Chat, NEW r, "at" \in DOMAIN r, chat' = [chat EXCEPT ![c] = r]
    PROVE  IsChat' /\ chat'[c] = r /\ \A d \in Chat \ {c} : chat'[d] = chat[d]
  BY DEF IsChat

JobStates == {"none", "asked", "got", "run", "replied", "done", "lost"}
JobType == [at : JobStates, reply : {"none", "ok", "error"}]

\* The completion has been done by a model.
Worked(k) == call[k].at = "done" /\ call[k].reply \in Model

\* The completion of a chat by the node it was made at, not by a peer.
Local(k) == k[1] \in Made /\ k[2] = Home(k[1])

(***************************************************************************)
(* Requests are made of other nodes, once the chat has started; a reply    *)
(* that may be claimed stands for work done; and what is claimed is        *)
(* settled: the chat has its answer or the request is done, so that        *)
(* neither is claimed again.                                               *)
(***************************************************************************)
OfJob(k) ==
    /\ job[k].at # "none" => k[1] \in Made /\ ~Local(k) /\ chat[k[1]].at # "new"
    /\ job[k].at = "replied" /\ Claimable(k) => Worked(k)

OfClaim(k) ==
    claims[k] # 0 => /\ Enabled(k[2]) /\ Worked(k)
                     /\ IF Local(k) THEN chat[k[1]].at = "answered" ELSE job[k].at = "done"

\* The entries of infer_tx.
EntriesHeld == \A c \in open : chat[c].at \in {"collect", "left"}

CInv ==
    /\ setup \in Setups
    /\ IsChat
    /\ job \in [Call -> JobType]
    /\ claims \in [Call -> {0, 1}]
    /\ open \subseteq Chat
    /\ EntriesHeld
    /\ \A c \in Made : chat[c].at \in {"collect", "join"} => Enabled(Home(c))
    /\ \A k \in Call : OfJob(k) /\ OfClaim(k)

LEMMA CallFacts ==
    ASSUME setup \in Setups
    PROVE  /\ Made \subseteq Chat
           /\ \A c \in Made : /\ Home(c) \in Node /\ ModelOf(c) \in Model /\ <<c, Home(c)>> \in Call
                              /\ Local(<<c, Home(c)>>)
           /\ \A k \in Call : k[1] \in Chat /\ k[2] \in Node /\ k = <<k[1], k[2]>> /\ CallNode[k] = k[2]
           /\ \A k \in Call : Local(k) => k = <<k[1], Home(k[1])>>
  <1>1. Made \subseteq Chat /\ \A c \in Made : Home(c) \in Node /\ ModelOf(c) \in Model
    BY SetupsAssumption DEF Made, Home, ModelOf
  <1>2. \A k \in Call : k[1] \in Chat /\ k[2] \in Node /\ k = <<k[1], k[2]>> /\ CallNode[k] = k[2]
    BY CallsAreCompletions
  <1>3. \A c \in Made : <<c, Home(c)>> \in Call /\ Local(<<c, Home(c)>>)
    BY <1>1, CallsAreCompletions DEF Local
  <1> QED
    BY <1>1, <1>2, <1>3 DEF Local

(***************************************************************************)
(* A step in which chat c alone moves, from one stage to another; neither  *)
(* it nor another chat gets a request, and what has ended stays.           *)
(***************************************************************************)
LEMMA ChatStep ==
    ASSUME CInv, NEW c \in Made, NEW r, "at" \in DOMAIN r, chat' = [chat EXCEPT ![c] = r],
           UNCHANGED <<setup, job, claims>>, open' \subseteq open,
           \A k \in Call : call[k].at = "done" => call'[k] = call[k],
           r.at # "new", chat[c].at # "answered",
           c \in open' => r.at \in {"collect", "left"},
           r.at \in {"collect", "join"} => Enabled(Home(c))
    PROVE  CInv'
  <1>1. IsChat /\ setup \in Setups /\ c \in Chat /\ open \subseteq Chat
    BY CallFacts DEF CInv
  <1>2. IsChat' /\ chat'[c] = r /\ \A d \in Chat \ {c} : chat'[d] = chat[d]
    BY <1>1, ChatMoves, Zenon
  <1>3. EntriesHeld'
    BY <1>1, <1>2 DEF CInv, EntriesHeld
  <1>4. \A d \in Made : /\ d \in Chat
                        /\ chat'[d].at \in {"collect", "join"} => Enabled(Home(d))
    BY <1>1, <1>2, CallFacts DEF CInv
  <1>5. ASSUME NEW k \in Call PROVE OfJob(k)' /\ OfClaim(k)'
    <2>1. k[1] \in Chat /\ OfJob(k) /\ OfClaim(k)
      BY <1>1, CallFacts DEF CInv
    <2>2. Worked(k) => Worked(k)'
      BY DEF Worked
    <2>3. /\ (Enabled(k[2])' <=> Enabled(k[2])) /\ (Local(k)' <=> Local(k))
          /\ (Claimable(k)' <=> Claimable(k)) /\ Made' = Made
      BY DEF Enabled, Local, Claimable, Made, Home
    <2>4. OfJob(k)'
      BY <1>2, <2>1, <2>2, <2>3 DEF OfJob
    <2>5. OfClaim(k)'
      BY <1>2, <2>1, <2>2, <2>3 DEF OfClaim
    <2> QED BY <2>4, <2>5
  <1>6. /\ (setup \in Setups)' /\ (job \in [Call -> JobType])' /\ (claims \in [Call -> {0, 1}])'
        /\ (open \subseteq Chat)'
    BY DEF CInv
  <1>7. (\A d \in Made : chat[d].at \in {"collect", "join"} => Enabled(Home(d)))'
    BY <1>4 DEF Made, Enabled, Home
  <1> QED
    BY <1>2, <1>3, <1>5, <1>6, <1>7 DEF CInv

(***************************************************************************)
(* A step in which the request k of a peer alone moves.                    *)
(***************************************************************************)
LEMMA JobStep ==
    ASSUME CInv, NEW k \in Call, job[k].at \notin {"none", "done"}, NEW v \in JobType, v.at # "none",
           NEW x \in {0, 1},
           job' = [job EXCEPT ![k] = v], claims' = [claims EXCEPT ![k] = x],
           UNCHANGED <<setup, chat, open>>,
           \A j \in Call \ {k} : call[j].at = "done" => call'[j] = call[j],
           v.at = "replied" /\ v.reply = "ok" /\ Enabled(k[2]) => Worked(k)',
           x # 0 => v.at = "done" /\ Enabled(k[2]) /\ Worked(k)'
    PROVE  CInv'
  <1>1. /\ setup' \in Setups /\ IsChat' /\ open' \subseteq Chat /\ EntriesHeld'
        /\ \A c \in Made : chat[c].at \in {"collect", "join"} => Enabled(Home(c))
    BY DEF CInv, IsChat, EntriesHeld
  <1>2. (\A c \in Made : chat[c].at \in {"collect", "join"} => Enabled(Home(c)))'
    BY <1>1 DEF Made, Enabled, Home
  <1>3. /\ job' \in [Call -> JobType] /\ job'[k] = v /\ \A j \in Call \ {k} : job'[j] = job[j]
        /\ claims' \in [Call -> {0, 1}] /\ claims'[k] = x /\ \A j \in Call \ {k} : claims'[j] = claims[j]
    BY DEF CInv
  <1>4. ASSUME NEW j \in Call PROVE OfJob(j)' /\ OfClaim(j)'
    <2>1. OfJob(j) /\ OfClaim(j)
      BY DEF CInv
    <2>2. (Enabled(j[2])' <=> Enabled(j[2])) /\ (Local(j)' <=> Local(j)) /\ Made' = Made
      BY DEF Enabled, Local, Made, Home
    <2>3. CASE j = k
      <3>1. k[1] \in Made /\ ~Local(k) /\ chat[k[1]].at # "new"
        BY <2>1, <2>3 DEF OfJob
      <3>2. OfJob(k)'
        BY <1>3, <2>2, <2>3, <3>1 DEF OfJob, Claimable
      <3>3. OfClaim(k)'
        BY <1>3, <2>2, <2>3, <3>1 DEF OfClaim
      <3> QED BY <2>3, <3>2, <3>3
    <2>4. CASE j # k
      <3>1. Worked(j) => Worked(j)'
        BY <2>4 DEF Worked
      <3>2. job'[j] = job[j] /\ claims'[j] = claims[j] /\ (Claimable(j)' <=> Claimable(j))
        BY <1>3, <2>2, <2>4 DEF Claimable
      <3>3. OfJob(j)'
        BY <2>1, <2>2, <3>1, <3>2 DEF OfJob
      <3>4. OfClaim(j)'
        BY <2>1, <2>2, <3>1, <3>2 DEF OfClaim
      <3> QED BY <3>3, <3>4
    <2> QED BY <2>3, <2>4
  <1> QED
    BY <1>1, <1>2, <1>3, <1>4 DEF CInv

LEMMA Waiting ==
    ASSUME CInv, NEW k \in Call, job[k].at \notin {"none", "done"}
    PROVE  /\ claims[k] = 0 /\ [claims EXCEPT ![k] = 0] = claims
           /\ k[1] \in Made /\ ~Local(k) /\ job[k] \in JobType
  <1>1. OfJob(k) /\ OfClaim(k) /\ claims \in [Call -> {0, 1}] /\ job \in [Call -> JobType]
    BY DEF CInv
  <1>2. claims[k] = 0 /\ ~Local(k) /\ k[1] \in Made
    BY <1>1 DEF OfJob, OfClaim
  <1> QED
    BY <1>1, <1>2

(***************************************************************************)
(* The chat handler's steps.                                               *)
(***************************************************************************)
LEMMA HandlerSteps ==
    ASSUME CInv, NEW c \in Made, ChatStub(c) \/ Collect(c) \/ Deadline(c) \/ ChatLeft(c)
    PROVE  CInv'
  <1>1. /\ UNCHANGED <<setup, runtimeVars, job, claims>>
        /\ \A k \in Call : call'[k] = call[k]
    BY Zenon DEF ChatStub, Collect, Deadline, ChatLeft, runtimeVars
  <1>2. /\ c \in Chat /\ "at" \in DOMAIN chat[c] /\ DOMAIN chat = Chat
        /\ c \in open => chat[c].at \in {"collect", "left"}
        /\ chat[c].at \in {"collect", "join"} => Enabled(Home(c))
    BY CallFacts DEF CInv, IsChat, EntriesHeld
  <1>3. CASE ChatStub(c)
    <2> DEFINE r == [chat[c] EXCEPT !.at = "stub"]
    <2>1. r.at = "stub" /\ "at" \in DOMAIN r
      BY <1>2
    <2>2. chat' = [chat EXCEPT ![c] = r] /\ UNCHANGED open /\ chat[c].at = "new"
      BY <1>2, <1>3 DEF ChatStub
    <2> HIDE DEF r
    <2> QED
      BY <1>1, <1>2, <2>1, <2>2, ChatStep, Zenon
  <1>4. CASE Collect(c)
    <2> DEFINE n == Head(chat[c].inbox)
               first == n \notin chat[c].seen
               seen == chat[c].seen \cup {n}
               kept == first /\ job[<<c, n>>].reply = "ok"
               enough == first /\ chat[c].expected > 0 /\ Cardinality(seen) >= chat[c].expected
    <2>1. /\ chat' = [chat EXCEPT ![c].inbox = IF enough THEN <<>> ELSE Tail(@), ![c].seen = seen,
                                  ![c].replies = IF kept THEN Append(@, n) ELSE @,
                                  ![c].at = IF enough THEN "join" ELSE @]
          /\ open' = IF enough THEN DropInference(c) ELSE open
      BY <1>4, Zenon DEF Collect
    <2> HIDE DEF enough, kept, seen
    <2> DEFINE r == [chat[c] EXCEPT !.inbox = IF enough THEN <<>> ELSE Tail(@), !.seen = seen,
                                    !.replies = IF kept THEN Append(@, n) ELSE @,
                                    !.at = IF enough THEN "join" ELSE @]
    <2>2. chat[c].at = "collect"
      BY <1>4, Zenon DEF Collect
    <2>3. r.at = (IF enough THEN "join" ELSE chat[c].at) /\ "at" \in DOMAIN r
      BY <1>2
    <2>4. chat' = [chat EXCEPT ![c] = r]
      BY <1>2, <2>1, Zenon
    <2>5. open' \subseteq open /\ (c \in open' => ~enough)
      BY <2>1 DEF DropInference
    <2> HIDE DEF r
    <2> QED
      BY <1>1, <1>2, <2>2, <2>3, <2>4, <2>5, ChatStep, Zenon
  <1>5. CASE Deadline(c) \/ ChatLeft(c)
    <2>1. PICK a \in {"join", "left"} :
            /\ chat' = [chat EXCEPT ![c].at = a, ![c].inbox = <<>>]
            /\ open' = (IF a = "join" THEN DropInference(c) ELSE open)
      BY <1>5 DEF Deadline, ChatLeft
    <2> DEFINE r == [chat[c] EXCEPT !.at = a, !.inbox = <<>>]
    <2>2. chat[c].at \in {"collect", "join"}
      BY <1>5 DEF Deadline, ChatLeft
    <2>3. r.at = a /\ "at" \in DOMAIN r
      BY <1>2
    <2>4. chat' = [chat EXCEPT ![c] = r]
      BY <1>2, <2>1, Zenon
    <2>5. open' \subseteq open /\ (c \in open' => a = "left")
      BY <2>1 DEF DropInference
    <2> HIDE DEF r
    <2> QED
      BY <1>1, <1>2, <2>2, <2>3, <2>4, <2>5, ChatStep, Zenon
  <1> QED BY <1>3, <1>4, <1>5

\* An answer that arrives goes to the inbox of a handler that collects.
LEMMA ArriveStep ==
    ASSUME CInv, NEW k \in Call, Arrive(k)
    PROVE  CInv'
  <1> DEFINE c == k[1]
  <1>1. k[1] \in Made /\ chat[c].at # "new" /\ OfJob(k)
    BY DEF CInv, Arrive, OfJob
  <1>2. UNCHANGED <<setup, open, job, claims, srv, at, call>>
    BY DEF Arrive, runtimeVars
  <1>3. /\ c \in Chat /\ "at" \in DOMAIN chat[c] /\ DOMAIN chat = Chat
        /\ c \in open => chat[c].at \in {"collect", "left"}
        /\ chat[c].at \in {"collect", "join"} => Enabled(Home(c))
    BY <1>1, CallFacts DEF CInv, IsChat, EntriesHeld
  <1>4. CASE c \in open /\ chat[c].at = "collect"
    <2> DEFINE r == [chat[c] EXCEPT !.inbox = Append(@, k[2])]
    <2>1. r.at = "collect" /\ "at" \in DOMAIN r
      BY <1>3, <1>4
    <2>2. chat' = [chat EXCEPT ![c] = r]
      BY <1>3, <1>4 DEF Arrive
    <2> HIDE DEF r
    <2> QED
      BY <1>1, <1>2, <1>3, <1>4, <2>1, <2>2, ChatStep, Zenon
  <1>5. CASE ~(c \in open /\ chat[c].at = "collect")
    <2>1. UNCHANGED chat
      BY <1>5 DEF Arrive
    <2> QED
      BY <1>2, <2>1 DEF CInv, IsChat, EntriesHeld, OfJob, OfClaim, Claimable, Enabled, Local,
         Worked, Made, Home
  <1> QED BY <1>4, <1>5

LEMMA LoggedIs ==
    ASSUME CInv, NEW k \in Call, claims[k] = 0, NEW m, Logged(k, m)
    PROVE  \E x \in {0, 1} : claims' = [claims EXCEPT ![k] = x]
  <1>1. claims \in [Call -> {0, 1}]
    BY DEF CInv
  <1>2. CASE claims' = [claims EXCEPT ![k] = @ + 1]
    BY <1>1, <1>2
  <1>3. CASE UNCHANGED claims
    <2>1. claims' = [claims EXCEPT ![k] = 0]
      BY <1>1, <1>3
    <2> QED BY <2>1
  <1> QED BY <1>2, <1>3 DEF Logged

(***************************************************************************)
(* The steps of a request at a peer.                                       *)
(***************************************************************************)
LEMMA RequestSteps ==
    ASSUME CInv, WInv, NEW k \in Call, Receive(k) \/ Busy(k) \/ Respond(k) \/ Finish(k)
    PROVE  CInv'
  <1>1. /\ UNCHANGED <<setup, chat, open, call>>
        /\ job[k].at \notin {"none", "done"}
    BY DEF Receive, Busy, Respond, Finish, runtimeVars
  <1>2. /\ claims[k] = 0 /\ [claims EXCEPT ![k] = 0] = claims
        /\ job[k] \in JobType /\ job \in [Call -> JobType]
    BY <1>1, Waiting DEF CInv
  <1>3. CASE Receive(k)
    <2> DEFINE v == [job[k] EXCEPT !.at = "got"]
    <2>1. v \in JobType /\ v.at = "got"
      BY <1>2 DEF JobType, JobStates
    <2>2. job' = [job EXCEPT ![k] = v] /\ claims' = [claims EXCEPT ![k] = 0]
      BY <1>2, <1>3 DEF Receive
    <2> HIDE DEF v
    <2> QED
      BY <1>1, <2>1, <2>2, JobStep, Zenon
  <1>4. CASE Busy(k)
    <2> DEFINE v == [at |-> "done", reply |-> "error"]
    <2>1. v \in JobType /\ v.at = "done"
      BY DEF JobType, JobStates
    <2>2. job' = [job EXCEPT ![k] = v] /\ claims' = [claims EXCEPT ![k] = 0]
      BY <1>2, <1>4 DEF Busy
    <2> HIDE DEF v
    <2> QED
      BY <1>1, <2>1, <2>2, JobStep, Zenon
  <1>5. CASE Respond(k)
    <2> DEFINE a == IF call[k].reply = "error" THEN "error" ELSE "ok"
               v == [at |-> "replied", reply |-> a]
    <2>1. v \in JobType /\ v.at = "replied" /\ (v.reply = "ok" => call[k].reply # "error")
      BY DEF JobType, JobStates
    <2>2. call[k].at = "done" /\ call[k].reply \in Model \union {"error"}
      BY <1>5 DEF Respond, WInv, Good
    <2>3. v.reply = "ok" => Worked(k)'
      BY <1>1, <2>1, <2>2 DEF Worked
    <2>4. job' = [job EXCEPT ![k] = v] /\ claims' = [claims EXCEPT ![k] = 0]
      BY <1>2, <1>5 DEF Respond, Replies
    <2> HIDE DEF v
    <2> QED
      BY <1>1, <2>1, <2>3, <2>4, JobStep, Zenon
  <1>6. CASE Finish(k)
    <2> DEFINE v == [job[k] EXCEPT !.at = "done"]
    <2>1. v \in JobType /\ v.at = "done"
      BY <1>2 DEF JobType, JobStates
    <2>2. PICK x \in {0, 1} : claims' = [claims EXCEPT ![k] = x] /\ (x # 0 => Claimable(k))
      <3>1. IF Claimable(k) THEN Logged(k, ModelOf(k[1])) ELSE UNCHANGED claims
        BY <1>6 DEF Finish
      <3>2. CASE Claimable(k)
        BY <1>2, <3>1, <3>2, LoggedIs, Zenon
      <3>3. CASE ~Claimable(k)
        <4>1. claims' = [claims EXCEPT ![k] = 0]
          BY <1>2, <3>1, <3>3
        <4> QED BY <4>1
      <3> QED BY <3>2, <3>3
    <2>3. Claimable(k) => Worked(k)' /\ Enabled(k[2])
      BY <1>1, <1>6 DEF CInv, OfJob, Finish, Claimable, Worked
    <2>4. job' = [job EXCEPT ![k] = v]
      BY <1>2, <1>6 DEF Finish
    <2> HIDE DEF v
    <2> QED
      BY <1>1, <2>1, <2>2, <2>3, <2>4, JobStep, Zenon
  <1> QED BY <1>3, <1>4, <1>5, <1>6

LEMMA AcquireStep ==
    ASSUME CInv, RInv, WInv, NEW k \in Call, Acquire(k)
    PROVE  CInv' /\ RInv' /\ WInv'
  <1>1. UNCHANGED <<setup, chat, open, claims, srv, at>> /\ job[k].at = "got"
    BY DEF Acquire
  <1>2. /\ [claims EXCEPT ![k] = 0] = claims /\ k[1] \in Made
        /\ job[k] \in JobType /\ job \in [Call -> JobType]
    BY <1>1, Waiting DEF CInv
  <1>3. ASSUME UNCHANGED call, NEW a \in {"ok", "error"}, job' = Replies(job, k, a),
               a = "ok" => ~Enabled(k[2])
        PROVE  CInv' /\ RInv' /\ WInv'
    <2> DEFINE v == [at |-> "replied", reply |-> a]
    <2>1. v \in JobType /\ v.at = "replied" /\ v.reply = a
      BY DEF JobType, JobStates
    <2>2. job' = [job EXCEPT ![k] = v]
      BY <1>3 DEF Replies
    <2> HIDE DEF v
    <2>3. CInv'
      BY <1>1, <1>2, <1>3, <2>1, <2>2, JobStep, Zenon
    <2> QED
      BY <1>1, <1>3, <2>3, RuntimeRests DEF runtimeVars
  <1>4. ASSUME call' = Ask(k, ModelOf(k[1])), job' = [job EXCEPT ![k].at = "run"]
        PROVE  CInv' /\ RInv' /\ WInv'
    <2> DEFINE v == [job[k] EXCEPT !.at = "run"]
    <2>1. v \in JobType /\ v.at = "run"
      BY <1>2 DEF JobType, JobStates
    <2>2. job' = [job EXCEPT ![k] = v]
      BY <1>2, <1>4
    <2> HIDE DEF v
    <2>3. ModelOf(k[1]) \in Model
      BY <1>2, CallFacts, Zenon DEF CInv
    <2>4. RInv' /\ WInv' /\ \A j \in Call \ {k} : call'[j] = call[j]
      BY <1>1, <1>4, <2>3, AskSteps
    <2>5. CInv'
      BY <1>1, <1>2, <2>1, <2>2, <2>4, JobStep, Zenon
    <2> QED BY <2>4, <2>5
  <1>5. \/ job' = Replies(job, k, "ok") /\ UNCHANGED call /\ ~Enabled(k[2])
        \/ job' = Replies(job, k, "error") /\ UNCHANGED call
        \/ call' = Ask(k, ModelOf(k[1])) /\ job' = [job EXCEPT ![k].at = "run"]
    BY DEF Acquire
  <1> QED
    BY <1>3, <1>4, <1>5

\* The local reply is claimed when the chat is answered, once.
LEMMA JoinStep ==
    ASSUME CInv, WInv, NEW c \in Made, Join(c)
    PROVE  CInv'
  <1> DEFINE k == <<c, Home(c)>>
  <1>1. /\ UNCHANGED <<setup, open, job, call>> /\ chat[c].at = "join" /\ call[k].at = "done"
        /\ IF call[k].reply = "error" THEN UNCHANGED claims ELSE Logged(k, ModelOf(c))
    BY DEF Join, runtimeVars
  <1>2. /\ c \in Chat /\ IsChat /\ setup \in Setups /\ open \subseteq Chat
        /\ c \notin open /\ Enabled(Home(c))
    BY <1>1, CallFacts DEF CInv, EntriesHeld
  <1>3. k \in Call /\ Local(k) /\ k[1] = c /\ k[2] = Home(c)
    BY <1>2, CallFacts
  <1> HIDE DEF k
  <1>4. claims[k] = 0
    BY <1>1, <1>3 DEF CInv, OfClaim
  <1>5. PICK answer : chat' = [chat EXCEPT ![c].at = "answered", ![c].answer = answer]
    BY Zenon DEF Join
  <1>6. IsChat' /\ chat'[c].at = "answered" /\ \A d \in Chat \ {c} : chat'[d] = chat[d]
    BY <1>2, <1>5 DEF IsChat
  <1>7. PICK x \in {0, 1} : claims' = [claims EXCEPT ![k] = x] /\ (x # 0 => Worked(k))
    <2>1. CASE call[k].reply = "error"
      <3>1. claims' = [claims EXCEPT ![k] = 0]
        BY <1>1, <1>3, <1>4, <2>1 DEF CInv
      <3> QED BY <3>1
    <2>2. CASE call[k].reply # "error"
      <3>1. Worked(k)
        BY <1>1, <1>3, <2>2 DEF Worked, WInv, Good
      <3> QED
        BY <1>1, <1>3, <1>4, <2>2, <3>1, LoggedIs
    <2> QED BY <2>1, <2>2
  <1>8. /\ claims' \in [Call -> {0, 1}] /\ claims'[k] = x /\ \A j \in Call \ {k} : claims'[j] = claims[j]
    BY <1>3, <1>7 DEF CInv
  <1>9. ASSUME NEW j \in Call PROVE OfJob(j)' /\ OfClaim(j)'
    <2>1. j[1] \in Chat /\ OfJob(j) /\ OfClaim(j)
      BY <1>2, CallFacts DEF CInv
    <2>2. /\ (Enabled(j[2])' <=> Enabled(j[2])) /\ (Local(j)' <=> Local(j))
          /\ (Claimable(j)' <=> Claimable(j)) /\ (Worked(j)' <=> Worked(j)) /\ Made' = Made
      BY <1>1 DEF Enabled, Local, Claimable, Worked, Made, Home
    <2>3. OfJob(j)'
      BY <1>1, <1>6, <2>1, <2>2, Zenon DEF OfJob
    <2>4. chat[j[1]].at = "answered" => chat'[j[1]].at = "answered"
      BY <1>6, <2>1
    <2>5. CASE j = k
      <3>1. Local(j) /\ chat'[j[1]].at = "answered" /\ Enabled(j[2]) /\ (claims'[j] # 0 => Worked(j))
        BY <1>2, <1>3, <1>6, <1>7, <1>8, <2>5
      <3> QED
        BY <2>2, <2>3, <3>1, Zenon DEF OfClaim
    <2>6. CASE j # k
      <3>1. claims'[j] = claims[j] /\ job' = job
        BY <1>1, <1>8, <2>6
      <3> QED
        BY <2>1, <2>2, <2>3, <2>4, <3>1 DEF OfClaim
    <2> QED BY <2>5, <2>6
  <1>10. EntriesHeld' /\ open' \subseteq Chat /\ setup' \in Setups /\ job' \in [Call -> JobType]
    BY <1>1, <1>2, <1>6 DEF CInv, EntriesHeld
  <1>11. \A d \in Made : d \in Chat /\ (chat'[d].at \in {"collect", "join"} => Enabled(Home(d)))
    BY <1>2, <1>6, CallFacts DEF CInv
  <1>12. (\A d \in Made : chat[d].at \in {"collect", "join"} => Enabled(Home(d)))'
    BY <1>1, <1>11 DEF Made, Enabled, Home
  <1> QED
    BY <1>6, <1>8, <1>9, <1>10, <1>12 DEF CInv

\* A chat starts: it has no request and no claim yet.
LEMMA StartChat ==
    ASSUME CInv, RInv, WInv, NEW c \in Made, ChatStart(c)
    PROVE  CInv' /\ RInv' /\ WInv'
  <1> DEFINE k == <<c, Home(c)>>
  <1>1. /\ UNCHANGED <<setup, srv, at, claims>> /\ chat[c].at = "new" /\ Enabled(Home(c))
        /\ call' = Ask(k, ModelOf(c))
    BY DEF ChatStart
  <1>2. /\ c \in Chat /\ IsChat /\ setup \in Setups /\ open \subseteq Chat /\ c \notin open
        /\ job \in [Call -> JobType]
    BY <1>1, CallFacts DEF CInv, EntriesHeld
  <1>3. k \in Call /\ Local(k) /\ ModelOf(c) \in Model /\ Home(c) \in Node
    BY <1>2, CallFacts
  <1>4. RInv' /\ WInv' /\ \A j \in Call \ {k} : call'[j] = call[j]
    BY <1>1, <1>3, AskSteps
  <1>5. PICK a \in {"collect", "join"} :
            /\ \/ \E e : chat' = [chat EXCEPT ![c].at = a, ![c].expected = e]
               \/ chat' = [chat EXCEPT ![c].at = a]
            /\ open' = IF a = "collect" THEN open \cup {c} ELSE open
            /\ \/ UNCHANGED job
               \/ job' = [j \in Call |-> IF j[1] = c /\ j[2] \in setup.nodes \ {Home(c)}
                                         THEN [job[j] EXCEPT !.at = "asked"] ELSE job[j]]
    <2>1. CASE setup.distributed
      BY <2>1 DEF ChatStart
    <2>2. CASE ~setup.distributed
      BY <2>2 DEF ChatStart
    <2> QED BY <2>1, <2>2
  <1>6. IsChat' /\ chat'[c].at = a /\ \A d \in Chat \ {c} : chat'[d] = chat[d]
    BY <1>2, <1>5 DEF IsChat
  <1>7. \A j \in Call : /\ [job[j] EXCEPT !.at = "asked"] \in JobType
                        /\ [job[j] EXCEPT !.at = "asked"].at = "asked"
    BY <1>2 DEF JobType, JobStates
  <1>8. /\ job' \in [Call -> JobType]
        /\ \A j \in Call : \/ job'[j] = job[j]
                           \/ j[1] = c /\ j[2] # Home(c) /\ job'[j].at = "asked"
    BY <1>2, <1>5, <1>7, Zenon
  <1>9. ASSUME NEW j \in Call PROVE OfJob(j)' /\ OfClaim(j)'
    <2>1. j[1] \in Chat /\ OfJob(j) /\ OfClaim(j) /\ (Local(j) => j = <<j[1], Home(j[1])>>)
      BY <1>2, CallFacts DEF CInv
    <2>2. (Enabled(j[2])' <=> Enabled(j[2])) /\ (Local(j)' <=> Local(j)) /\ Made' = Made
      BY <1>1 DEF Enabled, Local, Made, Home
    <2>3. j[1] = c => job[j].at = "none" /\ claims[j] = 0
      BY <1>1, <2>1 DEF OfJob, OfClaim, CInv
    <2>4. CASE j[1] = c
      <3>1. claims'[j] = 0
        BY <1>1, <2>3, <2>4
      <3>2. job'[j].at = "none" \/ (job'[j].at = "asked" /\ ~Local(j))
        BY <1>8, <2>3, <2>4 DEF Local
      <3> QED
        BY <1>6, <2>2, <2>4, <3>1, <3>2 DEF OfJob, OfClaim
    <2>5. CASE j[1] # c
      <3>1. job'[j] = job[j] /\ chat'[j[1]] = chat[j[1]] /\ claims'[j] = claims[j] /\ j # k
        BY <1>1, <1>6, <1>8, <2>1, <2>5
      <3>2. (Worked(j)' <=> Worked(j)) /\ (Claimable(j)' <=> Claimable(j))
        BY <1>4, <2>2, <3>1 DEF Worked, Claimable
      <3> HIDE DEF k
      <3> QED
        BY <2>1, <2>2, <3>1, <3>2 DEF OfJob, OfClaim
    <2> QED BY <2>4, <2>5
  <1> HIDE DEF k
  <1>10. EntriesHeld' /\ open' \subseteq Chat /\ setup' \in Setups /\ claims' \in [Call -> {0, 1}]
    BY <1>1, <1>2, <1>5, <1>6 DEF CInv, EntriesHeld
  <1>11. \A d \in Made : d \in Chat /\ (chat'[d].at \in {"collect", "join"} => Enabled(Home(d)))
    BY <1>1, <1>2, <1>6, CallFacts DEF CInv
  <1>12. (\A d \in Made : chat[d].at \in {"collect", "join"} => Enabled(Home(d)))'
    BY <1>1, <1>11 DEF Made, Enabled, Home
  <1>13. CInv'
    BY <1>6, <1>8, <1>9, <1>10, <1>12 DEF CInv
  <1> QED BY <1>4, <1>13

\* A node is killed: its handlers are gone, its requests are lost, what it has
\* completed and claimed stays.
LEMMA CrashStep ==
    ASSUME CInv, RInv, WInv, NEW n \in Node, NodeCrashes(n)
    PROVE  CInv' /\ RInv' /\ WInv'
  <1>1. NodeKilled(n) /\ UNCHANGED <<setup, claims>>
    BY Zenon DEF NodeCrashes
  <1>2. RInv' /\ WInv' /\ \A j \in Call : call[j].at = "done" => call'[j] = call[j]
    BY <1>1, RuntimeSteps, Zenon DEF RuntimeStep
  <1>3. /\ IsChat /\ setup \in Setups /\ open \subseteq Chat /\ job \in [Call -> JobType]
        /\ EntriesHeld
    BY DEF CInv
  <1>4. /\ open' \subseteq open
        /\ chat' = [c \in Chat |->
            IF c \in Made /\ Home(c) = n /\ chat[c].at \in {"collect", "join"}
            THEN [chat[c] EXCEPT !.at = "left", !.inbox = <<>>] ELSE chat[c]]
        /\ job' = [k \in Call |-> IF k[2] = n /\ job[k].at \in {"got", "run", "replied"}
                                  THEN [job[k] EXCEPT !.at = "lost"] ELSE job[k]]
    BY Zenon DEF NodeCrashes
  <1>5. \A c \in Chat : \/ chat'[c] = chat[c]
                        \/ chat[c].at \in {"collect", "join"} /\ chat'[c].at = "left"
    BY <1>3, <1>4, Zenon DEF IsChat
  <1>6. IsChat'
    BY <1>3, <1>4, Zenon DEF IsChat
  <1>7. \A k \in Call : /\ [job[k] EXCEPT !.at = "lost"] \in JobType
                        /\ [job[k] EXCEPT !.at = "lost"].at = "lost"
    BY <1>3 DEF JobType, JobStates
  <1>8. /\ job' \in [Call -> JobType]
        /\ \A k \in Call : \/ job'[k] = job[k]
                           \/ job[k].at \in {"got", "run", "replied"} /\ job'[k].at = "lost"
    BY <1>3, <1>4, <1>7, Zenon
  <1>9. ASSUME NEW k \in Call PROVE OfJob(k)' /\ OfClaim(k)'
    <2>1. k[1] \in Chat /\ OfJob(k) /\ OfClaim(k)
      BY <1>3, CallFacts DEF CInv
    <2>2. (Enabled(k[2])' <=> Enabled(k[2])) /\ (Local(k)' <=> Local(k)) /\ Made' = Made
      BY <1>1 DEF Enabled, Local, Made, Home
    <2>3. Worked(k) => Worked(k)'
      BY <1>2 DEF Worked
    <2>4. /\ chat[k[1]].at # "new" => chat'[k[1]].at # "new"
          /\ chat[k[1]].at = "answered" => chat'[k[1]].at = "answered"
      BY <1>5, <2>1
    <2>5. OfJob(k)'
      BY <1>8, <2>1, <2>2, <2>3, <2>4 DEF OfJob, Claimable
    <2>6. job[k].at = "done" => job'[k].at = "done"
      BY <1>8
    <2>7. OfClaim(k)'
      BY <1>1, <2>1, <2>2, <2>3, <2>4, <2>6 DEF OfClaim
    <2> QED BY <2>5, <2>7
  <1>10. EntriesHeld' /\ open' \subseteq Chat /\ setup' \in Setups /\ claims' \in [Call -> {0, 1}]
    BY <1>1, <1>3, <1>4, <1>5, Zenon DEF CInv, EntriesHeld
  <1>11. \A d \in Made : d \in Chat /\ (chat'[d].at \in {"collect", "join"} => Enabled(Home(d)))
    BY <1>3, <1>5, CallFacts DEF CInv
  <1>12. (\A d \in Made : chat[d].at \in {"collect", "join"} => Enabled(Home(d)))'
    BY <1>1, <1>11 DEF Made, Enabled, Home
  <1>13. CInv'
    BY <1>6, <1>8, <1>9, <1>10, <1>12 DEF CInv
  <1> QED BY <1>2, <1>13

\* Steps of the runtimes, of uploads and of event streams.
LEMMA OtherSteps ==
    ASSUME CInv, UNCHANGED <<setup, chat, open, job, claims>>,
           \A j \in Call : call[j].at = "done" => call'[j] = call[j]
    PROVE  CInv'
  <1>1. /\ setup' \in Setups /\ IsChat' /\ job' \in [Call -> JobType] /\ claims' \in [Call -> {0, 1}]
        /\ open' \subseteq Chat /\ EntriesHeld'
        /\ (\A c \in Made : chat[c].at \in {"collect", "join"} => Enabled(Home(c)))'
    BY DEF CInv, IsChat, EntriesHeld, Made, Enabled, Home
  <1>2. ASSUME NEW k \in Call PROVE OfJob(k)' /\ OfClaim(k)'
    <2>1. OfJob(k) /\ OfClaim(k)
      BY DEF CInv
    <2>2. Worked(k) => Worked(k)'
      BY DEF Worked
    <2>3. /\ (Enabled(k[2])' <=> Enabled(k[2])) /\ (Local(k)' <=> Local(k))
          /\ (Claimable(k)' <=> Claimable(k)) /\ Made' = Made
      BY DEF Enabled, Local, Claimable, Made, Home
    <2> QED
      BY <2>1, <2>2, <2>3 DEF OfJob, OfClaim
  <1> QED
    BY <1>1, <1>2 DEF CInv

AInv == CInv /\ RInv /\ WInv

LEMMA InitAll ==
    ASSUME ApiInit
    PROVE  AInv
  <1>1. RuntimeInit /\ setup \in Setups /\ open = {}
    BY DEF ApiInit, Init
  <1>2. RInv /\ WInv
    BY <1>1, InitInv, InitGood
  <1>3. IsChat /\ \A c \in Chat : chat[c].at = "new"
    BY DEF ApiInit, Init, IsChat
  <1>4. job \in [Call -> JobType] /\ \A k \in Call : job[k].at = "none"
    BY DEF ApiInit, Init, JobType, JobStates
  <1>5. claims \in [Call -> {0, 1}] /\ \A k \in Call : claims[k] = 0
    BY DEF ApiInit, Init
  <1>6. EntriesHeld /\ \A c \in Made : chat[c].at = "new"
    BY <1>1, <1>3, CallFacts DEF EntriesHeld
  <1>7. \A k \in Call : OfJob(k) /\ OfClaim(k)
    BY <1>4, <1>5 DEF OfJob, OfClaim
  <1> QED
    BY <1>1, <1>2, <1>3, <1>4, <1>5, <1>6, <1>7 DEF AInv, CInv

LEMMA StepAll ==
    ASSUME AInv, [ApiNext]_apiVars
    PROVE  AInv'
  <1> DEFINE Rests == UNCHANGED <<setup, chat, open, job, claims>>
  <1>0. CInv /\ RInv /\ WInv /\ setup \in Setups
    BY DEF AInv, CInv
  <1>1. ASSUME UNCHANGED runtimeVars, CInv' PROVE AInv'
    BY <1>0, <1>1, RuntimeRests DEF AInv
  <1>2. ASSUME UNCHANGED runtimeVars, Rests PROVE AInv'
    <2>1. \A j \in Call : call'[j] = call[j]
      BY <1>2 DEF runtimeVars
    <2> QED
      BY <1>0, <1>1, <1>2, <2>1, OtherSteps
  <1>3. ASSUME RuntimeStep, Rests PROVE AInv'
    BY <1>0, <1>3, RuntimeSteps, OtherSteps DEF AInv
  <1>4. CASE UNCHANGED vars
    BY <1>2, <1>4 DEF vars, inferVars, runtimeVars
  <1>5. ASSUME NEW c \in Made, ChatStub(c) \/ Collect(c) \/ Deadline(c) \/ ChatLeft(c) PROVE AInv'
    <2>1. UNCHANGED runtimeVars
      BY <1>5, Zenon DEF ChatStub, Collect, Deadline, ChatLeft
    <2> QED
      BY <1>0, <1>1, <1>5, <2>1, HandlerSteps
  <1>6. ASSUME NEW c \in Made, ChatStart(c) PROVE AInv'
    BY <1>0, <1>6, StartChat DEF AInv
  <1>7. ASSUME NEW c \in Made, Join(c) PROVE AInv'
    <2>1. UNCHANGED runtimeVars
      BY <1>7 DEF Join
    <2> QED
      BY <1>0, <1>1, <1>7, <2>1, JoinStep
  <1>8. ASSUME NEW k \in Call, Receive(k) \/ Busy(k) \/ Respond(k) \/ Finish(k) PROVE AInv'
    <2>1. UNCHANGED runtimeVars
      BY <1>8 DEF Receive, Busy, Respond, Finish
    <2> QED
      BY <1>0, <1>1, <1>8, <2>1, RequestSteps
  <1>9. ASSUME NEW k \in Call, Acquire(k) PROVE AInv'
    BY <1>0, <1>9, AcquireStep DEF AInv
  <1>10. ASSUME NEW k \in Call, Arrive(k) PROVE AInv'
    <2>1. UNCHANGED runtimeVars
      BY <1>10 DEF Arrive
    <2> QED
      BY <1>0, <1>1, <1>10, <2>1, ArriveStep
  <1>11. ASSUME NEW k \in Call, CompleteLocal(k) PROVE AInv'
    <2>1. F!Present(k[2], call[k].model) \in BOOLEAN
      BY DEF F!Present
    <2>2. RuntimeStep /\ Rests
      BY <1>11, <2>1 DEF CompleteLocal, RuntimeStep, inferVars
    <2> QED
      BY <1>3, <2>2
  <1>12. ASSUME NEW u, ChangeFiles(u) \/ UploaderLeaves(u) PROVE AInv'
    BY <1>2, <1>12 DEF ChangeFiles, UploaderLeaves, inferVars
  <1>13. ASSUME NEW n, NEW m, DeleteModel(n, m) PROVE AInv'
    BY <1>2, <1>13 DEF DeleteModel, inferVars
  <1>14. ASSUME NEW n \in Node, NEW p \in Port, ServerComesUp(n, p) \/ ServerCrashes(n, p) PROVE AInv'
    <2>1. RuntimeStep /\ Rests
      BY <1>14 DEF ServerComesUp, ServerCrashes, RuntimeStep, inferVars
    <2> QED
      BY <1>3, <2>1
  <1>15. ASSUME NEW n \in Node, NodeCrashes(n) PROVE AInv'
    BY <1>0, <1>15, CrashStep DEF AInv
  <1>16. CASE Task
    BY <1>5, <1>6, <1>7, <1>8, <1>9, <1>11, <1>12, <1>16 DEF Task
  <1>17. CASE Environment
    <2>1. setup.nodes \subseteq Node
      BY <1>0, SetupsAssumption
    <2> QED
      BY <1>5, <1>8, <1>10, <1>12, <1>13, <1>14, <1>15, <1>17, <2>1, Zenon DEF Environment
  <1> QED
    BY <1>4, <1>16, <1>17 DEF ApiNext, ApiTask, ApiEnvironment, apiVars

LEMMA AlwaysAll == ApiSpec => []AInv
  BY InitAll, StepAll, PTL DEF ApiSpec

\* In the whole API, with chats, requests of peers, uploads and crashes, every
\* llama-server a node started is the child it will kill.
THEOREM ApiServersKept == ApiSpec => []NoOrphan
  <1>1. AInv => NoOrphan
    BY DEF AInv, RInv
  <1> QED
    BY <1>1, AlwaysAll, PTL

\* What record_inference_claim logs is a completion that the claiming node's
\* runtime finished, claimed once, whatever peers answer and nodes crash.
THEOREM ApiClaimsAreWork == ApiSpec => []ClaimsAreWork
  <1>1. ASSUME AInv PROVE ClaimsAreWork
    <2> SUFFICES ASSUME NEW k \in Call, claims[k] > 0
                 PROVE  claims[k] = 1 /\ Enabled(k[2]) /\ Worked(k)
      BY DEF ClaimsAreWork, Worked
    <2>1. claims[k] \in {0, 1} /\ OfClaim(k)
      BY <1>1 DEF AInv, CInv
    <2> QED
      BY <2>1 DEF OfClaim
  <1> QED
    BY <1>1, AlwaysAll, PTL
=============================================================================
