------------------------------- MODULE Runtime -------------------------------
(***************************************************************************)
(* The local runtimes of each node, behind complete_local: callers that    *)
(* want a completion from a model and get it from the long-lived           *)
(* llama-server or from a llama-cli process of their own.                  *)
(*                                                                         *)
(* A caller of the server holds LlamaServer's mutex from the moment it     *)
(* takes it in ensure_ready until the server is ready or has failed; it    *)
(* sends its request to the port it was given after the mutex is released. *)
(***************************************************************************)
EXTENDS Naturals, FiniteSets

CONSTANTS
    Node,
    Call,       \* completions asked for
    CallNode,   \* CallNode[k]: the node that is asked
    Model,
    EPort,      \* ephemeral ports; the operating system may hand out Configured too
    EndsWith    \* pairs of models: the path of the first ends with the name of the second

VARIABLES
    srv,        \* srv[n]: ServerState and the holder of its mutex
    at,         \* at[n][p]: the server process that listens on port p of node n
    call        \* call[k]: how far a caller is

runtimeVars == <<srv, at, call>>

Configured == "configured"  \* the port of the configuration
NoModel == "no model"
Port == EPort \cup {Configured}

ASSUME RuntimeAssumption ==
    /\ NoModel \notin Model
    /\ EndsWith \subseteq Model \X Model
    /\ CallNode \in [Call -> Node]

NoServer == [model |-> NoModel, ready |-> FALSE, own |-> FALSE]
Server(m) == [model |-> m, ready |-> FALSE, own |-> TRUE]

\* new.  lock and child hold at most one element.
Fresh == [lock |-> {}, child |-> {}, model |-> NoModel, port |-> Configured]

\* reply: "none" so far, "error", or the model whose server answered.
\* given: the model at the port once ensure_ready has returned it.
Idle == [at |-> "idle", model |-> NoModel, port |-> Configured, given |-> NoModel,
         reply |-> "none"]

(***************************************************************************)
(* Processes.                                                              *)
(***************************************************************************)
\* health_at
Healthy(n, p) == at[n][p].ready

\* model_matches: the same path, or a path that ends with the name.
ModelMatches(id, m) == id = m \/ <<id, m>> \in EndsWith

\* child.take(), kill, wait.
ChildKilled(n) == [p \in Port |-> IF p \in srv[n].child THEN NoServer ELSE at[n][p]]

\* A request in progress at a process that ends gets an error.
CutOff(n, ports) == [k \in Call |->
    IF call[k].at = "wait" /\ CallNode[k] = n /\ call[k].port \in ports
    THEN [call[k] EXCEPT !.at = "done", !.reply = "error"] ELSE call[k]]

Fails(cs, k) == [cs EXCEPT ![k].at = "done", ![k].reply = "error"]

\* ensure_ready returns port p, with these processes at the node's ports.
Given(cs, k, p, procs) ==
    [cs EXCEPT ![k].at = "post", ![k].port = p, ![k].given = procs[p].model]

(***************************************************************************)
(* LlamaServer: chat and ensure_ready.                                     *)
(***************************************************************************)
\* A caller asks for a completion from m.
Ask(k, m) == [call EXCEPT ![k] = [Idle EXCEPT !.at = "check", !.model = m]]

\* The model file is there, or the call ends.
Check(k, present) ==
    /\ call[k].at = "check"
    /\ call' = IF present THEN [call EXCEPT ![k].at = "lock"] ELSE Fails(call, k)
    /\ UNCHANGED <<srv, at>>

\* Mutant of Running: any model will do.
RunningAny(k) ==
    LET s == srv[CallNode[k]] IN s.child # {} /\ Healthy(CallNode[k], s.port)

Running(k) ==
    LET s == srv[CallNode[k]]
    IN  s.child # {} /\ s.model = call[k].model /\ Healthy(CallNode[k], s.port)

Adoptable(k) ==
    LET n == CallNode[k]
    IN  Healthy(n, Configured) /\ ModelMatches(at[n][Configured].model, call[k].model)

\* The caller holds the mutex for steps 1 to 3.
Enters(k) == call[k].at = "lock" /\ srv[CallNode[k]].lock = {}

\* 1. Already running this model and healthy.
Reuse(k) ==
    /\ Enters(k) /\ Running(k)
    /\ call' = Given(call, k, srv[CallNode[k]].port, at[CallNode[k]])
    /\ UNCHANGED <<srv, at>>

\* Mutant of Adopt: the child is forgotten instead of killed.
AdoptOnly(k) ==
    LET n == CallNode[k]
    IN  /\ Enters(k) /\ ~Running(k) /\ Adoptable(k)
        /\ srv' = [srv EXCEPT ![n].child = {}, ![n].model = call[k].model, ![n].port = Configured]
        /\ call' = Given(call, k, Configured, at[n])
        /\ UNCHANGED at

\* 2. The server on the configured port has the model: adopt it, kill the
\* child.  When the child is that server, the port returned is a dead one.
Adopt(k) ==
    LET n == CallNode[k]
    IN  /\ Enters(k) /\ ~Running(k) /\ Adoptable(k)
        /\ srv' = [srv EXCEPT ![n].child = {}, ![n].model = call[k].model, ![n].port = Configured]
        /\ at' = [at EXCEPT ![n] = ChildKilled(n)]
        /\ call' = Given(CutOff(n, srv[n].child), k, Configured, ChildKilled(n))

\* 3. Start fresh on a free port: kill, then spawn and wait with the mutex.
\* pick_free_port may find the configured one; nobody takes the port between
\* its check and the server's bind.
Start(k) ==
    LET n == CallNode[k]
        killed == ChildKilled(n)
    IN  /\ Enters(k) /\ ~Running(k) /\ ~Adoptable(k)
        /\ \E p \in Port :
            /\ killed[p] = NoServer
            /\ at' = [at EXCEPT ![n] = [killed EXCEPT ![p] = Server(call[k].model)]]
            /\ srv' = [srv EXCEPT ![n] = [lock |-> {k}, child |-> {p}, model |-> NoModel, port |-> p]]
            /\ call' = [CutOff(n, srv[n].child) EXCEPT ![k].at = "load"]

\* The log cannot be opened or the process cannot be started.
StartFails(k) ==
    LET n == CallNode[k]
    IN  /\ Enters(k) /\ ~Running(k) /\ ~Adoptable(k)
        /\ srv' = [srv EXCEPT ![n].child = {}, ![n].model = NoModel]
        /\ at' = [at EXCEPT ![n] = ChildKilled(n)]
        /\ call' = Fails(CutOff(n, srv[n].child), k)

\* The process has exited before it was ready.
LoadExits(k) ==
    LET n == CallNode[k]
    IN  /\ call[k].at = "load"
        /\ at[n][srv[n].port] = NoServer
        /\ srv' = [srv EXCEPT ![n].lock = {}, ![n].child = {}]
        /\ call' = Fails(call, k)
        /\ UNCHANGED at

Loaded(k) ==
    LET n == CallNode[k]
    IN  /\ call[k].at = "load"
        /\ Healthy(n, srv[n].port)
        /\ srv' = [srv EXCEPT ![n].lock = {}, ![n].model = call[k].model]
        /\ call' = Given(call, k, srv[n].port, at[n])
        /\ UNCHANGED at

\* Mutant of LoadTimesOut: the wait has no deadline.
LoadNeverTimesOut(k) == FALSE /\ UNCHANGED runtimeVars

\* 120 s have passed: the process is killed.
LoadTimesOut(k) ==
    LET n == CallNode[k]
    IN  /\ call[k].at = "load"
        /\ at[n][srv[n].port] # NoServer /\ ~Healthy(n, srv[n].port)
        /\ srv' = [srv EXCEPT ![n].lock = {}, ![n].child = {}]
        /\ at' = [at EXCEPT ![n] = ChildKilled(n)]
        /\ call' = Fails(call, k)

\* http_post_json connects to the port, whoever listens there by now.
Post(k) ==
    /\ call[k].at = "post"
    /\ call' = IF Healthy(CallNode[k], call[k].port)
               THEN [call EXCEPT ![k].at = "wait"] ELSE Fails(call, k)
    /\ UNCHANGED <<srv, at>>

Answer(k) ==
    /\ call[k].at = "wait"
    /\ call' = [call EXCEPT ![k].at = "done", ![k].reply = at[CallNode[k]][call[k].port].model]
    /\ UNCHANGED <<srv, at>>

\* The read times out, or the completion is empty.
AnswerFails(k) ==
    /\ call[k].at = "wait"
    /\ call' = Fails(call, k)
    /\ UNCHANGED <<srv, at>>

(***************************************************************************)
(* llama-cli: a process per completion, killed when it takes too long.     *)
(***************************************************************************)
CliStart(k, present) ==
    /\ call[k].at = "check"
    /\ call' = IF present THEN [call EXCEPT ![k].at = "cli"] ELSE Fails(call, k)
    /\ UNCHANGED <<srv, at>>

CliExits(k) ==
    /\ call[k].at = "cli"
    /\ call' = [call EXCEPT ![k].at = "done", ![k].reply = call[k].model]
    /\ UNCHANGED <<srv, at>>

\* It cannot be started, fails, prints nothing, or is killed at the deadline.
CliFails(k) ==
    /\ call[k].at = "cli"
    /\ call' = Fails(call, k)
    /\ UNCHANGED <<srv, at>>

(***************************************************************************)
(* The processes' own steps.                                               *)
(***************************************************************************)
ServerReady(n, p) ==
    /\ at[n][p] # NoServer /\ ~at[n][p].ready
    /\ at' = [at EXCEPT ![n][p].ready = TRUE]
    /\ UNCHANGED <<srv, call>>

ServerExits(n, p) ==
    /\ at[n][p] # NoServer
    /\ at' = [at EXCEPT ![n][p] = NoServer]
    /\ call' = CutOff(n, {p})
    /\ UNCHANGED srv

\* The node is killed without running Drop and started again: the child goes
\* on as a process that the new ServerState does not know, the callers are gone.
\* "own" is about the node process that runs now.
NodeKilled(n) ==
    /\ srv' = [srv EXCEPT ![n] = Fresh]
    /\ at' = [at EXCEPT ![n] = [p \in Port |-> [@[p] EXCEPT !.own = FALSE]]]
    /\ call' = [k \in Call |-> IF call[k].at \notin {"idle", "done"} /\ CallNode[k] = n
                               THEN [call[k] EXCEPT !.at = "done", !.reply = "error"] ELSE call[k]]

RuntimeInit ==
    /\ srv = [n \in Node |-> Fresh]
    /\ at \in [Node -> [Port -> {NoServer} \cup [model : Model, ready : {TRUE}, own : {FALSE}]]]
    /\ \A n \in Node, p \in Port \ {Configured} : at[n][p] = NoServer
    /\ call = [k \in Call |-> Idle]

CallStep(k) ==
    \/ Reuse(k) \/ Adopt(k) \/ Start(k) \/ StartFails(k)
    \/ LoadExits(k) \/ Loaded(k) \/ LoadTimesOut(k)
    \/ Post(k) \/ Answer(k) \/ AnswerFails(k)
    \/ CliExits(k) \/ CliFails(k)

RuntimeNext ==
    \/ \E k \in Call : \/ CallStep(k)
                       \/ \E present \in BOOLEAN : Check(k, present) \/ CliStart(k, present)
                       \/ /\ call[k].at = "idle"
                          /\ \E m \in Model : call' = Ask(k, m)
                          /\ UNCHANGED <<srv, at>>
    \/ \E n \in Node : \/ NodeKilled(n)
                       \/ \E p \in Port : ServerReady(n, p) \/ ServerExits(n, p)

RuntimeSpec == RuntimeInit /\ [][RuntimeNext]_runtimeVars

(***************************************************************************)
(* Properties.                                                             *)
(***************************************************************************)
RuntimeTypeOK ==
    /\ srv \in [Node -> [lock : SUBSET Call, child : SUBSET Port,
                         model : Model \cup {NoModel}, port : Port]]
    /\ at \in [Node -> [Port -> [model : Model \cup {NoModel}, ready : BOOLEAN, own : BOOLEAN]]]
    /\ call \in [Call -> [at : {"idle", "check", "lock", "load", "post", "wait", "cli", "done"},
                          model : Model \cup {NoModel}, port : Port, given : Model \cup {NoModel},
                          reply : Model \cup {NoModel, "none", "error"}]]

\* Every server that the running node started and that still runs is the one
\* it will kill: switching models, adopting and failed loads never leave a
\* second server behind ("instead of double-starting the server").
NoOrphan == \A n \in Node, p \in Port : at[n][p].own => p \in srv[n].child

\* ensure_ready returns the port of a server with the caller's model, unless
\* the path of another model ends with its name and the configured port is
\* taken for that model's; then that model, or nobody, is at the port.
GivenRightModel ==
    \A k \in Call : call[k].at = "post" =>
        \/ call[k].given = call[k].model
        \/ /\ call[k].port = Configured
           /\ \E id \in Model : /\ <<id, call[k].model>> \in EndsWith
                               /\ call[k].given \in {id, NoModel}

\* What the comment of step 2 says of the server that is adopted: "healthy
\* *and* serving this exact model".
GivenExactModel == \A k \in Call : call[k].at = "post" => call[k].given = call[k].model
=============================================================================
