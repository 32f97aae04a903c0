--------------------------- MODULE RuntimeProofs ---------------------------
(***************************************************************************)
(* Every server a node started is one it will kill, and callers are given  *)
(* the port of a server with their model, for any number of callers.       *)
(***************************************************************************)
EXTENDS Runtime, TLAPS

(***************************************************************************)
(* The caller that waits for a server to load holds the mutex and is alone *)
(* in doing so; the server it waits for is the node's child.  Without such *)
(* a caller, the child's model is the one in ServerState.                  *)
(***************************************************************************)
Loading(k) ==
    LET s == srv[CallNode[k]]
        p == at[CallNode[k]][s.port]
    IN  s.lock = {k} /\ s.child = {s.port} /\ (p = NoServer \/ p.model = call[k].model)

Settled(n) ==
    LET p == at[n][srv[n].port]
    IN  srv[n].lock = {} /\ srv[n].child # {} =>
            srv[n].child = {srv[n].port} /\ (p = NoServer \/ p.model = srv[n].model)

RInv ==
    /\ RuntimeTypeOK
    /\ NoOrphan
    /\ GivenRightModel
    /\ \A k \in Call : call[k].at = "load" => Loading(k)
    /\ \A n \in Node : Settled(n)

(***************************************************************************)
(* Types.                                                                  *)
(***************************************************************************)
ModelOrNone == Model \union {NoModel}
SrvType == [lock : SUBSET Call, child : SUBSET Port, model : ModelOrNone, port : Port]
ProcType == [model : ModelOrNone, ready : BOOLEAN, own : BOOLEAN]
CallType == [at : {"idle", "check", "lock", "load", "post", "wait", "cli", "done"},
             model : ModelOrNone, port : Port, given : ModelOrNone,
             reply : Model \union {NoModel, "none", "error"}]

\* The type invariant in terms of the names above.
LEMMA Types ==
    RuntimeTypeOK <=> /\ srv \in [Node -> SrvType]
                      /\ at \in [Node -> [Port -> ProcType]]
                      /\ call \in [Call -> CallType]
  BY DEF RuntimeTypeOK, SrvType, ProcType, CallType, ModelOrNone

\* Killing the child leaves processes.
LEMMA KilledType ==
    ASSUME RuntimeTypeOK, NEW n \in Node
    PROVE  /\ ChildKilled(n) \in [Port -> ProcType]
           /\ \A p \in Port : ChildKilled(n)[p] = IF p \in srv[n].child THEN NoServer ELSE at[n][p]
  <1>1. NoServer \in ProcType
    BY DEF NoServer, ProcType, ModelOrNone
  <1> QED
    BY <1>1, Types DEF ChildKilled

\* Cutting off the requests at some ports ends callers that wait for an answer.
LEMMA CutOffType ==
    ASSUME RuntimeTypeOK, NEW n \in Node, NEW ports
    PROVE  /\ CutOff(n, ports) \in [Call -> CallType]
           /\ \A k \in Call : \/ CutOff(n, ports)[k] = call[k]
                              \/ call[k].at = "wait" /\ CutOff(n, ports)[k].at = "done"
  <1>1. ASSUME NEW k \in Call
        PROVE  /\ [call[k] EXCEPT !.at = "done", !.reply = "error"] \in CallType
               /\ [call[k] EXCEPT !.at = "done", !.reply = "error"].at = "done"
    BY Types, Zenon DEF CallType
  <1> QED
    BY <1>1, Types, Zenon DEF CutOff

Ended(c) == [c EXCEPT !.at = "done", !.reply = "error"]

LEMMA EndedType ==
    ASSUME NEW c \in CallType
    PROVE  Ended(c) \in CallType /\ Ended(c).at = "done"
  BY Zenon DEF Ended, CallType

LEMMA FailsIs ==
    ASSUME NEW cs \in [Call -> CallType], NEW k \in Call
    PROVE  Fails(cs, k) = [cs EXCEPT ![k] = Ended(cs[k])]
  BY Zenon DEF Fails, Ended, CallType

Handed(c, p, m) == [c EXCEPT !.at = "post", !.port = p, !.given = m]

LEMMA HandedType ==
    ASSUME NEW c \in CallType, NEW p \in Port, NEW m \in ModelOrNone
    PROVE  /\ Handed(c, p, m) \in CallType
           /\ Handed(c, p, m).at = "post" /\ Handed(c, p, m).model = c.model
           /\ Handed(c, p, m).port = p /\ Handed(c, p, m).given = m
  BY Zenon DEF Handed, CallType

\* What GivenRightModel says of one caller.
Right(c) ==
    c.at = "post" => \/ c.given = c.model
                     \/ /\ c.port = Configured
                        /\ \E id \in Model : <<id, c.model>> \in EndsWith /\ c.given \in {id, NoModel}

(***************************************************************************)
(* A step of one caller that touches neither the server nor the processes. *)
(***************************************************************************)
LEMMA OneCall ==
    ASSUME RInv, NEW k \in Call, NEW v \in CallType, v.at # "load", Right(v),
           call' = [call EXCEPT ![k] = v], UNCHANGED <<srv, at>>
    PROVE  RInv'
  <1>1. call' \in [Call -> CallType] /\ call'[k] = v /\ \A j \in Call \ {k} : call'[j] = call[j]
    BY Types DEF RInv
  <1>2. RuntimeTypeOK'
    BY <1>1, Types DEF RInv, RuntimeTypeOK, SrvType, ProcType, CallType, ModelOrNone
  <1>3. NoOrphan' /\ \A n \in Node : Settled(n)'
    BY DEF RInv, NoOrphan, Settled
  <1>4. GivenRightModel'
    BY <1>1 DEF RInv, GivenRightModel, Right
  <1>5. \A j \in Call : call'[j].at = "load" => Loading(j)'
    BY <1>1 DEF RInv, Loading
  <1> QED
    BY <1>2, <1>3, <1>4, <1>5 DEF RInv

(***************************************************************************)
(* A step that changes the server and the processes of one node.           *)
(***************************************************************************)
Serves(s, procs, m) == s.child = {s.port} /\ (procs[s.port] = NoServer \/ procs[s.port].model = m)

LEMMA OneNode ==
    ASSUME RInv, NEW n \in Node, NEW s \in SrvType, NEW procs \in [Port -> ProcType],
           srv' = [srv EXCEPT ![n] = s], at' = [at EXCEPT ![n] = procs], call' \in [Call -> CallType],
           \A p \in Port : procs[p].own => p \in s.child,
           \A k \in Call : Right(call'[k]),
           \A k \in Call : call'[k].at = "load" =>
                IF CallNode[k] = n THEN s.lock = {k} /\ Serves(s, procs, call'[k].model)
                ELSE call'[k] = call[k],
           s.lock = {} /\ s.child # {} => Serves(s, procs, s.model)
    PROVE  RInv'
  <1>1. /\ srv' \in [Node -> SrvType] /\ srv'[n] = s /\ \A m \in Node \ {n} : srv'[m] = srv[m]
        /\ at' \in [Node -> [Port -> ProcType]] /\ at'[n] = procs
        /\ \A m \in Node \ {n} : at'[m] = at[m]
    BY Types DEF RInv
  <1>2. RuntimeTypeOK'
    BY <1>1 DEF RuntimeTypeOK, SrvType, ProcType, CallType, ModelOrNone
  <1>3. NoOrphan'
    BY <1>1 DEF RInv, NoOrphan
  <1>4. GivenRightModel'
    BY DEF GivenRightModel, Right
  <1>5. ASSUME NEW k \in Call, call'[k].at = "load" PROVE Loading(k)'
    <2>1. CASE CallNode[k] = n
      BY <1>1, <1>5, <2>1 DEF Loading, Serves
    <2>2. CASE CallNode[k] # n
      <3>1. CallNode[k] \in Node
        BY RuntimeAssumption
      <3>2. Loading(k) /\ call'[k] = call[k]
        BY <1>5, <2>2 DEF RInv
      <3> QED
        BY <1>1, <2>2, <3>1, <3>2 DEF Loading
    <2> QED BY <2>1, <2>2
  <1>6. ASSUME NEW m \in Node PROVE Settled(m)'
    <2>1. CASE m = n
      BY <1>1, <2>1 DEF Settled, Serves
    <2>2. CASE m # n
      BY <1>1, <2>2 DEF RInv, Settled
    <2> QED BY <2>1, <2>2
  <1> QED
    BY <1>2, <1>3, <1>4, <1>5, <1>6 DEF RInv

\* The callers of a node, and what a step of it may assume of them.
LEMMA Facts ==
    ASSUME RInv
    PROVE  /\ srv \in [Node -> SrvType] /\ at \in [Node -> [Port -> ProcType]]
           /\ call \in [Call -> CallType]
           /\ \A k \in Call : CallNode[k] \in Node /\ Right(call[k])
           /\ \A k \in Call : call[k].at = "load" =>
                LET n == CallNode[k] IN srv[n].lock = {k} /\ Serves(srv[n], at[n], call[k].model)
           /\ \A n \in Node : srv[n].lock = {} /\ srv[n].child # {} => Serves(srv[n], at[n], srv[n].model)
           /\ \A n \in Node, p \in Port : at[n][p].own => p \in srv[n].child
           /\ NoServer \in ProcType /\ NoServer.own = FALSE /\ NoServer.ready = FALSE
           /\ Configured \in Port
  <1>1. RuntimeTypeOK /\ NoOrphan /\ GivenRightModel
    BY DEF RInv
  <1>2. \A k \in Call : CallNode[k] \in Node /\ Right(call[k])
    BY <1>1, RuntimeAssumption, Zenon DEF GivenRightModel, Right
  <1>3. NoServer \in ProcType /\ NoServer.own = FALSE /\ NoServer.ready = FALSE
    BY DEF NoServer, ProcType, ModelOrNone
  <1>4. Configured \in Port
    BY DEF Port
  <1>5. \A k \in Call : call[k].at = "load" =>
                LET n == CallNode[k] IN srv[n].lock = {k} /\ Serves(srv[n], at[n], call[k].model)
    BY DEF RInv, Loading, Serves
  <1>6. \A n \in Node : srv[n].lock = {} /\ srv[n].child # {} => Serves(srv[n], at[n], srv[n].model)
    BY DEF RInv, Settled, Serves
  <1> QED
    BY <1>1, <1>2, <1>3, <1>4, <1>5, <1>6, Types DEF NoOrphan

(***************************************************************************)
(* The steps.                                                              *)
(***************************************************************************)
LEMMA CallerSteps ==
    ASSUME RInv, NEW k \in Call,
           \/ \E present \in BOOLEAN : Check(k, present) \/ CliStart(k, present)
           \/ Post(k) \/ Answer(k) \/ AnswerFails(k) \/ CliExits(k) \/ CliFails(k)
    PROVE  RInv'
  <1> DEFINE c == call[k]
  <1>1. c \in CallType
    BY Facts
  <1>2. ASSUME call' = Fails(call, k), UNCHANGED <<srv, at>> PROVE RInv'
    <2>1. Ended(c) \in CallType /\ Ended(c).at = "done"
      BY <1>1, EndedType
    <2>2. call' = [call EXCEPT ![k] = Ended(c)]
      BY <1>2, FailsIs, Facts
    <2>3. Right(Ended(c))
      BY <2>1 DEF Right
    <2> QED
      BY <1>2, <2>1, <2>2, <2>3, OneCall, Zenon
  <1>3. ASSUME NEW a \in {"lock", "wait", "cli"}, call' = [call EXCEPT ![k].at = a], UNCHANGED <<srv, at>>
        PROVE  RInv'
    <2>1. [c EXCEPT !.at = a] \in CallType /\ [c EXCEPT !.at = a].at = a
      BY <1>1 DEF CallType
    <2>2. call' = [call EXCEPT ![k] = [c EXCEPT !.at = a]]
      BY <1>3
    <2> QED
      BY <1>3, <2>1, <2>2, OneCall, Zenon DEF Right
  <1>4. ASSUME NEW m \in ModelOrNone, call' = [call EXCEPT ![k].at = "done", ![k].reply = m],
               UNCHANGED <<srv, at>>
        PROVE  RInv'
    <2> DEFINE v == [c EXCEPT !.at = "done", !.reply = m]
    <2>1. v \in CallType /\ v.at = "done"
      BY <1>1, <1>4, Zenon DEF CallType, ModelOrNone
    <2>2. call' = [call EXCEPT ![k] = v]
      BY <1>4, Facts, Zenon DEF CallType
    <2> HIDE DEF v
    <2> QED
      BY <1>4, <2>1, <2>2, OneCall, Zenon DEF Right
  <1>5. ASSUME NEW present \in BOOLEAN, Check(k, present) \/ CliStart(k, present) PROVE RInv'
    <2>1. UNCHANGED <<srv, at>>
      BY <1>5 DEF Check, CliStart
    <2>2. \/ call' = Fails(call, k)
          \/ call' = [call EXCEPT ![k].at = "lock"]
          \/ call' = [call EXCEPT ![k].at = "cli"]
      BY <1>5 DEF Check, CliStart
    <2> QED
      BY <1>2, <1>3, <2>1, <2>2
  <1>6. CASE Post(k)
    <2>1. UNCHANGED <<srv, at>>
      BY <1>6 DEF Post
    <2>2. call' = Fails(call, k) \/ call' = [call EXCEPT ![k].at = "wait"]
      BY <1>6 DEF Post
    <2> QED
      BY <1>2, <1>3, <2>1, <2>2
  <1>7. CASE Answer(k)
    <2>1. at[CallNode[k]][c.port].model \in ModelOrNone
      BY <1>1, Facts DEF CallType, ProcType
    <2> QED
      BY <1>4, <1>7, <2>1, Zenon DEF Answer
  <1>8. CASE AnswerFails(k) \/ CliFails(k)
    BY <1>2, <1>8 DEF AnswerFails, CliFails
  <1>9. CASE CliExits(k)
    <2>1. c.model \in ModelOrNone
      BY <1>1 DEF CallType
    <2> QED
      BY <1>4, <1>9, <2>1, Zenon DEF CliExits
  <1> QED
    BY <1>5, <1>6, <1>7, <1>8, <1>9

LEMMA AskStep ==
    ASSUME RInv, NEW k \in Call, NEW m \in Model, call' = Ask(k, m), UNCHANGED <<srv, at>>
    PROVE  RInv'
  <1> DEFINE v == [Idle EXCEPT !.at = "check", !.model = m]
  <1>1. v \in CallType /\ v.at = "check"
    BY Zenon DEF Idle, CallType, ModelOrNone, Port
  <1>2. call' = [call EXCEPT ![k] = v]
    BY DEF Ask
  <1> HIDE DEF v
  <1> QED
    BY <1>1, <1>2, OneCall, Zenon DEF Right

LEMMA ReuseStep ==
    ASSUME RInv, NEW k \in Call, Reuse(k)
    PROVE  RInv'
  <1> DEFINE n == CallNode[k]
             p == srv[n].port
             v == Handed(call[k], p, at[n][p].model)
  <1>1. n \in Node /\ p \in Port /\ at[n][p].model \in ModelOrNone /\ call[k] \in CallType
    BY Facts DEF SrvType, ProcType
  <1>2. at[n][p].model = call[k].model
    BY <1>1, Facts, Zenon DEF Reuse, Enters, Running, Healthy, Serves
  <1>3. v \in CallType /\ v.at = "post" /\ Right(v)
    BY <1>1, <1>2, HandedType DEF Right
  <1>4. call' = [call EXCEPT ![k] = v] /\ UNCHANGED <<srv, at>>
    <2>1. call' = Given(call, k, p, at[n]) /\ UNCHANGED <<srv, at>>
      BY DEF Reuse
    <2>2. call \in [Call -> CallType]
      BY Facts
    <2> HIDE DEF p
    <2> QED
      BY <2>1, <2>2, Zenon DEF Given, Handed, CallType
  <1> QED
    BY <1>3, <1>4, OneCall, Zenon

\* A caller that enters finds no other one loading at its node, and cutting off
\* requests changes neither it nor a caller that loads elsewhere.
LEMMA Entering ==
    ASSUME RInv, NEW k \in Call, Enters(k), NEW ports
    PROVE  LET n == CallNode[k]
               cs == CutOff(n, ports)
           IN  /\ n \in Node /\ cs \in [Call -> CallType] /\ cs[k] = call[k]
               /\ \A j \in Call : Right(cs[j])
               /\ \A j \in Call : cs[j].at = "load" => CallNode[j] # n /\ cs[j] = call[j]
  <1> DEFINE n == CallNode[k]
             cs == CutOff(n, ports)
  <1>1. n \in Node /\ call[k].at = "lock" /\ srv[n].lock = {}
    BY Facts DEF Enters
  <1>2. /\ cs \in [Call -> CallType]
        /\ \A j \in Call : cs[j] = call[j] \/ (call[j].at = "wait" /\ cs[j].at = "done")
    BY <1>1, CutOffType DEF RInv
  <1> HIDE DEF cs
  <1>3. \A j \in Call : Right(cs[j])
    BY <1>2, Facts, Zenon DEF Right
  <1>4. \A j \in Call : cs[j].at = "load" => CallNode[j] # n /\ cs[j] = call[j]
    BY <1>1, <1>2, Facts, Zenon
  <1> QED
    BY <1>1, <1>2, <1>3, <1>4 DEF cs

\* Once the child is killed no process of the node is its own.
LEMMA KilledOwn ==
    ASSUME RInv, NEW n \in Node
    PROVE  ChildKilled(n) \in [Port -> ProcType] /\ \A p \in Port : ChildKilled(n)[p].own = FALSE
  <1>1. /\ ChildKilled(n) \in [Port -> ProcType]
        /\ \A p \in Port : ChildKilled(n)[p] = IF p \in srv[n].child THEN NoServer ELSE at[n][p]
    BY KilledType DEF RInv
  <1>2. \A p \in Port : at[n][p].own \in BOOLEAN
    BY Facts DEF ProcType
  <1> QED
    BY <1>1, <1>2, Facts, Zenon

LEMMA AdoptStep ==
    ASSUME RInv, NEW k \in Call, Adopt(k)
    PROVE  RInv'
  <1> DEFINE n == CallNode[k]
             s == [srv[n] EXCEPT !.child = {}, !.model = call[k].model, !.port = Configured]
             cs == CutOff(n, srv[n].child)
             m == ChildKilled(n)[Configured].model
             v == Handed(call[k], Configured, m)
  <1>1. Enters(k) /\ Adoptable(k)
    BY DEF Adopt
  <1>2. /\ n \in Node /\ cs \in [Call -> CallType] /\ cs[k] = call[k]
        /\ \A j \in Call : Right(cs[j])
        /\ \A j \in Call : cs[j].at = "load" => CallNode[j] # n /\ cs[j] = call[j]
    BY <1>1, Entering, Zenon
  <1>3. m \in ModelOrNone /\ call[k] \in CallType /\ call[k].model \in ModelOrNone /\ srv[n] \in SrvType
    <2>1. ChildKilled(n)[Configured] \in ProcType
      BY <1>2, KilledOwn, Facts, Zenon
    <2> QED
      BY <1>2, <2>1, Facts DEF ProcType, CallType
  <1>4. s \in SrvType /\ s.child = {}
    BY <1>3, Facts, Zenon DEF SrvType
  <1>5. srv' = [srv EXCEPT ![n] = s] /\ at' = [at EXCEPT ![n] = ChildKilled(n)]
    BY <1>2, Facts, Zenon DEF Adopt, SrvType
  <1>6. v \in CallType /\ v.at = "post" /\ Right(v)
    <2> DEFINE id == at[n][Configured].model
    <2>1. id = call[k].model \/ <<id, call[k].model>> \in EndsWith
      BY <1>1 DEF Adoptable, ModelMatches
    <2>2. <<id, call[k].model>> \in EndsWith => id \in Model
      BY RuntimeAssumption
    <2>3. \A p \in Port : ChildKilled(n)[p] = IF p \in srv[n].child THEN NoServer ELSE at[n][p]
      BY <1>2, KilledType DEF RInv
    <2>4. ASSUME Configured \in srv[n].child
          PROVE  <<id, call[k].model>> \in EndsWith /\ m = NoModel
      <3>1. srv[n].child = {Configured} /\ srv[n].port = Configured
            /\ (at[n][Configured] = NoServer \/ id = srv[n].model)
        BY <1>1, <1>2, <2>4, Facts DEF Enters, Serves
      <3>2. Healthy(n, Configured) /\ ~Running(k)
        BY <1>1 DEF Adopt, Adoptable
      <3>3. id # call[k].model
        BY <3>1, <3>2, Facts, Zenon DEF Running, Healthy
      <3>4. m = NoModel
        BY <2>3, <2>4, Facts DEF NoServer
      <3> QED
        BY <2>1, <3>3, <3>4
    <2>5. ASSUME Configured \notin srv[n].child PROVE m = id
      BY <2>3, <2>5, Facts
    <2>6. m = call[k].model \/ (<<id, call[k].model>> \in EndsWith /\ m \in {id, NoModel})
      BY <2>1, <2>4, <2>5
    <2> HIDE DEF m, id
    <2>7. /\ v \in CallType /\ v.at = "post" /\ v.model = call[k].model
          /\ v.port = Configured /\ v.given = m
      BY <1>3, HandedType DEF Port
    <2> HIDE DEF v
    <2> QED
      BY <2>2, <2>6, <2>7 DEF Right
  <1>7. call' = [cs EXCEPT ![k] = v]
    <2>1. call' = Given(cs, k, Configured, ChildKilled(n))
      BY DEF Adopt
    <2> HIDE DEF cs
    <2>2. Given(cs, k, Configured, ChildKilled(n)) = [cs EXCEPT ![k] = Handed(cs[k], Configured, m)]
      BY <1>2, Zenon DEF Given, Handed, CallType
    <2> QED
      BY <1>2, <2>1, <2>2
  <1>8. /\ call' \in [Call -> CallType]
        /\ \A j \in Call : Right(call'[j])
        /\ \A j \in Call : call'[j].at = "load" => CallNode[j] # n /\ call'[j] = call[j]
    <2> HIDE DEF cs, v
    <2> QED BY <1>2, <1>6, <1>7
  <1>9. ChildKilled(n) \in [Port -> ProcType] /\ \A p \in Port : ChildKilled(n)[p].own = FALSE
    BY <1>2, KilledOwn, Zenon
  <1> HIDE DEF s, n
  <1> QED
    BY <1>2, <1>4, <1>5, <1>8, <1>9, OneNode, Zenon

LEMMA StartStep ==
    ASSUME RInv, NEW k \in Call, Start(k)
    PROVE  RInv'
  <1> DEFINE n == CallNode[k]
             cs == CutOff(n, srv[n].child)
             m == call[k].model
             v == [call[k] EXCEPT !.at = "load"]
             killed == ChildKilled(n)
  <1>1. Enters(k)
    BY DEF Start
  <1>2. /\ n \in Node /\ cs \in [Call -> CallType] /\ cs[k] = call[k]
        /\ \A j \in Call : Right(cs[j])
        /\ \A j \in Call : cs[j].at = "load" => CallNode[j] # n /\ cs[j] = call[j]
    BY <1>1, Entering, Zenon
  <1>3. killed \in [Port -> ProcType] /\ \A p \in Port : killed[p].own = FALSE
    BY <1>2, KilledOwn, Zenon
  <1> HIDE DEF killed, cs
  <1>4. PICK p \in Port :
            /\ at' = [at EXCEPT ![n] = [killed EXCEPT ![p] = Server(m)]]
            /\ srv' = [srv EXCEPT ![n] = [lock |-> {k}, child |-> {p}, model |-> NoModel, port |-> p]]
            /\ call' = [cs EXCEPT ![k].at = "load"]
    BY Zenon DEF Start, killed, cs
  <1> DEFINE s == [lock |-> {k}, child |-> {p}, model |-> NoModel, port |-> p]
             procs == [killed EXCEPT ![p] = Server(m)]
  <1>5. p \in Port /\ m \in ModelOrNone /\ call[k] \in CallType
    BY Facts DEF CallType
  <1>6. s \in SrvType /\ s.lock = {k} /\ s.child = {p} /\ s.port = p
    BY <1>5 DEF SrvType, ModelOrNone
  <1>7. Server(m) \in ProcType /\ Server(m).model = m
    BY <1>5 DEF Server, ProcType
  <1>8. /\ procs \in [Port -> ProcType] /\ procs[p].model = m
        /\ \A q \in Port : procs[q].own => q = p
    BY <1>3, <1>5, <1>7
  <1>9. v \in CallType /\ v.at = "load" /\ v.model = m /\ Right(v)
    BY <1>5 DEF CallType, Right
  <1>10. call' = [cs EXCEPT ![k] = v]
    BY <1>2, <1>4
  <1>11. /\ call' \in [Call -> CallType]
         /\ \A j \in Call : Right(call'[j])
         /\ \A j \in Call : call'[j].at = "load" =>
                IF CallNode[j] = n THEN j = k /\ call'[j].model = m ELSE call'[j] = call[j]
    <2> HIDE DEF v, m
    <2> QED BY <1>2, <1>9, <1>10
  <1>12. Serves(s, procs, m)
    BY <1>6, <1>8 DEF Serves
  <1>13. \A j \in Call : call'[j].at = "load" =>
            IF CallNode[j] = n THEN s.lock = {j} /\ Serves(s, procs, call'[j].model)
            ELSE call'[j] = call[j]
    <2> HIDE DEF procs, m
    <2> QED BY <1>6, <1>11, <1>12
  <1>14. srv' = [srv EXCEPT ![n] = s] /\ at' = [at EXCEPT ![n] = procs]
    BY <1>4
  <1>15. \A q \in Port : procs[q].own => q \in s.child
    <2> HIDE DEF procs
    <2> QED BY <1>6, <1>8
  <1>16. s.lock = {} /\ s.child # {} => Serves(s, procs, s.model)
    BY <1>6
  <1>17. call' \in [Call -> CallType] /\ \A j \in Call : Right(call'[j])
    BY <1>11
  <1>18. n \in Node /\ s \in SrvType /\ procs \in [Port -> ProcType]
    BY <1>2, <1>6, <1>8
  <1> HIDE DEF s, procs, n
  <1> QED
    BY <1>13, <1>14, <1>15, <1>16, <1>17, <1>18, OneNode, Zenon

\* A step that leaves the node without a child: no process of it is its own,
\* no caller of it loads, and callers at other nodes are as they were.
LEMMA ChildGone ==
    ASSUME RInv, NEW n \in Node, NEW s \in SrvType, s.child = {}, NEW procs \in [Port -> ProcType],
           srv' = [srv EXCEPT ![n] = s], at' = [at EXCEPT ![n] = procs], call' \in [Call -> CallType],
           \A p \in Port : procs[p].own = FALSE,
           \A k \in Call : Right(call'[k]),
           \A k \in Call : call'[k].at = "load" => CallNode[k] # n /\ call'[k] = call[k]
    PROVE  RInv'
  BY OneNode, Zenon

LEMMA StartFailsStep ==
    ASSUME RInv, NEW k \in Call, StartFails(k)
    PROVE  RInv'
  <1> DEFINE n == CallNode[k]
             s == [srv[n] EXCEPT !.child = {}, !.model = NoModel]
             cs == CutOff(n, srv[n].child)
  <1>0. Enters(k)
    BY Zenon DEF StartFails
  <1>1. /\ n \in Node /\ cs \in [Call -> CallType] /\ cs[k] = call[k]
        /\ \A j \in Call : Right(cs[j])
        /\ \A j \in Call : cs[j].at = "load" => CallNode[j] # n /\ cs[j] = call[j]
    BY <1>0, Entering, Zenon
  <1>2. ChildKilled(n) \in [Port -> ProcType] /\ \A p \in Port : ChildKilled(n)[p].own = FALSE
    BY <1>1, KilledOwn, Zenon
  <1>3. srv' = [srv EXCEPT ![n] = s] /\ at' = [at EXCEPT ![n] = ChildKilled(n)]
    BY <1>1, Facts, Zenon DEF StartFails, SrvType
  <1>4. s \in SrvType /\ s.child = {}
    BY <1>1, Facts, Zenon DEF SrvType, ModelOrNone
  <1>5. call' = Fails(cs, k)
    BY DEF StartFails
  <1> HIDE DEF cs
  <1>6. call' = [cs EXCEPT ![k] = Ended(cs[k])]
    BY <1>1, <1>5, FailsIs
  <1>7. Ended(cs[k]) \in CallType /\ Ended(cs[k]).at = "done"
    BY <1>1, EndedType
  <1>8. /\ call' \in [Call -> CallType]
        /\ \A j \in Call : Right(call'[j])
        /\ \A j \in Call : call'[j].at = "load" => CallNode[j] # n /\ call'[j] = call[j]
    BY <1>1, <1>6, <1>7, Zenon DEF Right
  <1> HIDE DEF s, n
  <1> QED
    BY <1>1, <1>2, <1>3, <1>4, <1>8, ChildGone, Zenon

\* What holds while caller k loads: it is the only one at its node.
LEMMA WhileLoading ==
    ASSUME RInv, NEW k \in Call, call[k].at = "load"
    PROVE  LET n == CallNode[k]
           IN  /\ n \in Node /\ srv[n] \in SrvType /\ srv[n].lock = {k}
               /\ Serves(srv[n], at[n], call[k].model)
               /\ \A j \in Call \ {k} : call[j].at = "load" => CallNode[j] # n
  BY Facts, Zenon

\* The load ends without a server.
LEMMA LoadEnds ==
    ASSUME RInv, NEW k \in Call, call[k].at = "load",
           srv' = [srv EXCEPT ![CallNode[k]].lock = {}, ![CallNode[k]].child = {}],
           NEW procs \in [Port -> ProcType], at' = [at EXCEPT ![CallNode[k]] = procs],
           \A p \in Port : procs[p].own = FALSE,
           call' = Fails(call, k)
    PROVE  RInv'
  <1> DEFINE n == CallNode[k]
             s == [srv[n] EXCEPT !.lock = {}, !.child = {}]
  <1>1. /\ n \in Node /\ srv[n] \in SrvType
        /\ \A j \in Call \ {k} : call[j].at = "load" => CallNode[j] # n
    BY WhileLoading
  <1>2. s \in SrvType /\ s.child = {}
    BY <1>1, Zenon DEF SrvType
  <1>3. srv' = [srv EXCEPT ![n] = s]
    BY <1>1, Facts, Zenon DEF SrvType
  <1>4. call' = [call EXCEPT ![k] = Ended(call[k])]
    BY FailsIs, Facts
  <1>5. Ended(call[k]) \in CallType /\ Ended(call[k]).at = "done"
    BY EndedType, Facts
  <1>6. call' \in [Call -> CallType] /\ \A j \in Call : Right(call'[j])
    BY <1>4, <1>5, Facts, Zenon DEF Right
  <1>7. \A j \in Call : call'[j].at = "load" => CallNode[j] # n /\ call'[j] = call[j]
    BY <1>1, <1>4, <1>5, Facts
  <1> HIDE DEF s
  <1> QED
    BY <1>1, <1>2, <1>3, <1>6, <1>7, ChildGone, Zenon

LEMMA LoadExitsStep ==
    ASSUME RInv, NEW k \in Call, LoadExits(k)
    PROVE  RInv'
  <1> DEFINE n == CallNode[k]
  <1>1. n \in Node /\ call[k].at = "load" /\ srv[n].child = {srv[n].port}
    BY WhileLoading DEF LoadExits, Serves
  <1>2. at[n][srv[n].port] = NoServer
    BY DEF LoadExits
  <1>3. at[n] \in [Port -> ProcType] /\ \A p \in Port : at[n][p].own \in BOOLEAN
    BY <1>1, Facts DEF ProcType
  <1>4. \A p \in Port : at[n][p].own = FALSE
    BY <1>1, <1>2, <1>3, Facts, Zenon
  <1>5. at' = [at EXCEPT ![n] = at[n]]
    BY <1>1, Facts DEF LoadExits
  <1>6. call' = Fails(call, k) /\ srv' = [srv EXCEPT ![n].lock = {}, ![n].child = {}]
    BY DEF LoadExits
  <1> QED
    BY <1>1, <1>3, <1>4, <1>5, <1>6, LoadEnds, Zenon

LEMMA LoadTimesOutStep ==
    ASSUME RInv, NEW k \in Call, LoadTimesOut(k)
    PROVE  RInv'
  <1> DEFINE n == CallNode[k]
  <1>1. n \in Node /\ call[k].at = "load"
    BY Facts DEF LoadTimesOut
  <1>2. ChildKilled(n) \in [Port -> ProcType] /\ \A p \in Port : ChildKilled(n)[p].own = FALSE
    BY <1>1, KilledOwn, Zenon
  <1>3. /\ at' = [at EXCEPT ![n] = ChildKilled(n)] /\ call' = Fails(call, k)
        /\ srv' = [srv EXCEPT ![n].lock = {}, ![n].child = {}]
    BY DEF LoadTimesOut
  <1> QED
    BY <1>1, <1>2, <1>3, LoadEnds, Zenon

LEMMA LoadedStep ==
    ASSUME RInv, NEW k \in Call, Loaded(k)
    PROVE  RInv'
  <1> DEFINE n == CallNode[k]
             p == srv[n].port
             m == at[n][p].model
             s == [srv[n] EXCEPT !.lock = {}, !.model = call[k].model]
             v == Handed(call[k], p, m)
  <1>1. /\ n \in Node /\ srv[n] \in SrvType /\ Serves(srv[n], at[n], call[k].model)
        /\ \A j \in Call \ {k} : call[j].at = "load" => CallNode[j] # n
    BY WhileLoading DEF Loaded
  <1>2. /\ p \in Port /\ m \in ModelOrNone /\ call[k] \in CallType
        /\ call[k].model \in ModelOrNone /\ at[n] \in [Port -> ProcType]
    BY <1>1, Facts DEF SrvType, ProcType, CallType
  <1>3. m = call[k].model
    BY <1>1, Facts, Zenon DEF Loaded, Healthy, Serves
  <1>4. v \in CallType /\ v.at = "post" /\ Right(v)
    <2> HIDE DEF m, p
    <2> QED BY <1>2, <1>3, HandedType DEF Right
  <1>5. call' = [call EXCEPT ![k] = v]
    <2>1. call' = Given(call, k, p, at[n])
      BY DEF Loaded
    <2> HIDE DEF p
    <2> QED BY <2>1, Facts, Zenon DEF Given, Handed, CallType
  <1>6. s \in SrvType /\ s.child = srv[n].child /\ s.port = p /\ s.model = call[k].model
    BY <1>1, <1>2, Zenon DEF SrvType
  <1>7. srv' = [srv EXCEPT ![n] = s] /\ at' = [at EXCEPT ![n] = at[n]]
    BY <1>1, Facts, Zenon DEF Loaded, SrvType
  <1> HIDE DEF v, s
  <1>8. Serves(s, at[n], s.model)
    BY <1>1, <1>6 DEF Serves
  <1>9. \A q \in Port : at[n][q].own => q \in s.child
    BY <1>1, <1>6, Facts
  <1>10. call' \in [Call -> CallType] /\ \A j \in Call : Right(call'[j])
    BY <1>4, <1>5, Facts
  <1>11. \A j \in Call : call'[j].at = "load" => CallNode[j] # n /\ call'[j] = call[j]
    BY <1>1, <1>4, <1>5, Facts
  <1>12. \A j \in Call : call'[j].at = "load" =>
            IF CallNode[j] = n THEN s.lock = {j} /\ Serves(s, at[n], call'[j].model)
            ELSE call'[j] = call[j]
    BY <1>11, Zenon
  <1>13. n \in Node /\ at[n] \in [Port -> ProcType] /\ s \in SrvType
    BY <1>1, <1>2, <1>6
  <1> HIDE DEF n, p, m
  <1> QED
    BY <1>7, <1>8, <1>9, <1>10, <1>12, <1>13, OneNode, Zenon

\* A step of a node's processes that may end callers, never moves one.
LEMMA ProcessStep ==
    ASSUME RInv, NEW n \in Node, NEW procs \in [Port -> ProcType],
           UNCHANGED srv, at' = [at EXCEPT ![n] = procs], call' \in [Call -> CallType],
           \A k \in Call : call'[k] = call[k] \/ call'[k].at = "done",
           \A p \in Port : procs[p].own => at[n][p].own,
           \A p \in Port : \/ procs[p] = at[n][p] \/ procs[p] = NoServer
                           \/ at[n][p] # NoServer /\ procs[p].model = at[n][p].model
    PROVE  RInv'
  <1>1. /\ at' \in [Node -> [Port -> ProcType]] /\ srv \in [Node -> SrvType]
        /\ at'[n] = procs /\ \A m \in Node \ {n} : at'[m] = at[m]
    BY Facts
  <1>2. \A m \in Node, p \in Port :
            /\ at'[m][p].own => at[m][p].own
            /\ \/ at'[m][p] = at[m][p] \/ at'[m][p] = NoServer
               \/ at[m][p] # NoServer /\ at'[m][p].model = at[m][p].model
    BY <1>1
  <1>3. \A m \in Node : srv[m].port \in Port
    BY <1>1 DEF SrvType
  <1>4. RuntimeTypeOK'
    BY <1>1 DEF RuntimeTypeOK, SrvType, ProcType, CallType, ModelOrNone
  <1>5. NoOrphan'
    BY <1>2 DEF RInv, NoOrphan
  <1>6. GivenRightModel'
    BY Zenon DEF RInv, GivenRightModel
  <1>7. ASSUME NEW k \in Call, call'[k].at = "load" PROVE Loading(k)'
    <2>1. call'[k] = call[k] /\ CallNode[k] \in Node /\ Loading(k)
      BY <1>7, RuntimeAssumption DEF RInv
    <2> QED
      BY <1>2, <1>3, <2>1 DEF Loading
  <1>8. ASSUME NEW m \in Node PROVE Settled(m)'
    <2>1. Settled(m) /\ srv[m].port \in Port
      BY <1>3 DEF RInv
    <2> QED
      BY <1>2, <2>1 DEF Settled
  <1> QED
    BY <1>4, <1>5, <1>6, <1>7, <1>8 DEF RInv

LEMMA ServerSteps ==
    ASSUME RInv, NEW n \in Node, NEW p \in Port, ServerReady(n, p) \/ ServerExits(n, p)
    PROVE  RInv'
  <1> DEFINE ready == [at[n][p] EXCEPT !.ready = TRUE]
  <1>1. at[n] \in [Port -> ProcType] /\ at[n][p] \in ProcType /\ at[n][p] # NoServer
    BY Facts DEF ServerReady, ServerExits
  <1>2. CASE ServerReady(n, p)
    <2> DEFINE procs == [at[n] EXCEPT ![p] = ready]
    <2>1. ready \in ProcType /\ ready.model = at[n][p].model /\ ready.own = at[n][p].own
      BY <1>1, Zenon DEF ProcType
    <2>2. at' = [at EXCEPT ![n] = procs] /\ UNCHANGED <<srv, call>>
      BY <1>1, <1>2, Facts DEF ServerReady, ProcType
    <2> HIDE DEF ready
    <2>3. /\ procs \in [Port -> ProcType]
          /\ \A q \in Port : procs[q].own => at[n][q].own
          /\ \A q \in Port : \/ procs[q] = at[n][q] \/ procs[q] = NoServer
                             \/ at[n][q] # NoServer /\ procs[q].model = at[n][q].model
      BY <1>1, <2>1
    <2> HIDE DEF procs
    <2> QED
      BY <2>2, <2>3, Facts, ProcessStep, Zenon
  <1>3. CASE ServerExits(n, p)
    <2> DEFINE procs == [at[n] EXCEPT ![p] = NoServer]
    <2>1. at' = [at EXCEPT ![n] = procs] /\ UNCHANGED srv /\ call' = CutOff(n, {p})
      BY <1>1, <1>3, Facts DEF ServerExits
    <2>2. call' \in [Call -> CallType] /\ \A k \in Call : call'[k] = call[k] \/ call'[k].at = "done"
      BY <2>1, CutOffType DEF RInv
    <2>3. /\ procs \in [Port -> ProcType]
          /\ \A q \in Port : procs[q].own => at[n][q].own
          /\ \A q \in Port : \/ procs[q] = at[n][q] \/ procs[q] = NoServer
                             \/ at[n][q] # NoServer /\ procs[q].model = at[n][q].model
      BY <1>1, Facts, Zenon
    <2> HIDE DEF procs
    <2> QED
      BY <2>1, <2>2, <2>3, ProcessStep, Zenon
  <1> QED BY <1>2, <1>3

LEMMA NodeKilledStep ==
    ASSUME RInv, NEW n \in Node, NodeKilled(n)
    PROVE  RInv'
  <1> DEFINE left(p) == [at[n][p] EXCEPT !.own = FALSE]
             procs == [p \in Port |-> left(p)]
  <1>1. Fresh \in SrvType /\ Fresh.child = {}
    BY DEF Fresh, SrvType, ModelOrNone, Port
  <1>2. ASSUME NEW p \in Port PROVE left(p) \in ProcType /\ left(p).own = FALSE
    <2>1. at[n][p] \in ProcType
      BY Facts
    <2> QED
      BY <2>1, Zenon DEF ProcType
  <1>3. procs \in [Port -> ProcType] /\ \A p \in Port : procs[p].own = FALSE
    BY <1>2, Zenon
  <1>4. srv' = [srv EXCEPT ![n] = Fresh] /\ at' = [at EXCEPT ![n] = procs]
    BY Facts, Zenon DEF NodeKilled
  <1>5. \A k \in Call : Ended(call[k]) \in CallType /\ Ended(call[k]).at = "done"
    BY EndedType, Facts
  <1>6. call' = [k \in Call |-> IF call[k].at \notin {"idle", "done"} /\ CallNode[k] = n
                                THEN Ended(call[k]) ELSE call[k]]
    BY Zenon DEF NodeKilled, Ended
  <1>7. call' \in [Call -> CallType] /\ \A k \in Call : Right(call'[k])
    BY <1>5, <1>6, Facts, Zenon DEF Right
  <1>8. \A k \in Call : call'[k].at = "load" => CallNode[k] # n /\ call'[k] = call[k]
    BY <1>5, <1>6
  <1> HIDE DEF procs
  <1> QED
    BY <1>1, <1>3, <1>4, <1>7, <1>8, ChildGone, Zenon

LEMMA InitInv ==
    ASSUME RuntimeInit
    PROVE  RInv
  <1>1. Fresh \in SrvType /\ Fresh.child = {}
    BY DEF Fresh, SrvType, ModelOrNone, Port
  <1>2. Idle \in CallType /\ Idle.at = "idle"
    BY DEF Idle, CallType, ModelOrNone, Port
  <1>3. NoServer \in ProcType /\ NoServer.own = FALSE
    BY DEF NoServer, ProcType, ModelOrNone
  <1>4. \A q \in [model : Model, ready : {TRUE}, own : {FALSE}] : q \in ProcType /\ q.own = FALSE
    BY Zenon DEF ProcType, ModelOrNone
  <1>5. at \in [Node -> [Port -> ProcType]] /\ \A n \in Node, p \in Port : at[n][p].own = FALSE
    BY <1>3, <1>4, Zenon DEF RuntimeInit
  <1>6. RuntimeTypeOK
    BY <1>1, <1>2, <1>5, Types DEF RuntimeInit
  <1>7. NoOrphan /\ GivenRightModel /\ \A k \in Call : call[k].at # "load"
    BY <1>2, <1>5 DEF RuntimeInit, NoOrphan, GivenRightModel
  <1>8. \A n \in Node : Settled(n)
    BY <1>1 DEF RuntimeInit, Settled
  <1> QED
    BY <1>6, <1>7, <1>8 DEF RInv

LEMMA StepInv ==
    ASSUME RInv, [RuntimeNext]_runtimeVars
    PROVE  RInv'
  <1>1. CASE UNCHANGED runtimeVars
    BY <1>1, Zenon DEF runtimeVars, RInv, RuntimeTypeOK, NoOrphan, GivenRightModel, Loading, Settled
  <1>2. ASSUME NEW k \in Call, CallStep(k) PROVE RInv'
    BY <1>2, CallerSteps, ReuseStep, AdoptStep, StartStep, StartFailsStep, LoadExitsStep,
       LoadedStep, LoadTimesOutStep DEF CallStep
  <1>3. ASSUME NEW k \in Call, NEW present \in BOOLEAN, Check(k, present) \/ CliStart(k, present)
        PROVE  RInv'
    BY <1>3, CallerSteps
  <1>4. ASSUME NEW k \in Call, NEW m \in Model, call' = Ask(k, m), UNCHANGED <<srv, at>>
        PROVE  RInv'
    BY <1>4, AskStep
  <1>5. ASSUME NEW n \in Node, NodeKilled(n) PROVE RInv'
    BY <1>5, NodeKilledStep
  <1>6. ASSUME NEW n \in Node, NEW p \in Port, ServerReady(n, p) \/ ServerExits(n, p) PROVE RInv'
    BY <1>6, ServerSteps
  <1> QED
    BY <1>1, <1>2, <1>3, <1>4, <1>5, <1>6 DEF RuntimeNext

(***************************************************************************)
(* A completion that has ended has the reply of a model or an error.  For  *)
(* that, a process in which a caller waits for its answer is there.        *)
(***************************************************************************)
Real(q) == q = NoServer \/ q.model \in Model

Good(c, procs) ==
    /\ c.at # "idle" => c.model \in Model
    /\ c.at = "wait" => procs[c.port].ready
    /\ c.at = "done" => c.reply \in Model \union {"error"}

WInv ==
    /\ \A k \in Call : Good(call[k], at[CallNode[k]])
    /\ \A n \in Node, p \in Port : Real(at[n][p])

LEMMA GoodEnded ==
    ASSUME NEW c \in CallType, c.at # "idle", NEW procs, Good(c, procs), NEW later
    PROVE  Good(Ended(c), later)
  BY DEF CallType, Good, Ended

LEMMA GoodHanded ==
    ASSUME NEW c \in CallType, c.model \in Model, NEW p \in Port, NEW m \in ModelOrNone, NEW procs
    PROVE  Good(Handed(c, p, m), procs)
  BY HandedType DEF Good

\* The processes of node n become procs and the requests at some of its ports
\* are cut off, while the others' processes stay ready.
LEMMA CutOffGood ==
    ASSUME RInv, WInv, NEW n \in Node, NEW ports, NEW procs \in [Port -> ProcType],
           \A p \in Port : at[n][p].ready => p \in ports \/ procs[p].ready,
           at' = [at EXCEPT ![n] = procs]
    PROVE  \A k \in Call : Good(CutOff(n, ports)[k], at'[CallNode[k]])
  <1> SUFFICES ASSUME NEW k \in Call
               PROVE  Good(CutOff(n, ports)[k], at'[CallNode[k]])
    OBVIOUS
  <1>1. /\ CallNode[k] \in Node /\ call[k] \in CallType /\ call[k].port \in Port
        /\ at \in [Node -> [Port -> ProcType]]
    BY Facts DEF CallType
  <1>2. Good(call[k], at[CallNode[k]])
    BY DEF WInv
  <1>3. CASE call[k].at = "wait" /\ CallNode[k] = n /\ call[k].port \in ports
    <2>1. CutOff(n, ports)[k] = Ended(call[k])
      BY <1>3 DEF CutOff, Ended
    <2> QED
      BY <1>1, <1>2, <1>3, <2>1, GoodEnded
  <1>4. CASE ~(call[k].at = "wait" /\ CallNode[k] = n /\ call[k].port \in ports)
    <2>1. CutOff(n, ports)[k] = call[k]
      BY <1>4 DEF CutOff
    <2>2. CASE CallNode[k] = n
      BY <1>1, <1>2, <1>4, <2>1, <2>2 DEF Good
    <2>3. CASE CallNode[k] # n
      BY <1>1, <1>2, <2>1, <2>3
    <2> QED BY <2>2, <2>3
  <1> QED BY <1>3, <1>4

\* One caller moves, the processes stay.
LEMMA OneGood ==
    ASSUME RInv, WInv, NEW k \in Call, NEW v, Good(v, at[CallNode[k]]),
           call' = [call EXCEPT ![k] = v], UNCHANGED at
    PROVE  WInv'
  BY Facts DEF WInv

LEMMA OneEnds ==
    ASSUME RInv, WInv, NEW k \in Call, call[k].at # "idle", call' = Fails(call, k), UNCHANGED at
    PROVE  WInv'
  <1>1. call' = [call EXCEPT ![k] = Ended(call[k])] /\ call[k] \in CallType
    BY FailsIs, Facts
  <1>2. Good(Ended(call[k]), at[CallNode[k]])
    BY <1>1, GoodEnded DEF WInv
  <1> QED
    BY <1>1, <1>2, OneGood, Zenon

LEMMA CallerGood ==
    ASSUME RInv, WInv, NEW k \in Call,
           \/ \E present \in BOOLEAN : Check(k, present) \/ CliStart(k, present)
           \/ Post(k) \/ Answer(k) \/ AnswerFails(k) \/ CliExits(k) \/ CliFails(k)
           \/ LoadExits(k) \/ Reuse(k) \/ Loaded(k)
    PROVE  WInv'
  <1> DEFINE c == call[k]
             n == CallNode[k]
  <1>1. c \in CallType /\ n \in Node /\ c.port \in Port /\ at[n] \in [Port -> ProcType] /\ srv[n].port \in Port
    BY Facts DEF CallType, SrvType
  <1>2. c.at # "idle" /\ UNCHANGED at
    BY DEF Check, CliStart, Post, Answer, AnswerFails, CliExits, CliFails, LoadExits, Reuse, Loaded, Enters
  <1>3. c.model \in Model /\ Good(c, at[n])
    BY <1>2 DEF WInv, Good
  <1>4. ASSUME NEW a \in {"lock", "wait", "cli"}, call' = [call EXCEPT ![k].at = a],
               a = "wait" => at[n][c.port].ready
        PROVE  WInv'
    <2> DEFINE v == [c EXCEPT !.at = a]
    <2>1. v.at = a /\ v.model = c.model /\ v.port = c.port
      BY <1>1 DEF CallType
    <2>2. call' = [call EXCEPT ![k] = v]
      BY <1>4
    <2> HIDE DEF v
    <2>3. Good(v, at[n])
      BY <1>3, <1>4, <2>1 DEF Good
    <2> QED
      BY <1>2, <2>2, <2>3, OneGood, Zenon
  <1>5. ASSUME NEW m \in Model, call' = [call EXCEPT ![k].at = "done", ![k].reply = m]
        PROVE  WInv'
    <2> DEFINE v == [c EXCEPT !.at = "done", !.reply = m]
    <2>1. v.at = "done" /\ v.model = c.model /\ v.reply = m
      BY <1>1 DEF CallType
    <2>2. call' = [call EXCEPT ![k] = v]
      BY <1>5, Facts, Zenon DEF CallType
    <2> HIDE DEF v
    <2>3. Good(v, at[n])
      BY <1>3, <2>1 DEF Good
    <2> QED
      BY <1>2, <2>2, <2>3, OneGood, Zenon
  <1>6. ASSUME NEW p \in Port, call' = Given(call, k, p, at[n]) PROVE WInv'
    <2>1. at[n][p].model \in ModelOrNone
      BY <1>1 DEF ProcType
    <2>2. Good(Handed(c, p, at[n][p].model), at[n])
      BY <1>1, <1>3, <2>1, GoodHanded
    <2>3. call' = [call EXCEPT ![k] = Handed(c, p, at[n][p].model)]
      BY <1>6, Facts, Zenon DEF Given, Handed, CallType
    <2> QED
      BY <1>2, <2>2, <2>3, OneGood, Zenon
  <1>7. ASSUME NEW present \in BOOLEAN, Check(k, present) \/ CliStart(k, present) PROVE WInv'
    <2>1. \/ call' = Fails(call, k)
          \/ call' = [call EXCEPT ![k].at = "lock"]
          \/ call' = [call EXCEPT ![k].at = "cli"]
      BY <1>7 DEF Check, CliStart
    <2> QED
      BY <1>2, <1>4, <2>1, OneEnds
  <1>8. CASE Post(k)
    BY <1>2, <1>4, <1>8, OneEnds DEF Post, Healthy
  <1>9. CASE Answer(k)
    <2>1. at[n][c.port].ready /\ Real(at[n][c.port])
      BY <1>1, <1>3, <1>9 DEF Answer, Good, WInv
    <2>2. at[n][c.port].model \in Model
      BY <2>1 DEF Real, NoServer
    <2> QED
      BY <1>5, <1>9, <2>2, Zenon DEF Answer
  <1>10. CASE AnswerFails(k) \/ CliFails(k) \/ LoadExits(k)
    BY <1>2, <1>10, OneEnds DEF AnswerFails, CliFails, LoadExits
  <1>11. CASE CliExits(k)
    BY <1>3, <1>5, <1>11, Zenon DEF CliExits
  <1>12. CASE Reuse(k) \/ Loaded(k)
    BY <1>1, <1>6, <1>12 DEF Reuse, Loaded
  <1> QED
    BY <1>7, <1>8, <1>9, <1>10, <1>11, <1>12

LEMMA AskGood ==
    ASSUME RInv, WInv, NEW k \in Call, NEW m \in Model, call' = Ask(k, m), UNCHANGED at
    PROVE  WInv'
  <1> DEFINE v == [Idle EXCEPT !.at = "check", !.model = m]
  <1>1. v.at = "check" /\ v.model = m
    BY DEF Idle
  <1>2. call' = [call EXCEPT ![k] = v]
    BY DEF Ask
  <1> HIDE DEF v
  <1> QED
    BY <1>1, <1>2, OneGood, Zenon DEF Good

\* The child is killed, and a server for m may take its place at a free port.
LEMMA KilledGood ==
    ASSUME RInv, WInv, NEW n \in Node
    PROVE  /\ ChildKilled(n) \in [Port -> ProcType]
           /\ \A p \in Port : Real(ChildKilled(n)[p])
           /\ \A p \in Port : at[n][p].ready => p \in srv[n].child \/ ChildKilled(n)[p].ready
  <1>1. /\ ChildKilled(n) \in [Port -> ProcType]
        /\ \A p \in Port : ChildKilled(n)[p] = IF p \in srv[n].child THEN NoServer ELSE at[n][p]
    BY KilledType DEF RInv
  <1> QED
    BY <1>1 DEF WInv, Real

\* All processes stay real when those of one node do.
LEMMA AllReal ==
    ASSUME RInv, WInv, NEW n \in Node, NEW procs, \A p \in Port : Real(procs[p]),
           at' = [at EXCEPT ![n] = procs]
    PROVE  \A m \in Node, p \in Port : Real(at'[m][p])
  BY Facts DEF WInv

LEMMA SwitchGood ==
    ASSUME RInv, WInv, NEW k \in Call, Adopt(k) \/ Start(k) \/ StartFails(k)
    PROVE  WInv'
  <1> DEFINE n == CallNode[k]
             killed == ChildKilled(n)
             cs == CutOff(n, srv[n].child)
  <1>1. Enters(k)
    BY Zenon DEF Adopt, Start, StartFails
  <1>2. n \in Node /\ cs \in [Call -> CallType] /\ cs[k] = call[k] /\ call[k].at = "lock"
    BY <1>1, Entering, Zenon DEF Enters
  <1>3. call[k].model \in Model /\ call[k] \in CallType
    BY <1>2, Facts DEF WInv, Good
  <1>4. /\ killed \in [Port -> ProcType] /\ \A p \in Port : Real(killed[p])
        /\ \A p \in Port : at[n][p].ready => p \in srv[n].child \/ killed[p].ready
    BY <1>2, KilledGood
  <1> HIDE DEF killed
  <1>5. ASSUME at' = [at EXCEPT ![n] = killed], NEW v, call' = [cs EXCEPT ![k] = v],
               \A procs : Good(v, procs)
        PROVE  WInv'
    <2>1. \A j \in Call : Good(cs[j], at'[CallNode[j]])
      BY <1>2, <1>4, <1>5, CutOffGood, Zenon
    <2>2. \A m \in Node, p \in Port : Real(at'[m][p])
      BY <1>2, <1>4, <1>5, AllReal, Zenon
    <2> HIDE DEF cs, n
    <2>3. \A j \in Call : Good(call'[j], at'[CallNode[j]])
      BY <1>2, <1>5, <2>1
    <2> QED
      BY <2>2, <2>3 DEF WInv
  <1>6. CASE Adopt(k)
    <2> DEFINE m == killed[Configured].model
               v == Handed(call[k], Configured, m)
    <2>1. m \in ModelOrNone /\ Configured \in Port
      BY <1>4, Facts DEF ProcType
    <2>2. \A procs : Good(v, procs)
      BY <1>3, <2>1, GoodHanded
    <2>3. at' = [at EXCEPT ![n] = killed] /\ call' = Given(cs, k, Configured, killed)
      BY <1>6 DEF Adopt, killed
    <2> HIDE DEF cs
    <2>4. call' = [cs EXCEPT ![k] = v]
      BY <1>2, <2>3, Zenon DEF Given, Handed, CallType
    <2> HIDE DEF v
    <2> QED
      BY <1>5, <2>2, <2>3, <2>4, Zenon
  <1>7. CASE StartFails(k)
    <2>1. \A procs : Good(Ended(call[k]), procs)
      BY <1>2, <1>3, GoodEnded DEF WInv
    <2>2. at' = [at EXCEPT ![n] = killed] /\ call' = Fails(cs, k)
      BY <1>7 DEF StartFails, killed
    <2> HIDE DEF cs
    <2>3. call' = [cs EXCEPT ![k] = Ended(call[k])]
      BY <1>2, <2>2, FailsIs
    <2> QED
      BY <1>5, <2>1, <2>2, <2>3, Zenon
  <1>8. CASE Start(k)
    <2> DEFINE v == [call[k] EXCEPT !.at = "load"]
               new == Server(call[k].model)
    <2>1. PICK p \in Port :
            /\ killed[p] = NoServer
            /\ at' = [at EXCEPT ![n] = [killed EXCEPT ![p] = new]]
            /\ call' = [cs EXCEPT ![k].at = "load"]
      BY <1>8, Zenon DEF Start, killed
    <2>2. new \in ProcType /\ Real(new)
      BY <1>3 DEF Server, ProcType, ModelOrNone, Real
    <2>3. v.at = "load" /\ v.model = call[k].model
      BY <1>3 DEF CallType
    <2> HIDE DEF cs, new
    <2>4. call' = [cs EXCEPT ![k] = v]
      BY <1>2, <2>1
    <2> DEFINE procs == [killed EXCEPT ![p] = new]
    <2>5. /\ procs \in [Port -> ProcType] /\ \A q \in Port : Real(procs[q])
          /\ \A q \in Port : at[n][q].ready => q \in srv[n].child \/ procs[q].ready
      BY <1>4, <2>1, <2>2, Facts, Zenon
    <2>6. at' = [at EXCEPT ![n] = procs]
      BY <2>1
    <2> HIDE DEF procs, v
    <2>7. \A j \in Call : Good(cs[j], at'[CallNode[j]])
      BY <1>2, <2>5, <2>6, CutOffGood, Zenon DEF cs
    <2>8. \A m \in Node, q \in Port : Real(at'[m][q])
      BY <1>2, <2>5, <2>6, AllReal, Zenon
    <2>9. Good(v, at'[n])
      BY <1>3, <2>3 DEF Good
    <2>10. \A j \in Call : Good(call'[j], at'[CallNode[j]])
      BY <1>2, <2>4, <2>7, <2>9
    <2> QED
      BY <2>8, <2>10 DEF WInv
  <1> QED
    BY <1>6, <1>7, <1>8

\* Nobody waits for an answer of a server that is still loading.
LEMMA TimeoutGood ==
    ASSUME RInv, WInv, NEW k \in Call, LoadTimesOut(k)
    PROVE  WInv'
  <1> DEFINE n == CallNode[k]
             killed == ChildKilled(n)
  <1>1. n \in Node /\ call[k].at = "load" /\ srv[n].child = {srv[n].port} /\ ~at[n][srv[n].port].ready
    BY WhileLoading DEF LoadTimesOut, Healthy, Serves
  <1>2. /\ killed \in [Port -> ProcType] /\ \A p \in Port : Real(killed[p])
        /\ \A p \in Port : at[n][p].ready => p \in srv[n].child \/ killed[p].ready
    BY <1>1, KilledGood
  <1>3. \A p \in Port : at[n][p].ready => p \in {} \/ killed[p].ready
    BY <1>1, <1>2
  <1>4. at' = [at EXCEPT ![n] = killed] /\ call' = Fails(call, k)
    BY DEF LoadTimesOut
  <1> HIDE DEF killed
  <1>5. \A j \in Call : Good(CutOff(n, {})[j], at'[CallNode[j]])
    BY <1>1, <1>2, <1>3, <1>4, CutOffGood, Zenon
  <1>6. \A j \in Call : CutOff(n, {})[j] = call[j]
    BY DEF CutOff
  <1>7. \A procs : Good(Ended(call[k]), procs)
    BY <1>1, Facts, GoodEnded DEF WInv
  <1>8. call' = [call EXCEPT ![k] = Ended(call[k])] /\ call \in [Call -> CallType]
    BY <1>4, FailsIs, Facts
  <1>9. \A j \in Call : Good(call'[j], at'[CallNode[j]])
    BY <1>5, <1>6, <1>7, <1>8
  <1>10. \A m \in Node, p \in Port : Real(at'[m][p])
    BY <1>1, <1>2, <1>4, AllReal, Zenon
  <1> QED
    BY <1>9, <1>10 DEF WInv

LEMMA ProcessGood ==
    ASSUME RInv, WInv, NEW n \in Node,
           \/ NodeKilled(n)
           \/ \E p \in Port : ServerReady(n, p) \/ ServerExits(n, p)
    PROVE  WInv'
  <1>1. at[n] \in [Port -> ProcType] /\ \A p \in Port : at[n][p] \in ProcType /\ Real(at[n][p])
    BY Facts DEF WInv
  <1>2. ASSUME NEW p \in Port, ServerReady(n, p) PROVE WInv'
    <2> DEFINE ready == [at[n][p] EXCEPT !.ready = TRUE]
               procs == [at[n] EXCEPT ![p] = ready]
    <2>1. ready \in ProcType /\ ready.ready /\ ready.model = at[n][p].model
      BY <1>1, Zenon DEF ProcType
    <2>2. at' = [at EXCEPT ![n] = procs] /\ UNCHANGED call
      BY <1>1, <1>2, Facts DEF ServerReady, ProcType
    <2> HIDE DEF ready
    <2>3. /\ procs \in [Port -> ProcType] /\ \A q \in Port : Real(procs[q])
          /\ \A q \in Port : at[n][q].ready => q \in {} \/ procs[q].ready
      BY <1>1, <1>2, <2>1 DEF Real, ServerReady
    <2> HIDE DEF procs
    <2>4. \A j \in Call : Good(CutOff(n, {})[j], at'[CallNode[j]])
      BY <2>2, <2>3, CutOffGood, Zenon
    <2>5. \A j \in Call : CutOff(n, {})[j] = call'[j]
      BY <2>2 DEF CutOff
    <2> QED
      BY <2>2, <2>3, <2>4, <2>5, AllReal DEF WInv
  <1>3. ASSUME NEW p \in Port, ServerExits(n, p) PROVE WInv'
    <2> DEFINE procs == [at[n] EXCEPT ![p] = NoServer]
    <2>1. at' = [at EXCEPT ![n] = procs] /\ call' = CutOff(n, {p})
      BY <1>1, <1>3, Facts DEF ServerExits
    <2>2. /\ procs \in [Port -> ProcType] /\ \A q \in Port : Real(procs[q])
          /\ \A q \in Port : at[n][q].ready => q \in {p} \/ procs[q].ready
      BY <1>1, Facts DEF Real
    <2> HIDE DEF procs
    <2>3. \A j \in Call : Good(CutOff(n, {p})[j], at'[CallNode[j]])
      BY <2>1, <2>2, CutOffGood, Zenon
    <2> QED
      BY <2>1, <2>2, <2>3, AllReal, Zenon DEF WInv
  <1>4. CASE NodeKilled(n)
    <2> DEFINE left(p) == [at[n][p] EXCEPT !.own = FALSE]
               procs == [p \in Port |-> left(p)]
    <2>1. at' = [at EXCEPT ![n] = procs]
      BY <1>4, Facts, Zenon DEF NodeKilled
    <2>2. ASSUME NEW p \in Port
          PROVE  Real(left(p)) /\ left(p).ready = at[n][p].ready
      <3>1. at[n][p] \in ProcType /\ Real(at[n][p])
        BY <1>1
      <3>2. left(p).model = at[n][p].model /\ left(p).ready = at[n][p].ready
        BY <3>1 DEF ProcType
      <3>3. CASE at[n][p] = NoServer
        <4>1. left(p) \in ProcType /\ left(p).own = FALSE
          BY <3>1, Zenon DEF ProcType
        <4>2. left(p).model = NoModel /\ left(p).ready = FALSE
          BY <3>2, <3>3 DEF NoServer
        <4> HIDE DEF left
        <4>3. left(p) = NoServer
          BY <4>1, <4>2 DEF ProcType, NoServer
        <4> QED
          BY <3>2, <4>3 DEF Real
      <3>4. CASE at[n][p] # NoServer
        BY <3>1, <3>2, <3>4 DEF Real
      <3> QED BY <3>2, <3>3, <3>4
    <2>3. \A p \in Port : Real(procs[p]) /\ procs[p].ready = at[n][p].ready
      BY <2>2, Zenon
    <2> HIDE DEF procs
    <2>4. \A m \in Node, p \in Port : Real(at'[m][p])
      BY <2>1, <2>3, AllReal, Zenon
    <2>5. ASSUME NEW k \in Call PROVE Good(call'[k], at'[CallNode[k]])
      <3>1. /\ call[k] \in CallType /\ call[k].port \in Port /\ CallNode[k] \in Node
            /\ at \in [Node -> [Port -> ProcType]] /\ Good(call[k], at[CallNode[k]])
        BY Facts DEF CallType, WInv
      <3>2. CASE call[k].at \notin {"idle", "done"} /\ CallNode[k] = n
        <4>1. call'[k] = Ended(call[k])
          BY <1>4, <3>2, Zenon DEF NodeKilled, Ended
        <4> QED
          BY <3>1, <3>2, <4>1, GoodEnded
      <3>3. CASE ~(call[k].at \notin {"idle", "done"} /\ CallNode[k] = n)
        <4>1. call'[k] = call[k]
          BY <1>4, <3>3, Zenon DEF NodeKilled
        <4>2. CASE CallNode[k] = n
          BY <3>1, <3>3, <4>1, <4>2 DEF Good
        <4>3. CASE CallNode[k] # n
          BY <2>1, <3>1, <4>1, <4>3
        <4> QED BY <4>2, <4>3
      <3> QED BY <3>2, <3>3
    <2> QED
      BY <2>4, <2>5 DEF WInv
  <1> QED BY <1>2, <1>3, <1>4

LEMMA InitGood ==
    ASSUME RuntimeInit
    PROVE  WInv
  <1>1. Idle.at = "idle"
    BY DEF Idle
  <1>2. \A q \in {NoServer} \cup [model : Model, ready : {TRUE}, own : {FALSE}] : Real(q)
    BY Zenon DEF Real
  <1>3. \A n \in Node, p \in Port : Real(at[n][p])
    BY <1>2, Zenon DEF RuntimeInit
  <1> QED
    BY <1>1, <1>3 DEF RuntimeInit, WInv, Good

\* A call that has ended stays as it is, until it is asked for anew.
LEMMA DoneStays ==
    ASSUME RInv, NEW j \in Call, call[j].at = "done",
           \/ \E k \in Call : \/ CallStep(k)
                              \/ \E present \in BOOLEAN : Check(k, present) \/ CliStart(k, present)
           \/ \E n \in Node : \/ NodeKilled(n)
                              \/ \E p \in Port : ServerReady(n, p) \/ ServerExits(n, p)
    PROVE  call'[j] = call[j]
  <1>1. call \in [Call -> CallType]
    BY Facts
  <1>2. \A n, ports : CutOff(n, ports)[j] = call[j] /\ DOMAIN CutOff(n, ports) = Call
    BY DEF CutOff
  <1>3. ASSUME NEW k \in Call, \/ CallStep(k)
                              \/ \E present \in BOOLEAN : Check(k, present) \/ CliStart(k, present)
        PROVE  call'[j] = call[j]
    <2>1. k # j
      BY <1>3, Zenon DEF CallStep, Check, CliStart, Post, Answer, AnswerFails, CliExits, CliFails, LoadExits,
         Reuse, Adopt, Start, StartFails, Loaded, LoadTimesOut, Enters
    <2>2. \A cs, p, ps : DOMAIN cs = Call => Fails(cs, k)[j] = cs[j] /\ Given(cs, k, p, ps)[j] = cs[j]
      BY <2>1 DEF Fails, Given
    <2>3. CASE Adopt(k) \/ StartFails(k) \/ Start(k)
      <3> DEFINE cs == CutOff(CallNode[k], srv[CallNode[k]].child)
      <3>1. DOMAIN cs = Call /\ cs[j] = call[j]
        BY <1>2
      <3>2. \/ \E ps : call' = Given(cs, k, Configured, ps)
            \/ call' = Fails(cs, k)
            \/ call' = [cs EXCEPT ![k].at = "load"]
        BY <2>3, Zenon DEF Adopt, StartFails, Start
      <3> HIDE DEF cs
      <3>3. [cs EXCEPT ![k].at = "load"][j] = cs[j]
        BY <2>1, <3>1
      <3> QED
        BY <2>2, <3>1, <3>2, <3>3
    <2>4. CASE Reuse(k) \/ Loaded(k) \/ LoadExits(k) \/ LoadTimesOut(k) \/ AnswerFails(k) \/ CliFails(k)
      <3>1. \/ call' = Fails(call, k) \/ \E p, ps : call' = Given(call, k, p, ps)
        BY <2>4 DEF Reuse, Loaded, LoadExits, LoadTimesOut, AnswerFails, CliFails
      <3> QED
        BY <1>1, <2>2, <3>1
    <2>5. CASE Post(k) \/ Answer(k) \/ CliExits(k)
               \/ \E present \in BOOLEAN : Check(k, present) \/ CliStart(k, present)
      <3>1. \/ call' = Fails(call, k) \/ \E a : call' = [call EXCEPT ![k].at = a]
            \/ \E m : call' = [call EXCEPT ![k].at = "done", ![k].reply = m]
        BY <2>5 DEF Post, Answer, CliExits, Check, CliStart
      <3> QED
        BY <1>1, <2>1, <2>2, <3>1
    <2> QED
      BY <1>3, <2>3, <2>4, <2>5, Zenon DEF CallStep
  <1>4. ASSUME NEW n \in Node, NodeKilled(n) PROVE call'[j] = call[j]
    BY <1>4, Zenon DEF NodeKilled
  <1>5. ASSUME NEW n \in Node, NEW p \in Port, ServerReady(n, p) \/ ServerExits(n, p)
        PROVE  call'[j] = call[j]
    BY <1>2, <1>5 DEF ServerReady, ServerExits
  <1> QED
    BY <1>3, <1>4, <1>5

\* Every llama-server that a node started and that still runs is the child it
\* will kill, whatever callers, model switches, failed loads and crashes do
\* (ensure_ready and Drop of llama_server.rs).
THEOREM ServersKept == RuntimeSpec => []NoOrphan
  <1>1. RInv => NoOrphan
    BY DEF RInv
  <1> QED
    BY <1>1, InitInv, StepInv, PTL DEF RuntimeSpec

\* The port that ensure_ready returns is that of a server that has the model of
\* the caller, or on the configured port one that model_matches accepts.
THEOREM PortsRight == RuntimeSpec => []GivenRightModel
  <1>1. RInv => GivenRightModel
    BY DEF RInv
  <1> QED
    BY <1>1, InitInv, StepInv, PTL DEF RuntimeSpec
=============================================================================
