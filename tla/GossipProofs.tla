---------------------------- MODULE GossipProofs ----------------------------
(***************************************************************************)
(* What holds of the transport for any number of nodes, on any topology,   *)
(* however connections break and nodes are closed.                         *)
(***************************************************************************)
EXTENDS Gossip, FiniteSetTheorems, TLAPS

(***************************************************************************)
(* Connections carry frames of a set F, and read loops hold them.          *)
(***************************************************************************)
HandOf(F) == {Reading} \cup [at : {"deliver", "relay"}, frame : F]

ConnOf(F) == [dialer : Node, listener : Node, by : Loops, up : BOOLEAN, accepted : BOOLEAN,
              reading : SUBSET Role, writing : SUBSET Role, done : SUBSET Role,
              chan : [Role -> Seq(F)], hand : [Role -> HandOf(F)]]

LEMMA LoopLinks ==
    ASSUME NEW l \in Loops
    PROVE  l[1][1] \in Node /\ l[1][2] \in Node
  BY GossipAssumption DEF Loops

LEMMA FunctionIsSeq ==
    ASSUME NEW S, NEW n \in Nat, NEW s \in [1 .. n -> S]
    PROVE  s \in Seq(S) /\ Len(s) = n
  OBVIOUS

LEMMA MoreFrames ==
    ASSUME NEW F, NEW G, F \subseteq G, NEW conn \in ConnOf(F)
    PROVE  conn \in ConnOf(G)
  <1>1. HandOf(F) \subseteq HandOf(G)
    BY DEF HandOf
  <1>2. Seq(F) \subseteq Seq(G)
    OBVIOUS
  <1> QED
    BY <1>1, <1>2 DEF ConnOf

\* What a step may do to connection c: who made it to whom stays, and so does
\* that it was accepted.
Kept(old, new) ==
    /\ new.dialer = old.dialer /\ new.listener = old.listener
    /\ old.accepted => new.accepted

\* No read loop of it starts to hand a frame over.
Calm(old, new) ==
    \A r \in Role : new.hand[r] = old.hand[r] \/ new.hand[r].at # "deliver"

\* The connections after a step that makes none.
Onward(F, cs, ds) ==
    /\ ds \in Seq(ConnOf(F)) /\ Len(ds) = Len(cs)
    /\ \A c \in 1 .. Len(cs) : Kept(cs[c], ds[c])

SameHands(cs, ds) == \A c \in 1 .. Len(cs) : ds[c].hand = cs[c].hand

Calmly(cs, ds) == \A c \in 1 .. Len(cs) : Calm(cs[c], ds[c])

\* Senders are dropped.
LEMMA DropSendersOK ==
    ASSUME NEW F, NEW cs \in Seq(ConnOf(F)), NEW ends
    PROVE  /\ Onward(F, cs, DropSenders(cs, ends))
           /\ SameHands(cs, DropSenders(cs, ends))
  <1> DEFINE ds == DropSenders(cs, ends)
             W(c) == {r \in cs[c].writing : <<c, r>> \notin ends}
  <1>1. Len(cs) \in Nat /\ DOMAIN cs = 1 .. Len(cs) /\ \A c \in 1 .. Len(cs) : cs[c] \in ConnOf(F)
    OBVIOUS
  <1>2. ds = [c \in 1 .. Len(cs) |-> [cs[c] EXCEPT !.writing = W(c)]]
    BY <1>1 DEF DropSenders
  <1>3. ASSUME NEW c \in 1 .. Len(cs)
        PROVE  /\ [cs[c] EXCEPT !.writing = W(c)] \in ConnOf(F)
               /\ Kept(cs[c], [cs[c] EXCEPT !.writing = W(c)])
               /\ [cs[c] EXCEPT !.writing = W(c)].hand = cs[c].hand
    <2>1. W(c) \in SUBSET Role
      BY <1>1 DEF ConnOf
    <2> HIDE DEF W
    <2> QED
      BY <1>1, <2>1, Zenon DEF ConnOf, Kept
  <1> HIDE DEF W, ds
  <1>4. \A c \in 1 .. Len(cs) : ds[c] = [cs[c] EXCEPT !.writing = W(c)]
    BY <1>2
  <1>5. ds \in Seq(ConnOf(F)) /\ Len(ds) = Len(cs)
    <2>1. ds \in [1 .. Len(cs) -> ConnOf(F)]
      BY <1>2, <1>3, Zenon
    <2> QED
      BY <1>1, <2>1, FunctionIsSeq, Zenon
  <1>6. Onward(F, cs, ds) /\ SameHands(cs, ds)
    BY <1>3, <1>4, <1>5, Zenon DEF Onward, SameHands
  <1> QED
    BY <1>6 DEF ds

\* A frame is sent.
LEMMA SendToOK ==
    ASSUME NEW F, NEW cs \in Seq(ConnOf(F)), NEW ends, NEW f \in F
    PROVE  /\ Onward(F, cs, SendTo(cs, ends, f))
           /\ SameHands(cs, SendTo(cs, ends, f))
  <1> DEFINE ds == SendTo(cs, ends, f)
             goes(c, r) == /\ <<c, r>> \in ends /\ r \in cs[c].writing /\ cs[c].up
                           /\ cs[c].accepted => Other(r) \in cs[c].reading
             X(c) == [r \in Role |-> IF goes(c, r) THEN Append(cs[c].chan[r], f) ELSE cs[c].chan[r]]
  <1>1. Len(cs) \in Nat /\ DOMAIN cs = 1 .. Len(cs) /\ \A c \in 1 .. Len(cs) : cs[c] \in ConnOf(F)
    OBVIOUS
  <1>2. ds = [c \in 1 .. Len(cs) |-> [cs[c] EXCEPT !.chan = X(c)]]
    BY <1>1, Zenon DEF SendTo
  <1>3. ASSUME NEW c \in 1 .. Len(cs)
        PROVE  /\ [cs[c] EXCEPT !.chan = X(c)] \in ConnOf(F)
               /\ Kept(cs[c], [cs[c] EXCEPT !.chan = X(c)])
               /\ [cs[c] EXCEPT !.chan = X(c)].hand = cs[c].hand
    <2>1. cs[c].chan \in [Role -> Seq(F)]
      BY <1>1 DEF ConnOf
    <2>2. \A r \in Role : cs[c].chan[r] \in Seq(F) /\ Append(cs[c].chan[r], f) \in Seq(F)
      BY <2>1
    <2>3. X(c) \in [Role -> Seq(F)]
      BY <2>2
    <2> HIDE DEF X
    <2> QED
      BY <1>1, <2>3, Zenon DEF ConnOf, Kept
  <1> HIDE DEF X, ds
  <1>4. \A c \in 1 .. Len(cs) : ds[c] = [cs[c] EXCEPT !.chan = X(c)]
    BY <1>2
  <1>5. ds \in Seq(ConnOf(F)) /\ Len(ds) = Len(cs)
    <2>1. ds \in [1 .. Len(cs) -> ConnOf(F)]
      BY <1>2, <1>3, Zenon
    <2> QED
      BY <1>1, <2>1, FunctionIsSeq, Zenon
  <1>6. Onward(F, cs, ds) /\ SameHands(cs, ds)
    BY <1>3, <1>4, <1>5, Zenon DEF Onward, SameHands
  <1> QED
    BY <1>6 DEF ds

\* One connection changes.
LEMMA OneConnection ==
    ASSUME NEW F, NEW cs \in Seq(ConnOf(F)), NEW c \in 1 .. Len(cs), NEW conn \in ConnOf(F),
           Kept(cs[c], conn), NEW ds, ds = [cs EXCEPT ![c] = conn]
    PROVE  Onward(F, cs, ds)
  <1>1. ds \in Seq(ConnOf(F)) /\ Len(ds) = Len(cs)
    OBVIOUS
  <1>2. ds[c] = conn /\ \A d \in 1 .. Len(cs) : d # c => ds[d] = cs[d]
    OBVIOUS
  <1>3. \A d \in 1 .. Len(cs) : Kept(cs[d], ds[d])
    BY <1>2 DEF Kept
  <1> QED
    BY <1>1, <1>2, <1>3 DEF Onward

(***************************************************************************)
(* The type of the state.  An entry of a peers map belongs to a connection *)
(* and is found under its key; the frames of a node are numbered.          *)
(***************************************************************************)
EntryOK(p) ==
    /\ p = [key |-> KeyOf(p.end), end |-> p.end]
    /\ p.end \in Ends
    /\ p.end[2] = "accept" => conns[p.end[1]].accepted

PeersOK ==
    /\ DOMAIN peers = Node
    /\ \A n \in Node : \A p \in peers[n] : EntryOK(p)
    /\ \A n \in Node : \A p, q \in peers[n] : p.key = q.key => p = q

By(n) == {f \in published : f.from = n}

FramesOK ==
    /\ published \in SUBSET Frame /\ IsFiniteSet(published)
    /\ \A f \in published : f.num <= Cardinality(By(f.from))
    /\ handed \in [Node -> [Frame -> 0 .. 2]]
    /\ seen \in [Node -> Seq(published)]
    /\ \A n \in Node : Len(seen[n]) <= Window

ConnsOK == conns \in Seq(ConnOf(published)) /\ Len(conns) <= MaxConns

GInv ==
    /\ setup \in Setups
    /\ loop \in [Loops -> 0 .. Off]
    /\ closed \subseteq stopping /\ stopping \subseteq setup.closers
    /\ FramesOK /\ ConnsOK /\ PeersOK

LEMMA ConnFacts ==
    ASSUME ConnsOK
    PROVE  /\ Len(conns) \in Nat /\ DOMAIN conns = 1 .. Len(conns)
           /\ \A c \in 1 .. Len(conns) : conns[c] \in ConnOf(published)
           /\ \A e \in Ends : e = <<e[1], e[2]>> /\ e[1] \in 1 .. Len(conns) /\ e[2] \in Role
  <1>1. Len(conns) \in Nat /\ DOMAIN conns = 1 .. Len(conns)
        /\ \A c \in 1 .. Len(conns) : conns[c] \in ConnOf(published)
    BY DEF ConnsOK
  <1>2. \A e \in Ends : e = <<e[1], e[2]>> /\ e[1] \in 1 .. Len(conns) /\ e[2] \in Role
    BY <1>1 DEF Ends
  <1> QED BY <1>1, <1>2

\* Steps of one connection that start no delivery.
LEMMA OneCalm ==
    ASSUME ConnsOK, NEW c \in 1 .. Len(conns), NEW conn \in ConnOf(published),
           Kept(conns[c], conn), Calm(conns[c], conn), conns' = [conns EXCEPT ![c] = conn]
    PROVE  Onward(published, conns, conns') /\ Calmly(conns, conns')
  <1>1. conns \in Seq(ConnOf(published))
    BY DEF ConnsOK
  <1>2. Onward(published, conns, conns')
    BY <1>1, OneConnection, Zenon
  <1>3. conns'[c] = conn /\ \A d \in 1 .. Len(conns) : d # c => conns'[d] = conns[d]
    BY <1>1
  <1> QED
    BY <1>2, <1>3, Zenon DEF Calmly, Calm

LEMMA ConnectionSteps ==
    ASSUME GInv,
           \/ \E c \in DOMAIN conns : Accept(c) \/ Break(c)
           \/ \E e \in Ends : ReadEnds(e) \/ WriteFails(e)
    PROVE  Onward(published, conns, conns') /\ Calmly(conns, conns')
  <1>1. ConnsOK
    BY DEF GInv
  <1>2. /\ DOMAIN conns = 1 .. Len(conns)
        /\ \A c \in 1 .. Len(conns) : conns[c] \in ConnOf(published)
        /\ \A e \in Ends : e = <<e[1], e[2]>> /\ e[1] \in 1 .. Len(conns) /\ e[2] \in Role
    BY <1>1, ConnFacts, Zenon
  <1>3. ASSUME NEW c \in DOMAIN conns, Accept(c)
        PROVE  Onward(published, conns, conns') /\ Calmly(conns, conns')
    <2> DEFINE conn == [conns[c] EXCEPT !.accepted = TRUE, !.reading = @ \cup {"accept"},
                                        !.writing = @ \cup {"accept"}]
    <2>0. /\ conns[c] \in ConnOf(published) /\ "accept" \in Role /\ TRUE \in BOOLEAN
          /\ conns[c].reading \cup {"accept"} \in SUBSET Role
          /\ conns[c].writing \cup {"accept"} \in SUBSET Role
      BY <1>2 DEF ConnOf, Role
    <2>1. conn \in ConnOf(published) /\ Kept(conns[c], conn) /\ Calm(conns[c], conn)
      BY <2>0, Zenon DEF ConnOf, Kept, Calm
    <2>2. conns' = [conns EXCEPT ![c] = conn]
      BY <1>3, Zenon DEF Accept
    <2> HIDE DEF conn
    <2> QED
      BY <1>1, <1>2, <2>1, <2>2, OneCalm, Zenon
  <1>4. ASSUME NEW c \in DOMAIN conns, Break(c)
        PROVE  Onward(published, conns, conns') /\ Calmly(conns, conns')
    <2> DEFINE ch == [r \in Role |-> <<>>]
               conn == [conns[c] EXCEPT !.up = FALSE, !.chan = ch]
    <2>1. ch \in [Role -> Seq(published)] /\ conns[c] \in ConnOf(published) /\ FALSE \in BOOLEAN
      BY <1>2
    <2>2. conns' = [conns EXCEPT ![c] = conn]
      BY <1>4, Zenon DEF Break
    <2> HIDE DEF ch
    <2>3. conn \in ConnOf(published) /\ Kept(conns[c], conn) /\ Calm(conns[c], conn)
      BY <2>1, Zenon DEF ConnOf, Kept, Calm
    <2> HIDE DEF conn
    <2> QED
      BY <1>1, <1>2, <2>2, <2>3, OneCalm, Zenon
  <1>5. ASSUME NEW e \in Ends, ReadEnds(e)
        PROVE  Onward(published, conns, conns') /\ Calmly(conns, conns')
    <2> DEFINE c == e[1]
               conn == [conns[c] EXCEPT !.reading = @ \ {e[2]}]
    <2>1. c \in 1 .. Len(conns) /\ conns[c] \in ConnOf(published)
      BY <1>2, Zenon
    <2>2. conns' = [conns EXCEPT ![c] = conn]
      BY <1>5, Zenon DEF ReadEnds
    <2> HIDE DEF c
    <2>3. conn \in ConnOf(published) /\ Kept(conns[c], conn) /\ Calm(conns[c], conn)
      BY <2>1, Zenon DEF ConnOf, Kept, Calm
    <2> HIDE DEF conn
    <2> QED
      BY <1>1, <2>1, <2>2, <2>3, OneCalm, Zenon
  <1>6. ASSUME NEW e \in Ends, WriteFails(e)
        PROVE  Onward(published, conns, conns') /\ Calmly(conns, conns')
    <2> DEFINE c == e[1]
               conn == [conns[c] EXCEPT !.writing = @ \ {e[2]}]
    <2>1. c \in 1 .. Len(conns) /\ conns[c] \in ConnOf(published)
      BY <1>2, Zenon
    <2>2. conns' = [conns EXCEPT ![c] = conn]
      BY <1>6, Zenon DEF WriteFails
    <2> HIDE DEF c
    <2>3. conn \in ConnOf(published) /\ Kept(conns[c], conn) /\ Calm(conns[c], conn)
      BY <2>1, Zenon DEF ConnOf, Kept, Calm
    <2> HIDE DEF conn
    <2> QED
      BY <1>1, <2>1, <2>2, <2>3, OneCalm, Zenon
  <1> QED BY <1>3, <1>4, <1>5, <1>6, Zenon

\* All connections change a little, then one of them.
LEMMA AllThenOne ==
    ASSUME NEW F, NEW cs \in Seq(ConnOf(F)), NEW ds, Onward(F, cs, ds),
           SameHands(cs, ds),
           NEW c \in 1 .. Len(cs), NEW conn \in ConnOf(F), Kept(ds[c], conn), Calm(ds[c], conn),
           NEW es, es = [ds EXCEPT ![c] = conn]
    PROVE  Onward(F, cs, es) /\ Calmly(cs, es)
  <1>1. ds \in Seq(ConnOf(F)) /\ Len(ds) = Len(cs) /\ \A d \in 1 .. Len(cs) : Kept(cs[d], ds[d])
    BY DEF Onward
  <1>2. /\ es \in Seq(ConnOf(F)) /\ Len(es) = Len(cs) /\ es[c] = conn
        /\ \A d \in 1 .. Len(cs) : d # c => es[d] = ds[d]
    BY <1>1
  <1>3. ASSUME NEW d \in 1 .. Len(cs) PROVE Kept(cs[d], es[d]) /\ Calm(cs[d], es[d])
    <2>1. Kept(cs[d], ds[d]) /\ ds[d].hand = cs[d].hand
      BY <1>1 DEF SameHands
    <2>2. CASE d = c
      BY <1>2, <2>1, <2>2 DEF Kept, Calm
    <2>3. CASE d # c
      BY <1>2, <2>1, <2>3 DEF Kept, Calm
    <2> QED BY <2>2, <2>3
  <1> QED
    BY <1>2, <1>3, Zenon DEF Onward, Calmly

LEMMA EndingSteps ==
    ASSUME GInv, (\E e \in Ends : Finish(e)) \/ \E n \in Node : Close(n)
    PROVE  Onward(published, conns, conns') /\ Calmly(conns, conns')
  <1>1. conns \in Seq(ConnOf(published)) /\ ConnsOK
    BY DEF GInv, ConnsOK
  <1>2. ASSUME NEW n \in Node, Close(n)
        PROVE  Onward(published, conns, conns') /\ Calmly(conns, conns')
    <2>1. conns' = DropSenders(conns, EndsIn(peers[n]))
      BY <1>2 DEF Close
    <2>2. Onward(published, conns, conns') /\ SameHands(conns, conns')
      BY <1>1, <2>1, DropSendersOK, Zenon
    <2> QED
      BY <2>2, Zenon DEF Calmly, Calm, SameHands
  <1>3. ASSUME NEW e \in Ends, Finish(e)
        PROVE  Onward(published, conns, conns') /\ Calmly(conns, conns')
    <2> DEFINE c == e[1]
               ds == DropSenders(conns, HeldBy(peers[NodeOf(e)], KeyOf(e)))
               conn == [ds[c] EXCEPT !.done = @ \cup {e[2]}]
    <2>1. c \in 1 .. Len(conns) /\ e[2] \in Role
      BY <1>1, ConnFacts, Zenon
    <2>2. conns' = [ds EXCEPT ![c] = conn]
      BY <1>3, Zenon DEF Finish
    <2>3. Onward(published, conns, ds) /\ SameHands(conns, ds)
      BY <1>1, DropSendersOK, Zenon
    <2> HIDE DEF c, ds
    <2>4. ds[c] \in ConnOf(published)
      BY <1>1, <2>1, <2>3 DEF Onward
    <2>5. ds[c].done \cup {e[2]} \in SUBSET Role
      BY <2>1, <2>4 DEF ConnOf
    <2>6. conn \in ConnOf(published) /\ Kept(ds[c], conn) /\ Calm(ds[c], conn)
      BY <2>4, <2>5, Zenon DEF ConnOf, Kept, Calm
    <2> HIDE DEF conn
    <2> QED
      BY <1>1, <2>1, <2>2, <2>3, <2>6, AllThenOne, Zenon
  <1> QED BY <1>2, <1>3

\* A runtime ends: its ends of connections are done, and hold nothing.
LEMMA StoppedStep ==
    ASSUME GInv, NEW n \in Node, Stopped(n)
    PROVE  Onward(published, conns, conns') /\ Calmly(conns, conns')
  <1> DEFINE mine(c) == {r \in Role : NodeOf(<<c, r>>) = n}
             ch == [r \in Role |-> <<>>]
             ha(c) == [r \in Role |-> IF r \in mine(c) THEN Reading ELSE conns[c].hand[r]]
             ended(c) == [conns[c] EXCEPT !.up = FALSE, !.reading = @ \ mine(c), !.writing = @ \ mine(c),
                                          !.done = @ \cup mine(c), !.chan = ch, !.hand = ha(c)]
  <1>1. /\ Len(conns) \in Nat /\ DOMAIN conns = 1 .. Len(conns)
        /\ \A c \in 1 .. Len(conns) : conns[c] \in ConnOf(published)
    BY ConnFacts, Zenon DEF GInv
  <1>2. conns' = [c \in 1 .. Len(conns) |-> IF mine(c) = {} THEN conns[c] ELSE ended(c)]
    BY <1>1, Zenon DEF Stopped
  <1>3. ASSUME NEW c \in 1 .. Len(conns)
        PROVE  ended(c) \in ConnOf(published) /\ Kept(conns[c], ended(c)) /\ Calm(conns[c], ended(c))
    <2>1. mine(c) \in SUBSET Role
      OBVIOUS
    <2>2. ha(c) \in [Role -> HandOf(published)]
      BY <1>1 DEF ConnOf, HandOf
    <2>3. \A r \in Role : ha(c)[r] = conns[c].hand[r] \/ ha(c)[r].at # "deliver"
      BY DEF Reading
    <2>4. ch \in [Role -> Seq(published)]
      OBVIOUS
    <2>5. /\ conns[c].reading \ mine(c) \in SUBSET Role /\ conns[c].writing \ mine(c) \in SUBSET Role
          /\ conns[c].done \cup mine(c) \in SUBSET Role /\ conns[c] \in ConnOf(published)
      BY <1>1, <2>1 DEF ConnOf
    <2> HIDE DEF mine, ha, ch
    <2>6. ended(c) \in ConnOf(published)
      BY <2>2, <2>4, <2>5, Zenon DEF ConnOf
    <2>7. /\ ended(c).hand = ha(c) /\ ended(c).dialer = conns[c].dialer
          /\ ended(c).listener = conns[c].listener /\ ended(c).accepted = conns[c].accepted
      BY <2>5, Zenon DEF ConnOf
    <2> QED
      BY <2>3, <2>6, <2>7, Zenon DEF Kept, Calm
  <1>4. ASSUME NEW c \in 1 .. Len(conns) PROVE Kept(conns[c], conns[c]) /\ Calm(conns[c], conns[c])
    BY DEF Kept, Calm
  <1> HIDE DEF mine, ended
  <1>5. ASSUME NEW c \in 1 .. Len(conns)
        PROVE  conns'[c] \in ConnOf(published) /\ Kept(conns[c], conns'[c]) /\ Calm(conns[c], conns'[c])
    <2>1. conns'[c] = conns[c] \/ conns'[c] = ended(c)
      BY <1>2
    <2> QED BY <1>1, <1>3, <1>4, <2>1, Zenon
  <1>6. conns' \in [1 .. Len(conns) -> ConnOf(published)]
    BY <1>2, <1>5, Zenon
  <1>7. conns' \in Seq(ConnOf(published)) /\ Len(conns') = Len(conns)
    BY <1>1, <1>6, FunctionIsSeq, Zenon
  <1> QED
    BY <1>5, <1>7, Zenon DEF Onward, Calmly

LEMMA MoreConns ==
    ASSUME NEW F, NEW G, F \subseteq G, NEW cs \in Seq(ConnOf(F))
    PROVE  cs \in Seq(ConnOf(G))
  <1>1. ConnOf(F) \subseteq ConnOf(G)
    BY MoreFrames, Zenon
  <1> HIDE DEF ConnOf
  <1> QED BY <1>1

\* A frame that is published or relayed goes on its way.
LEMMA SendingSteps ==
    ASSUME GInv, (\E e \in Ends : Relay(e)) \/ \E n \in Node : Publish(n)
    PROVE  Onward(published', conns, conns') /\ Calmly(conns, conns')
  <1>1. conns \in Seq(ConnOf(published)) /\ ConnsOK
    BY DEF GInv, ConnsOK
  <1>2. ASSUME NEW n \in Node, Publish(n)
        PROVE  Onward(published', conns, conns') /\ Calmly(conns, conns')
    <2>1. PICK f : published' = published \cup {f} /\ conns' = SendTo(conns, EndsIn(peers[n]), f)
      BY <1>2, Zenon DEF Publish
    <2>2. conns \in Seq(ConnOf(published')) /\ f \in published'
      <3>1. published \subseteq published' /\ f \in published'
        BY <2>1
      <3> QED BY <1>1, <3>1, MoreConns, Zenon
    <2>3. Onward(published', conns, conns') /\ SameHands(conns, conns')
      BY <2>1, <2>2, SendToOK, Zenon
    <2> QED
      BY <2>3, Zenon DEF Calmly, Calm, SameHands
  <1>3. ASSUME NEW e \in Ends, Relay(e)
        PROVE  Onward(published', conns, conns') /\ Calmly(conns, conns')
    <2> DEFINE c == e[1]
               r == e[2]
               f == conns[c].hand[r].frame
               ds == SendTo(conns, RelayTo(e), f)
               ha == [ds[c].hand EXCEPT ![r] = Reading]
               conn == [ds[c] EXCEPT !.hand = ha]
    <2>1. c \in 1 .. Len(conns) /\ r \in Role /\ conns[c] \in ConnOf(published)
      BY <1>1, ConnFacts, Zenon
    <2>2. conns[c].hand[r].at = "relay" /\ published' = published
      BY <1>3, Zenon DEF Relay
    <2>3. conns' = [ds EXCEPT ![c] = conn]
      BY <1>3, Zenon DEF Relay
    <2>4. f \in published
      <3>1. conns[c].hand[r] \in HandOf(published)
        BY <2>1 DEF ConnOf
      <3> QED BY <2>2, <3>1 DEF HandOf, Reading
    <2> HIDE DEF f
    <2>5. Onward(published, conns, ds) /\ SameHands(conns, ds)
      BY <1>1, <2>4, SendToOK, Zenon
    <2> HIDE DEF c, r, ds
    <2>6. ds[c] \in ConnOf(published) /\ ds[c].hand \in [Role -> HandOf(published)]
      <3>1. ds \in Seq(ConnOf(published)) /\ Len(ds) = Len(conns)
        BY <2>5, Zenon DEF Onward
      <3>2. ds[c] \in ConnOf(published)
        BY <2>1, <3>1
      <3> QED BY <3>2, Zenon DEF ConnOf
    <2>7. /\ ha \in [Role -> HandOf(published)]
          /\ \A x \in Role : ha[x] = ds[c].hand[x] \/ ha[x].at # "deliver"
      BY <2>6, Zenon DEF HandOf, Reading
    <2> HIDE DEF ha
    <2>8. conn \in ConnOf(published) /\ conn.hand = ha /\ Kept(ds[c], conn)
      BY <2>6, <2>7, Zenon DEF ConnOf, Kept
    <2>9. Calm(ds[c], conn)
      BY <2>7, <2>8, Zenon DEF Calm
    <2> HIDE DEF conn
    <2>10. Onward(published, conns, conns') /\ Calmly(conns, conns')
      BY <1>1, <2>1, <2>3, <2>5, <2>8, <2>9, AllThenOne, Zenon
    <2> QED BY <2>2, <2>10, Zenon
  <1> QED BY <1>2, <1>3

\* The handlers have run.
LEMMA DeliverStep ==
    ASSUME GInv, NEW e \in Ends, Deliver(e)
    PROVE  /\ Onward(published, conns, conns') /\ Calmly(conns, conns')
           /\ conns[e[1]].hand[e[2]].frame \in published
           /\ conns[e[1]].hand[e[2]] = [at |-> "deliver", frame |-> conns[e[1]].hand[e[2]].frame]
           /\ conns'[e[1]].hand[e[2]].at = "relay"
  <1> DEFINE c == e[1]
             r == e[2]
             h == conns[c].hand[r]
             ha == [conns[c].hand EXCEPT ![r] = [h EXCEPT !.at = "relay"]]
             conn == [conns[c] EXCEPT !.hand = ha]
  <1>1. ConnsOK /\ c \in 1 .. Len(conns) /\ r \in Role /\ conns[c] \in ConnOf(published)
    BY ConnFacts, Zenon DEF GInv
  <1>2. h.at = "deliver" /\ conns' = [conns EXCEPT ![c] = conn]
    BY Zenon DEF Deliver
  <1> HIDE DEF c, r
  <1>3. conns[c].hand \in [Role -> HandOf(published)]
    BY <1>1 DEF ConnOf
  <1>4. h \in [at : {"deliver", "relay"}, frame : published] /\ h = [at |-> "deliver", frame |-> h.frame]
    BY <1>1, <1>2, <1>3 DEF HandOf, Reading
  <1>5. [h EXCEPT !.at = "relay"] \in HandOf(published) /\ [h EXCEPT !.at = "relay"].at = "relay"
    BY <1>4 DEF HandOf
  <1>6. /\ ha \in [Role -> HandOf(published)] /\ ha[r].at = "relay"
        /\ \A x \in Role : ha[x] = conns[c].hand[x] \/ ha[x].at # "deliver"
    BY <1>1, <1>3, <1>5
  <1> HIDE DEF ha, h
  <1>7. conn \in ConnOf(published) /\ conn.hand = ha /\ Kept(conns[c], conn)
    BY <1>1, <1>6, Zenon DEF ConnOf, Kept
  <1>8. Calm(conns[c], conn)
    BY <1>6, <1>7, Zenon DEF Calm
  <1> HIDE DEF conn
  <1>9. Onward(published, conns, conns') /\ Calmly(conns, conns')
    BY <1>1, <1>2, <1>7, <1>8, OneCalm, Zenon
  <1>10. conns'[c] = conn
    BY <1>1, <1>2 DEF ConnsOK
  <1>11. h.frame \in published
    BY <1>4
  <1> QED
    BY <1>4, <1>6, <1>7, <1>9, <1>10, <1>11, Zenon DEF h, c, r

\* The read loop at end e starts to hand f over, and no other one does.
Starts(cs, ds, e, f) ==
    /\ ds[e[1]].hand[e[2]] = [at |-> "deliver", frame |-> f]
    /\ \A c \in 1 .. Len(cs), r \in Role : <<c, r>> # e => ds[c].hand[r] = cs[c].hand[r]

\* The read loop at end e takes f and notes it.
Notes(e, f) ==
    /\ f \in published /\ f.from # NodeOf(e) /\ f \notin Range(seen[NodeOf(e)])
    /\ seen' = [seen EXCEPT ![NodeOf(e)] = NoteSeen(@, f)]
    /\ Starts(conns, conns', e, f)

LEMMA ReadStep ==
    ASSUME GInv, NEW e \in Ends, Read(e)
    PROVE  /\ Onward(published, conns, conns')
           /\ (Calmly(conns, conns') /\ seen' = seen) \/ \E f \in published : Notes(e, f)
  <1> DEFINE c == e[1]
             r == e[2]
             n == NodeOf(e)
             q == conns[c].chan[Other(r)]
             ch == [conns[c].chan EXCEPT ![Other(r)] = Tail(q)]
             took == [conns EXCEPT ![c] = [conns[c] EXCEPT !.chan = ch]]
             f == Head(q)
  <1>1. ConnsOK /\ c \in 1 .. Len(conns) /\ r \in Role /\ conns[c] \in ConnOf(published)
        /\ e = <<c, r>>
    BY ConnFacts, Zenon DEF GInv
  <1>2. conns \in Seq(ConnOf(published))
    BY <1>1 DEF ConnsOK
  <1>3. q # <<>> /\ conns[c].hand[r] = Reading
    BY Zenon DEF Read
  <1>4. \/ /\ conns' = [took EXCEPT ![c].reading = @ \ {r}, ![c].chan[Other(r)] = <<>>]
           /\ seen' = seen
        \/ /\ conns' = took
           /\ seen' = seen
        \/ /\ f.from # n /\ f \notin Range(seen[n])
           /\ seen' = [seen EXCEPT ![n] = NoteSeen(@, f)]
           /\ conns' = [took EXCEPT ![c].hand[r] = [at |-> "deliver", frame |-> f]]
    BY Zenon DEF Read
  <1> HIDE DEF c, r
  <1>5. Other(r) \in Role
    BY <1>1 DEF Other, Role
  <1>6. conns[c].chan \in [Role -> Seq(published)] /\ conns[c].hand \in [Role -> HandOf(published)]
        /\ conns[c].reading \ {r} \in SUBSET Role
    BY <1>1 DEF ConnOf
  <1>7. q \in Seq(published) /\ Tail(q) \in Seq(published) /\ f \in published
    BY <1>3, <1>5, <1>6
  <1>8. ch \in [Role -> Seq(published)]
    BY <1>5, <1>6, <1>7
  <1> DEFINE t == [conns[c] EXCEPT !.chan = ch]
  <1> HIDE DEF f, q, ch
  <1>9. t \in ConnOf(published) /\ Kept(conns[c], t) /\ t.hand = conns[c].hand
        /\ t.chan = ch /\ t.reading = conns[c].reading
    BY <1>1, <1>8, Zenon DEF ConnOf, Kept
  <1>10. Calm(conns[c], t)
    BY <1>9, Zenon DEF Calm
  <1>11. took = [conns EXCEPT ![c] = t]
    OBVIOUS
  <1> HIDE DEF t, took
  <1>12. took[c] = t /\ DOMAIN took = DOMAIN conns
    BY <1>1, <1>2, <1>11
  <1>13. CASE conns' = took /\ seen' = seen
    BY <1>1, <1>9, <1>10, <1>11, <1>13, OneCalm, Zenon
  <1>14. CASE /\ conns' = [took EXCEPT ![c].reading = @ \ {r}, ![c].chan[Other(r)] = <<>>]
              /\ seen' = seen
    <2> DEFINE ci == [ch EXCEPT ![Other(r)] = <<>>]
               u == [t EXCEPT !.reading = conns[c].reading \ {r}, !.chan = ci]
    <2>1. ci \in [Role -> Seq(published)]
      BY <1>5, <1>8
    <2>2. conns' = [took EXCEPT ![c] = u]
      BY <1>9, <1>12, <1>14, Zenon
    <2>3. conns' = [conns EXCEPT ![c] = u]
      BY <1>2, <1>11, <2>2, Zenon
    <2> HIDE DEF ci
    <2>4. u \in ConnOf(published) /\ Kept(t, u) /\ u.hand = t.hand
      BY <1>6, <1>9, <2>1, Zenon DEF ConnOf, Kept
    <2> HIDE DEF u
    <2>5. Kept(conns[c], u) /\ Calm(conns[c], u)
      BY <1>9, <2>4, Zenon DEF Kept, Calm
    <2> QED
      BY <1>1, <1>14, <2>3, <2>4, <2>5, OneCalm, Zenon
  <1>15. CASE /\ f.from # n /\ f \notin Range(seen[n])
              /\ seen' = [seen EXCEPT ![n] = NoteSeen(@, f)]
              /\ conns' = [took EXCEPT ![c].hand[r] = [at |-> "deliver", frame |-> f]]
    <2> DEFINE ha == [conns[c].hand EXCEPT ![r] = [at |-> "deliver", frame |-> f]]
               u == [t EXCEPT !.hand = ha]
    <2>1. /\ ha \in [Role -> HandOf(published)] /\ ha[r] = [at |-> "deliver", frame |-> f]
          /\ \A x \in Role : x # r => ha[x] = conns[c].hand[x]
      BY <1>1, <1>6, <1>7 DEF HandOf
    <2>2. conns' = [took EXCEPT ![c] = u]
      BY <1>9, <1>12, <1>15
    <2>3. conns' = [conns EXCEPT ![c] = u]
      BY <1>2, <1>11, <2>2, Zenon
    <2> HIDE DEF ha
    <2>4. u \in ConnOf(published) /\ Kept(t, u) /\ u.hand = ha
      BY <1>9, <2>1, Zenon DEF ConnOf, Kept
    <2> HIDE DEF u
    <2>5. Kept(conns[c], u)
      BY <1>9, <2>4, Zenon DEF Kept
    <2>6. Onward(published, conns, conns')
      BY <1>1, <1>2, <2>3, <2>4, <2>5, OneConnection, Zenon
    <2>7. conns'[c] = u /\ \A d \in 1 .. Len(conns) : d # c => conns'[d] = conns[d]
      BY <1>1, <1>2, <2>3
    <2>8. Starts(conns, conns', e, f)
      <3>1. conns'[e[1]].hand[e[2]] = [at |-> "deliver", frame |-> f]
        BY <2>1, <2>4, <2>7, Zenon DEF c, r
      <3>2. ASSUME NEW d \in 1 .. Len(conns), NEW x \in Role, <<d, x>> # e
            PROVE  conns'[d].hand[x] = conns[d].hand[x]
        <4>1. CASE d = c
          BY <1>1, <2>1, <2>4, <2>7, <3>2, <4>1, Zenon
        <4>2. CASE d # c
          BY <2>7, <4>2, Zenon
        <4> QED BY <4>1, <4>2
      <3> QED BY <3>1, <3>2, Zenon DEF Starts
    <2>9. Notes(e, f)
      BY <1>7, <1>15, <2>8, Zenon DEF Notes
    <2> QED BY <1>7, <2>6, <2>9, Zenon
  <1> QED BY <1>4, <1>13, <1>14, <1>15, Zenon

\* A new connection, on which nothing has been read.
Stays(cs, ds) == \A c \in 1 .. Len(cs) : Kept(cs[c], ds[c])

LEMMA DialStep ==
    ASSUME GInv, NEW l \in Loops, Dial(l)
    PROVE  /\ ConnsOK' /\ Len(conns') = Len(conns) + 1
           /\ Stays(conns, conns') /\ SameHands(conns, conns')
           /\ conns'[Len(conns) + 1].listener = l[1][2]
           /\ conns'[Len(conns) + 1].hand = [r \in Role |-> Reading]
  <1> DEFINE ds == DropSenders(conns, HeldBy(peers[l[1][1]], <<"address", l[1][2]>>))
             ch == [r \in Role |-> <<>>]
             ha == [r \in Role |-> Reading]
             dials == {"dial"}
             conn == [dialer |-> l[1][1], listener |-> l[1][2], by |-> l, up |-> TRUE,
                      accepted |-> FALSE, reading |-> dials, writing |-> dials,
                      done |-> {}, chan |-> ch, hand |-> ha]
  <1>1. conns \in Seq(ConnOf(published)) /\ Len(conns) \in Nat /\ MaxConns \in Nat
    BY GossipAssumption DEF GInv, ConnsOK
  <1>2. conns' = Append(ds, conn) /\ Len(conns) < MaxConns /\ published' = published
    BY Zenon DEF Dial
  <1>3. Onward(published, conns, ds) /\ SameHands(conns, ds)
    BY <1>1, DropSendersOK, Zenon
  <1>4. l[1][1] \in Node /\ l[1][2] \in Node
    BY LoopLinks, Zenon
  <1>5. ch \in [Role -> Seq(published)] /\ ha \in [Role -> HandOf(published)]
        /\ dials \in SUBSET Role /\ {} \in SUBSET Role /\ TRUE \in BOOLEAN /\ FALSE \in BOOLEAN
    BY DEF HandOf, Role
  <1> HIDE DEF ch, ha, dials, ds
  <1>6. conn \in ConnOf(published) /\ conn.listener = l[1][2] /\ conn.hand = ha
    BY <1>4, <1>5, Zenon DEF ConnOf
  <1> HIDE DEF conn
  <1>7. ds \in Seq(ConnOf(published)) /\ Len(ds) = Len(conns)
        /\ \A c \in 1 .. Len(conns) : Kept(conns[c], ds[c])
    BY <1>3, Zenon DEF Onward
  <1>8. /\ conns' \in Seq(ConnOf(published)) /\ Len(conns') = Len(conns) + 1
        /\ conns'[Len(conns) + 1] = conn
        /\ \A c \in 1 .. Len(conns) : conns'[c] = ds[c]
    BY <1>1, <1>2, <1>6, <1>7
  <1>9. ConnsOK'
    BY <1>1, <1>2, <1>8 DEF ConnsOK
  <1>10. Stays(conns, conns') /\ SameHands(conns, conns')
    BY <1>3, <1>7, <1>8, Zenon DEF Stays, SameHands
  <1> QED
    BY <1>6, <1>8, <1>9, <1>10, Zenon DEF ha

(***************************************************************************)
(* The peers maps.                                                         *)
(***************************************************************************)
\* What an entry says of its connection stays true.
LEMMA EntriesStay ==
    ASSUME ConnsOK, ConnsOK', Len(conns) <= Len(conns'), Stays(conns, conns'),
           NEW p, EntryOK(p)
    PROVE  EntryOK(p)'
  <1> DEFINE e == p.end
  <1>1. e \in Ends /\ e[1] \in 1 .. Len(conns) /\ e[2] \in Role /\ e = <<e[1], e[2]>>
    BY ConnFacts, Zenon DEF EntryOK
  <1>2. Kept(conns[e[1]], conns'[e[1]])
    BY <1>1, Zenon DEF Stays
  <1>3. e \in Ends'
    <2>1. e[1] \in DOMAIN conns'
      BY <1>1 DEF ConnsOK
    <2>2. <<e[1], e[2]>> \in Ends'
      BY <1>1, <2>1 DEF Ends
    <2> QED BY <1>1, <2>2, Zenon
  <1>4. KeyOf(e)' = KeyOf(e)
    BY <1>2, Zenon DEF KeyOf, Kept
  <1>5. p = [key |-> KeyOf(e)', end |-> e]
    BY <1>4, Zenon DEF EntryOK
  <1>6. e[2] = "accept" => conns'[e[1]].accepted
    BY <1>2, Zenon DEF EntryOK, Kept
  <1> QED
    BY <1>3, <1>5, <1>6, Zenon DEF EntryOK

LEMMA OnwardStays ==
    ASSUME ConnsOK, Onward(published', conns, conns')
    PROVE  ConnsOK' /\ Len(conns') = Len(conns) /\ Len(conns) <= Len(conns') /\ Stays(conns, conns')
  BY DEF ConnsOK, Onward, Stays

Subside == DOMAIN peers' = Node /\ \A n \in Node : peers'[n] \subseteq peers[n]

\* A step that adds no entry.
LEMMA PeersSubside ==
    ASSUME PeersOK, ConnsOK, ConnsOK', Len(conns) <= Len(conns'), Stays(conns, conns'), Subside
    PROVE  PeersOK'
  <1>1. \A n \in Node : \A p \in peers'[n] : EntryOK(p)'
    BY EntriesStay, Zenon DEF PeersOK, Subside
  <1>2. \A n \in Node : \A p, q \in peers'[n] : p.key = q.key => p = q
    BY Zenon DEF PeersOK, Subside
  <1> QED
    BY <1>1, <1>2, Zenon DEF PeersOK, Subside

\* End e enters the map of n, next to the entries ps.
Enters(n, ps, e) ==
    /\ ps \subseteq peers[n] /\ \A p \in ps : p.key # KeyOf(e)'
    /\ peers' = [peers EXCEPT ![n] = ps \cup {[key |-> KeyOf(e)', end |-> e]}]
    /\ e \in Ends' /\ (e[2] = "accept" => conns'[e[1]].accepted)

LEMMA PeersOneMore ==
    ASSUME PeersOK, ConnsOK, ConnsOK', Len(conns) <= Len(conns'), Stays(conns, conns'),
           NEW n \in Node, NEW ps, NEW e, Enters(n, ps, e)
    PROVE  PeersOK'
  <1>k. PICK key : key = KeyOf(e)'
    OBVIOUS
  <1>n. PICK new : new = [key |-> key, end |-> e]
    BY Zenon
  <1>1. DOMAIN peers' = Node /\ peers'[n] = ps \cup {new}
        /\ \A m \in Node : m # n => peers'[m] = peers[m]
    BY <1>k, <1>n DEF PeersOK, Enters
  <1>2. EntryOK(new)' /\ new.key = key
    <2>1. new.key = key /\ new.end = e
      BY <1>n
    <2>2. KeyOf(new.end)' = key
      BY <1>k, <2>1, Zenon DEF KeyOf
    <2>3. new = [key |-> KeyOf(new.end)', end |-> new.end]
      BY <1>n, <2>1, <2>2, Zenon
    <2>4. new.end \in Ends' /\ (new.end[2] = "accept" => conns'[new.end[1]].accepted)
      BY <2>1, Zenon DEF Enters
    <2>5. EntryOK(new)'
      BY <2>3, <2>4 DEF EntryOK
    <2> QED BY <2>1, <2>5
  <1>0. ps \subseteq peers[n] /\ \A p \in ps : p.key # key
    BY <1>k DEF Enters
  <1>3. \A m \in Node : \A p \in peers'[m] : EntryOK(p)'
    BY <1>0, <1>1, <1>2, EntriesStay, Zenon DEF PeersOK
  <1>4. \A m \in Node : \A p, q \in peers'[m] : p.key = q.key => p = q
    <2> SUFFICES ASSUME NEW m \in Node, NEW p \in peers'[m], NEW q \in peers'[m], p.key = q.key
                 PROVE  p = q
      BY Zenon
    <2>1. \A a, b \in peers[m] : a.key = b.key => a = b
      BY Zenon DEF PeersOK
    <2>2. CASE m # n
      BY <1>1, <2>1, <2>2, Zenon
    <2>3. CASE m = n
      <3>1. (p \in ps \/ p = new) /\ (q \in ps \/ q = new)
        BY <1>1, <2>3, Zenon
      <3>2. CASE p \in ps /\ q \in ps
        BY <1>0, <2>1, <2>3, <3>2, Zenon
      <3>3. CASE p = new \/ q = new
        BY <1>0, <1>2, <3>1, <3>3, Zenon
      <3> QED BY <3>1, <3>2, <3>3, Zenon
    <2> QED BY <2>2, <2>3, Zenon
  <1> QED
    BY <1>1, <1>3, <1>4, Zenon DEF PeersOK

LEMMA PeersAccept ==
    ASSUME GInv, NEW c \in DOMAIN conns, Accept(c)
    PROVE  PeersOK'
  <1> DEFINE n == conns[c].listener
             e == <<c, "accept">>
  <1>1. PeersOK /\ ConnsOK /\ Onward(published', conns, conns')
    <2>1. Onward(published, conns, conns') /\ published' = published
      BY ConnectionSteps, Zenon DEF Accept
    <2> QED BY <2>1, Zenon DEF GInv
  <1>2. ConnsOK' /\ Len(conns) <= Len(conns') /\ Stays(conns, conns') /\ Len(conns') = Len(conns)
    BY <1>1, OnwardStays, Zenon
  <1>3. c \in 1 .. Len(conns) /\ conns[c] \in ConnOf(published) /\ n \in Node
    BY <1>1, ConnFacts, Zenon DEF ConnOf
  <1>4. peers' = [peers EXCEPT ![n] = peers[n] \cup {[key |-> <<"port", c>>, end |-> e]}]
    BY Zenon DEF Accept
  <1>5. conns'[c].accepted
    BY <1>1, <1>3 DEF Accept, ConnsOK, ConnOf
  <1>6. e \in Ends' /\ KeyOf(e)' = <<"port", c>>
    <2>1. c \in DOMAIN conns' /\ "accept" \in Role /\ "accept" # "dial"
      BY <1>2, <1>3 DEF ConnsOK, Role
    <2> QED BY <2>1 DEF Ends, KeyOf
  <1>7. ASSUME NEW p \in peers[n], p.key = <<"port", c>> PROVE FALSE
    <2>0. EntryOK(p)
      BY <1>1, <1>3, Zenon DEF PeersOK
    <2>1. EntryOK(p) /\ p.key = KeyOf(p.end)
      BY <2>0 DEF EntryOK
    <2>2. p.end[2] = "accept" /\ p.end[1] = c
      <3>1. p.end[2] \in Role
        BY <1>1, <2>1, ConnFacts, Zenon DEF EntryOK
      <3> QED BY <1>7, <2>1, <3>1 DEF KeyOf, Role
    <2> QED
      BY <2>1, <2>2, Zenon DEF EntryOK, Accept
  <1>8. e[1] = c /\ peers[n] \subseteq peers[n]
    OBVIOUS
  <1>9. Enters(n, peers[n], e)
    BY <1>4, <1>5, <1>6, <1>7, <1>8, Zenon DEF Enters
  <1> HIDE DEF e, n
  <1> QED
    BY <1>1, <1>2, <1>3, <1>9, PeersOneMore, Zenon

LEMMA PeersDial ==
    ASSUME GInv, NEW l \in Loops, Dial(l)
    PROVE  PeersOK'
  <1> DEFINE n == l[1][1]
             key == <<"address", l[1][2]>>
             ps == Remaining(peers[n], key)
  <1>1. PeersOK /\ ConnsOK /\ Len(conns) \in Nat
    BY DEF GInv, ConnsOK
  <1>2. PICK c : c = Len(conns) + 1
    OBVIOUS
  <1> DEFINE e == <<c, "dial">>
  <1>3. /\ ConnsOK' /\ Len(conns') = Len(conns) + 1 /\ Stays(conns, conns')
        /\ conns'[c].listener = l[1][2]
    BY <1>2, DialStep, Zenon
  <1>4. Len(conns) <= Len(conns') /\ c \in 1 .. Len(conns')
    BY <1>1, <1>2, <1>3
  <1>5. n \in Node
    BY LoopLinks, Zenon
  <1>6. peers' = [peers EXCEPT ![n] = ps \cup {[key |-> key, end |-> e]}]
    BY <1>2, Zenon DEF Dial
  <1>7. e \in Ends' /\ KeyOf(e)' = key
    <2>1. c \in DOMAIN conns' /\ "dial" \in Role
      BY <1>3, <1>4 DEF ConnsOK, Role
    <2> QED BY <1>3, <2>1 DEF Ends, KeyOf
  <1>8. e[2] = "accept" => conns'[e[1]].accepted
    OBVIOUS
  <1>9. ps \subseteq peers[n] /\ \A p \in ps : p.key # key
    BY Zenon DEF Remaining
  <1>10. Enters(n, ps, e)
    <2> HIDE DEF ps
    <2> QED BY <1>6, <1>7, <1>8, <1>9, Zenon DEF Enters
  <1> HIDE DEF e, n, ps
  <1> QED
    BY <1>1, <1>3, <1>4, <1>5, <1>10, PeersOneMore, Zenon

(***************************************************************************)
(* Frames.                                                                 *)
(***************************************************************************)
Counts == [Node -> [Frame -> 0 .. 2]]

LEMMA CountOK ==
    ASSUME NEW h \in Counts, NEW n \in Node, NEW f \in Frame
    PROVE  Count(h, n, f) \in Counts
  <1> DEFINE k == IF h[n][f] = 2 THEN 2 ELSE h[n][f] + 1
             row == [h[n] EXCEPT ![f] = k]
  <1>1. Count(h, n, f) = [h EXCEPT ![n] = row]
    BY DEF Count
  <1>2. h[n] \in [Frame -> 0 .. 2] /\ k \in 0 .. 2
    BY DEF Counts
  <1> HIDE DEF k
  <1>3. row \in [Frame -> 0 .. 2]
    BY <1>2
  <1> HIDE DEF row
  <1> QED
    BY <1>1, <1>3 DEF Counts

GivenOnce(h, k, n, f) ==
    \A m \in Node : \A g \in Frame : k[m][g] = IF m = n /\ g = f THEN 1 ELSE h[m][g]

LEMMA CountFirst ==
    ASSUME NEW h \in Counts, NEW n \in Node, NEW f \in Frame, h[n][f] = 0
    PROVE  /\ GivenOnce(h, Count(h, n, f), n, f)
           /\ Count(h, n, f) = [h EXCEPT ![n][f] = 1]
  <1> DEFINE row == [h[n] EXCEPT ![f] = 1]
  <1>1. Count(h, n, f) = [h EXCEPT ![n] = row]
    BY DEF Count
  <1>2. h[n] \in [Frame -> 0 .. 2]
    BY DEF Counts
  <1>3. \A g \in Frame : row[g] = IF g = f THEN 1 ELSE h[n][g]
    BY <1>2
  <1>4. Count(h, n, f) = [h EXCEPT ![n][f] = 1]
    BY <1>1
  <1> HIDE DEF row
  <1>5. \A m \in Node : Count(h, n, f)[m] = IF m = n THEN row ELSE h[m]
    BY <1>1 DEF Counts
  <1>6. GivenOnce(h, Count(h, n, f), n, f)
    BY <1>3, <1>5, Zenon DEF GivenOnce
  <1> QED BY <1>4, <1>6, Zenon

\* A node numbers its frames, so no two are the same.
NewFrame(n, f) ==
    /\ f \in Frame /\ f \notin published /\ f.from = n
    /\ published' = published \cup {f} /\ handed' = Count(handed, n, f)

LEMMA PublishFrames ==
    ASSUME GInv, NEW n \in Node, Publish(n)
    PROVE  FramesOK' /\ \E f : NewFrame(n, f)
  <1>0. PICK num : num = Cardinality(By(n)) + 1
    OBVIOUS
  <1>00. PICK linked : linked = Linked(Wanted)
    OBVIOUS
  <1> DEFINE f == [from |-> n, num |-> num, linked |-> linked]
  <1>1. FramesOK /\ setup \in Setups
    BY DEF GInv
  <1>2. /\ num <= setup.quota[n]
        /\ published' = published \cup {f} /\ handed' = Count(handed, n, f) /\ seen' = seen
    BY <1>0, <1>00, Zenon DEF Publish, By
  <1>3. IsFiniteSet(By(n)) /\ Cardinality(By(n)) \in Nat
    <2>1. By(n) \subseteq published
      BY DEF By
    <2> QED BY <1>1, <2>1, FS_Subset, FS_CardinalityType, Zenon DEF FramesOK
  <1>4. f \in Frame
    <2>1. setup.quota[n] \in 0 .. MaxNum /\ MaxNum \in Nat
      BY <1>1, GossipAssumption
    <2>2. num \in 1 .. MaxNum
      BY <1>0, <1>2, <1>3, <2>1
    <2>3. linked \in BOOLEAN
      BY <1>00, Zenon DEF Linked
    <2> QED BY <2>2, <2>3, Zenon DEF Frame
  <1>5. f.from = n /\ f.num = num
    OBVIOUS
  <1> HIDE DEF f
  <1>6. f \notin By(n) /\ f \notin published
    <2>1. f \in published => num <= Cardinality(By(n))
      BY <1>1, <1>5, Zenon DEF FramesOK
    <2>2. f \notin published
      BY <1>0, <1>3, <2>1
    <2> QED BY <2>2, Zenon DEF By
  <1>7. NewFrame(n, f)
    BY <1>2, <1>4, <1>5, <1>6, Zenon DEF NewFrame
  <1>8. published' \in SUBSET Frame /\ IsFiniteSet(published')
    BY <1>1, <1>2, <1>4, FS_AddElement, Zenon DEF FramesOK
  <1>9. \A g \in published' : g.num <= Cardinality(By(g.from)')
    <2>1. By(n)' = By(n) \cup {f}
      BY <1>2, <1>5, Zenon DEF By
    <2>2. Cardinality(By(n)') = num
      BY <1>0, <1>3, <1>6, <2>1, FS_AddElement, Zenon
    <2>3. ASSUME NEW g \in published' PROVE g.num <= Cardinality(By(g.from)')
      <3>1. CASE g.from = n
        <4>1. Cardinality(By(g.from)') = num
          BY <2>2, <3>1 DEF By
        <4>2. g = f \/ (g \in published /\ g.num <= Cardinality(By(n)))
          BY <1>1, <1>2, <3>1, Zenon DEF FramesOK
        <4>3. g.num \in Nat
          BY <1>8 DEF Frame
        <4> QED BY <1>0, <1>3, <1>5, <4>1, <4>2, <4>3
      <3>2. CASE g.from # n
        <4>1. g \in published
          BY <1>2, <1>5, <3>2, Zenon
        <4>2. By(g.from)' = By(g.from)
          BY <1>2, <1>5, <3>2, Zenon DEF By
        <4> QED BY <1>1, <4>1, <4>2, Zenon DEF FramesOK
      <3> QED BY <3>1, <3>2
    <2> QED BY <2>3, Zenon
  <1>10. handed' \in [Node -> [Frame -> 0 .. 2]]
    <2>1. handed \in Counts
      BY <1>1, Zenon DEF FramesOK, Counts
    <2>2. handed' \in Counts
      BY <1>2, <1>4, <2>1, CountOK, Zenon
    <2> QED BY <2>2, Zenon DEF Counts
  <1>11. seen' \in [Node -> Seq(published')]
    <2>1. \A s \in Seq(published) : s \in Seq(published')
      BY <1>2
    <2> QED BY <1>1, <1>2, <2>1, Zenon DEF FramesOK
  <1> QED
    BY <1>1, <1>2, <1>7, <1>8, <1>9, <1>10, <1>11, Zenon DEF FramesOK

\* The window slides.
LEMMA NoteSeenOK ==
    ASSUME NEW F, NEW s \in Seq(F), Len(s) <= Window, NEW f \in F
    PROVE  NoteSeen(s, f) \in Seq(F) /\ Len(NoteSeen(s, f)) <= Window
  <1> DEFINE t == Append(s, f)
  <1>1. Window \in Nat
    BY GossipAssumption
  <1>2. t \in Seq(F) /\ Len(t) = Len(s) + 1 /\ t # <<>>
    OBVIOUS
  <1>3. Tail(t) \in Seq(F) /\ Len(Tail(t)) = Len(s)
    BY <1>2
  <1> QED
    BY <1>1, <1>2, <1>3 DEF NoteSeen

LEMMA ReadFrames ==
    ASSUME GInv, NEW e \in Ends, Read(e)
    PROVE  FramesOK'
  <1>1. FramesOK /\ ConnsOK /\ published' = published /\ handed' = handed
    BY Zenon DEF GInv, Read
  <1>2. CASE seen' = seen
    BY <1>1, <1>2, Zenon DEF FramesOK, By
  <1>3. CASE \E f \in published : Notes(e, f)
    <2>1. PICK f \in published : Notes(e, f)
      BY <1>3
    <2> DEFINE n == NodeOf(e)
    <2>2. n \in Node
      <3>1. conns[e[1]] \in ConnOf(published)
        BY <1>1, ConnFacts, Zenon
      <3> QED BY <3>1, Zenon DEF NodeOf, ConnOf
    <2>3. seen' = [seen EXCEPT ![n] = NoteSeen(seen[n], f)]
      BY <2>1, Zenon DEF Notes
    <2> HIDE DEF n
    <2>4. seen[n] \in Seq(published) /\ Len(seen[n]) <= Window
      BY <1>1, <2>2, Zenon DEF FramesOK
    <2>5. NoteSeen(seen[n], f) \in Seq(published) /\ Len(NoteSeen(seen[n], f)) <= Window
      BY <2>4, NoteSeenOK, Zenon
    <2>6. seen' \in [Node -> Seq(published)]
      BY <1>1, <2>3, <2>5, Zenon DEF FramesOK
    <2>7. \A m \in Node : Len(seen'[m]) <= Window
      <3>1. seen'[n] = NoteSeen(seen[n], f) /\ \A m \in Node : m # n => seen'[m] = seen[m]
        BY <1>1, <2>2, <2>3, Zenon DEF FramesOK
      <3> QED BY <1>1, <2>5, <3>1, Zenon DEF FramesOK
    <2> QED
      BY <1>1, <2>6, <2>7, Zenon DEF FramesOK, By
  <1> QED BY <1>2, <1>3, ReadStep, Zenon

(***************************************************************************)
(* The state keeps its type.                                               *)
(***************************************************************************)
LEMMA LoopsOK ==
    ASSUME GInv, [Next]_vars
    PROVE  /\ setup' \in Setups
           /\ loop' \in [Loops -> 0 .. Off]
           /\ closed' \subseteq stopping' /\ stopping' \subseteq setup'.closers
  <1>1. /\ setup \in Setups /\ loop \in [Loops -> 0 .. Off] /\ ConnsOK
        /\ closed \subseteq stopping /\ stopping \subseteq setup.closers
    BY DEF GInv
  <1>2. MaxConns \in Nat /\ 0 \in 0 .. Off /\ Off \in 0 .. Off /\ Len(conns) \in Nat
        /\ (Len(conns) < MaxConns => Len(conns) + 1 \in 0 .. Off)
    BY <1>1, GossipAssumption DEF Off, ConnsOK
  <1>3. setup' = setup
    BY Zenon DEF vars, Next, Task, Environment, Dial, Accept, ReadEnds, WriteFails, Finish, Read,
                 Deliver, Relay, Stopped, Discover, ConnectPeer, Break, Publish, Close
  <1>4. closed' \subseteq stopping' /\ stopping' \subseteq setup.closers
    <2>1. CASE \E n \in Node : Close(n)
      BY <1>1, <2>1 DEF Close
    <2>2. CASE \E n \in Node : Stopped(n)
      BY <1>1, <2>2, Zenon DEF Stopped
    <2>3. CASE closed' = closed /\ stopping' = stopping
      BY <1>1, <2>3
    <2> QED
      BY <2>1, <2>2, <2>3, Zenon DEF vars, Next, Task, Environment, Dial, Accept, ReadEnds, WriteFails,
                 Finish, Read, Deliver, Relay, Discover, ConnectPeer, Break, Publish
  <1>5. loop' \in [Loops -> 0 .. Off]
    <2>1. CASE \E l \in Loops : Dial(l)
      BY <1>1, <1>2, <2>1, Zenon DEF Dial
    <2>2. CASE \E a, b \in Node : Discover(a, b) \/ ConnectPeer(a, b)
      BY <1>1, <1>2, <2>2, Zenon DEF Discover, ConnectPeer, Dialing
    <2>3. CASE \E e \in Ends : Finish(e)
      <3>1. PICK e \in Ends : Finish(e)
        BY <2>3
      <3>2. CASE loop' = loop
        BY <1>1, <3>2
      <3>3. CASE loop' = [loop EXCEPT ![conns[e[1]].by] = IF NodeOf(e) \in stopping THEN Off ELSE Dialing]
        BY <1>1, <1>2, <3>3, Zenon DEF Dialing
      <3> QED BY <3>1, <3>2, <3>3, Zenon DEF Finish
    <2>4. CASE \E n \in Node : Stopped(n)
      BY <1>1, <1>2, <2>4, Zenon DEF Stopped
    <2>5. CASE loop' = loop
      BY <1>1, <2>5
    <2> QED
      BY <2>1, <2>2, <2>3, <2>4, <2>5, Zenon DEF vars, Next, Task, Environment, Accept, ReadEnds, WriteFails,
                 Read, Deliver, Relay, Break, Publish, Close
  <1> QED BY <1>1, <1>3, <1>4, <1>5, Zenon

\* What the steps that make no connection do to the connections, to the peers
\* maps and to the frames.
Moved == Onward(published', conns, conns') /\ Subside

LEMMA MovedSteps ==
    ASSUME GInv, [Next]_vars
    PROVE  Moved \/ (\E l \in Loops : Dial(l)) \/ \E c \in DOMAIN conns : Accept(c)
  <1>1. DOMAIN peers = Node /\ ConnsOK
    BY DEF GInv, PeersOK
  <1>2. CASE UNCHANGED conns /\ UNCHANGED published /\ UNCHANGED peers
    <2>1. Onward(published', conns, conns')
      BY <1>1, <1>2, Zenon DEF Onward, Kept, ConnsOK
    <2> QED BY <1>1, <1>2, <2>1, Zenon DEF Moved, Subside
  <1>3. CASE \E c \in DOMAIN conns : Break(c)
    <2>1. Onward(published, conns, conns') /\ published' = published /\ peers' = peers
      BY <1>3, ConnectionSteps, Zenon DEF Break
    <2> QED BY <1>1, <2>1, Zenon DEF Moved, Subside
  <1>4. CASE \E e \in Ends : ReadEnds(e) \/ WriteFails(e)
    <2>1. Onward(published, conns, conns') /\ published' = published /\ peers' = peers
      BY <1>4, ConnectionSteps, Zenon DEF ReadEnds, WriteFails
    <2> QED BY <1>1, <2>1, Zenon DEF Moved, Subside
  <1>5. CASE \E e \in Ends : Finish(e)
    <2>1. Onward(published, conns, conns')
      BY <1>5, EndingSteps, Zenon
    <2>2. PICK n, key : peers' = [peers EXCEPT ![n] = Remaining(@, key)] /\ published' = published
      BY <1>5, Zenon DEF Finish
    <2>3. Subside
      BY <1>1, <2>2 DEF Subside, Remaining
    <2> QED BY <2>1, <2>2, <2>3, Zenon DEF Moved
  <1>6. CASE \E n \in Node : Close(n)
    <2>1. Onward(published, conns, conns')
      BY <1>6, EndingSteps, Zenon
    <2>2. PICK n : peers' = [peers EXCEPT ![n] = {}] /\ published' = published
      BY <1>6, Zenon DEF Close
    <2>3. Subside
      BY <1>1, <2>2 DEF Subside
    <2> QED BY <2>1, <2>2, <2>3, Zenon DEF Moved
  <1>7. CASE \E n \in Node : Stopped(n)
    <2>1. Onward(published, conns, conns')
      BY <1>7, StoppedStep, Zenon
    <2>2. PICK n : peers' = [peers EXCEPT ![n] = {}] /\ published' = published
      BY <1>7, Zenon DEF Stopped
    <2>3. Subside
      BY <1>1, <2>2 DEF Subside
    <2> QED BY <2>1, <2>2, <2>3, Zenon DEF Moved
  <1>8. CASE \E e \in Ends : Read(e)
    <2>1. Onward(published, conns, conns') /\ published' = published /\ peers' = peers
      BY <1>8, ReadStep, Zenon DEF Read
    <2> QED BY <1>1, <2>1, Zenon DEF Moved, Subside
  <1>9. CASE \E e \in Ends : Deliver(e)
    <2>1. Onward(published, conns, conns') /\ published' = published /\ peers' = peers
      BY <1>9, DeliverStep, Zenon DEF Deliver
    <2> QED BY <1>1, <2>1, Zenon DEF Moved, Subside
  <1>10. CASE (\E e \in Ends : Relay(e)) \/ \E n \in Node : Publish(n)
    <2>1. Onward(published', conns, conns') /\ peers' = peers
      BY <1>10, SendingSteps, Zenon DEF Relay, Publish
    <2> QED BY <1>1, <2>1, Zenon DEF Moved, Subside
  <1> QED
    BY <1>2, <1>3, <1>4, <1>5, <1>6, <1>7, <1>8, <1>9, <1>10, Zenon
       DEF Next, Task, Environment, vars, Discover, ConnectPeer

LEMMA FramesStep ==
    ASSUME GInv, [Next]_vars
    PROVE  FramesOK'
  <1>1. FramesOK /\ ConnsOK
    BY DEF GInv
  <1>2. CASE \E n \in Node : Publish(n)
    BY <1>2, PublishFrames, Zenon
  <1>3. CASE \E e \in Ends : Read(e)
    BY <1>3, ReadFrames, Zenon
  <1>4. CASE \E e \in Ends : Deliver(e)
    <2>1. PICK e \in Ends : Deliver(e)
      BY <1>4
    <2>2. PICK n, f : handed' = Count(handed, n, f) /\ n \in Node /\ f \in Frame
      <3>1. conns[e[1]].hand[e[2]].frame \in published
        BY <2>1, DeliverStep, Zenon
      <3>2. conns[e[1]] \in ConnOf(published)
        BY <1>1, ConnFacts, Zenon
      <3>3. NodeOf(e) \in Node
        BY <3>2, Zenon DEF NodeOf, ConnOf
      <3>4. conns[e[1]].hand[e[2]].frame \in Frame
        BY <1>1, <3>1, Zenon DEF FramesOK
      <3> QED BY <2>1, <3>3, <3>4, Zenon DEF Deliver
    <2>3. handed' \in [Node -> [Frame -> 0 .. 2]]
      <3>1. handed \in Counts
        BY <1>1, Zenon DEF FramesOK, Counts
      <3>2. handed' \in Counts
        BY <2>2, <3>1, CountOK, Zenon
      <3> QED BY <3>2, Zenon DEF Counts
    <2> QED BY <1>1, <2>1, <2>3, Zenon DEF FramesOK, By, Deliver
  <1>5. CASE published' = published /\ handed' = handed /\ seen' = seen
    BY <1>1, <1>5, Zenon DEF FramesOK, By
  <1> QED
    BY <1>2, <1>3, <1>4, <1>5, Zenon DEF vars, Next, Task, Environment, Dial, Accept, ReadEnds, WriteFails,
       Finish, Relay, Stopped, Discover, ConnectPeer, Break, Close

LEMMA GInvStep ==
    ASSUME GInv, [Next]_vars
    PROVE  GInv'
  <1>1. PeersOK /\ ConnsOK
    BY DEF GInv
  <1>2. CASE Moved
    <2>1. ConnsOK' /\ Len(conns) <= Len(conns') /\ Stays(conns, conns')
      BY <1>1, <1>2, OnwardStays, Zenon DEF Moved
    <2>2. PeersOK'
      BY <1>1, <1>2, <2>1, PeersSubside, Zenon DEF Moved
    <2> QED BY <2>1, <2>2, LoopsOK, FramesStep, Zenon DEF GInv
  <1>3. CASE \E l \in Loops : Dial(l)
    BY <1>3, DialStep, PeersDial, LoopsOK, FramesStep, Zenon DEF GInv
  <1>4. CASE \E c \in DOMAIN conns : Accept(c)
    <2>1. Onward(published', conns, conns')
      BY <1>4, ConnectionSteps, Zenon DEF Accept
    <2>2. ConnsOK'
      BY <1>1, <2>1, OnwardStays, Zenon
    <2> QED BY <1>4, <2>2, PeersAccept, LoopsOK, FramesStep, Zenon DEF GInv
  <1> QED BY <1>2, <1>3, <1>4, MovedSteps, Zenon

LEMMA GInvInit ==
    ASSUME Init
    PROVE  GInv
  <1>1. MaxConns \in Nat /\ MaxNum \in Nat /\ Window \in Nat
    BY GossipAssumption
  <1>2. loop \in [Loops -> 0 .. Off]
    BY <1>1 DEF Init, Off, Dialing
  <1>3. ConnsOK
    BY <1>1 DEF Init, ConnsOK
  <1>4. FramesOK
    <2>1. published \in SUBSET Frame /\ IsFiniteSet(published)
          /\ \A f \in published : f.num <= Cardinality(By(f.from))
      BY FS_EmptySet, Zenon DEF Init
    <2>2. handed \in [Node -> [Frame -> 0 .. 2]]
      BY DEF Init
    <2>3. seen \in [Node -> Seq(published)] /\ \A n \in Node : Len(seen[n]) <= Window
      BY <1>1 DEF Init
    <2> QED BY <2>1, <2>2, <2>3, Zenon DEF FramesOK
  <1>5. PeersOK
    BY Zenon DEF Init, PeersOK
  <1> QED
    BY <1>2, <1>3, <1>4, <1>5, Zenon DEF Init, GInv

LEMMA GInvHolds == Spec => []GInv
  <1>1. Init => GInv
    BY GInvInit
  <1>2. GInv /\ [Next]_vars => GInv'
    BY GInvStep
  <1> QED
    BY <1>1, <1>2, PTL DEF Spec

\* The transport's state keeps its type, whatever its peers and the network
\* do: every entry of a peers map is an end of a connection the map's node
\* has, no key has two entries, and the window of seen ids stays within
\* LOOP_WINDOW.
THEOREM GossipTypeCorrect == Spec => []TypeOK
  <1>1. GInv => TypeOK
    <2> SUFFICES ASSUME GInv PROVE TypeOK
      OBVIOUS
    <2>1. FramesOK /\ ConnsOK /\ PeersOK
      BY DEF GInv
    <2>2. ASSUME NEW e \in Ends
          PROVE  /\ conns[e[1]].reading \cup conns[e[1]].writing \subseteq Role
                 /\ conns[e[1]].hand[e[2]].at \in {"read", "deliver", "relay"}
      <3>1. conns[e[1]] \in ConnOf(published) /\ e[2] \in Role
        BY <2>1, ConnFacts, Zenon
      <3>2. conns[e[1]].hand[e[2]] \in HandOf(published)
        BY <3>1, Zenon DEF ConnOf
      <3>3. conns[e[1]].hand[e[2]].at \in {"read", "deliver", "relay"}
        BY <3>2 DEF HandOf, Reading
      <3> QED BY <3>1, <3>3, Zenon DEF ConnOf
    <2>3. ASSUME NEW n \in Node PROVE EndsIn(peers[n]) \subseteq Ends
      BY <2>1, Zenon DEF PeersOK, EntryOK, EndsIn
    <2> QED
      BY <2>1, <2>2, <2>3, Zenon DEF GInv, TypeOK, FramesOK, ConnsOK, PeersOK
  <1> QED
    BY <1>1, GInvHolds, PTL

(***************************************************************************)
(* The transport is a broadcast as long as the window of seen ids can hold *)
(* the frames there are.                                                   *)
(***************************************************************************)
WindowHolds == Cardinality(published) <= Window

Noted(n) == Range(seen[n])

\* The read loop at end e is about to give f to the handlers.
Holds(e, f) == conns[e[1]].hand[e[2]] = [at |-> "deliver", frame |-> f]

HoldOK(e, f) ==
    /\ f \in published /\ f.from # NodeOf(e)
    /\ f \in Noted(NodeOf(e))
    /\ handed[NodeOf(e)][f] = 0

HoldsOK == \A e \in Ends : \A f \in Frame : Holds(e, f) => HoldOK(e, f)

Alone(e, f) == \A d \in Ends : Holds(d, f) /\ NodeOf(d) = NodeOf(e) => d = e

AloneOK == \A e \in Ends : \A f \in Frame : Holds(e, f) => Alone(e, f)

OnceOK ==
    \A n \in Node : \A f \in Frame :
        /\ handed[n][f] # 2
        /\ handed[n][f] # 0 => f \in published /\ (f.from = n \/ f \in Noted(n))

NotedOK == \A n \in Node : Len(seen[n]) = Cardinality(Noted(n))

BInv == HoldsOK /\ AloneOK /\ OnceOK /\ NotedOK

LEMMA EndFacts ==
    ASSUME ConnsOK, NEW e \in Ends
    PROVE  NodeOf(e) \in Node /\ e[1] \in 1 .. Len(conns) /\ e[2] \in Role
           /\ \A f : Holds(e, f) => f \in published
  <1>1. conns[e[1]] \in ConnOf(published) /\ e[1] \in 1 .. Len(conns) /\ e[2] \in Role
    BY ConnFacts, Zenon
  <1>2. NodeOf(e) \in Node
    BY <1>1, Zenon DEF NodeOf, ConnOf
  <1>3. conns[e[1]].hand[e[2]] \in HandOf(published)
    BY <1>1, Zenon DEF ConnOf
  <1>4. ASSUME NEW f, Holds(e, f) PROVE f \in published
    BY <1>3, <1>4 DEF HandOf, Holds, Reading
  <1> QED BY <1>1, <1>2, <1>4, Zenon

\* No read loop starts to hand a frame over.
Quietly == \A d \in Ends' : \A g : Holds(d, g)' => d \in Ends /\ Holds(d, g) /\ NodeOf(d)' = NodeOf(d)

LEMMA SameNode ==
    ASSUME Stays(conns, conns'), NEW d, d[1] \in 1 .. Len(conns)
    PROVE  NodeOf(d)' = NodeOf(d)
  BY Zenon DEF Stays, Kept, NodeOf

LEMMA CalmIsQuiet ==
    ASSUME ConnsOK, Onward(published', conns, conns'), Calmly(conns, conns')
    PROVE  Quietly
  <1> SUFFICES ASSUME NEW d \in Ends', NEW g, Holds(d, g)'
               PROVE  d \in Ends /\ Holds(d, g) /\ NodeOf(d)' = NodeOf(d)
    BY Zenon DEF Quietly
  <1>1. ConnsOK' /\ Len(conns') = Len(conns) /\ Stays(conns, conns')
    BY OnwardStays, Zenon
  <1>2. DOMAIN conns' = DOMAIN conns
    BY <1>1 DEF ConnsOK
  <1>3. d \in Ends
    BY <1>2 DEF Ends
  <1>4. d[1] \in 1 .. Len(conns) /\ d[2] \in Role
    BY <1>3, EndFacts, Zenon
  <1>5. conns'[d[1]].hand[d[2]] = conns[d[1]].hand[d[2]] \/ conns'[d[1]].hand[d[2]].at # "deliver"
    BY <1>4, Zenon DEF Calmly, Calm
  <1>6. Holds(d, g)
    <2>1. conns'[d[1]].hand[d[2]].at = "deliver"
      BY DEF Holds
    <2> QED BY <1>5, <2>1, Zenon DEF Holds
  <1> QED BY <1>1, <1>3, <1>4, <1>6, SameNode, Zenon

LEMMA DialIsQuiet ==
    ASSUME GInv, NEW l \in Loops, Dial(l)
    PROVE  Quietly
  <1> SUFFICES ASSUME NEW d \in Ends', NEW g, Holds(d, g)'
               PROVE  d \in Ends /\ Holds(d, g) /\ NodeOf(d)' = NodeOf(d)
    BY Zenon DEF Quietly
  <1>1. /\ ConnsOK' /\ Len(conns') = Len(conns) + 1
        /\ Stays(conns, conns') /\ SameHands(conns, conns')
        /\ conns'[Len(conns) + 1].hand = [r \in Role |-> Reading]
    BY DialStep, Zenon
  <1>2. Len(conns) \in Nat /\ DOMAIN conns = 1 .. Len(conns) /\ DOMAIN conns' = 1 .. Len(conns) + 1
    BY <1>1 DEF GInv, ConnsOK
  <1>3. d = <<d[1], d[2]>> /\ d[1] \in 1 .. Len(conns) + 1 /\ d[2] \in Role
    BY <1>2 DEF Ends
  <1>4. d[1] # Len(conns) + 1
    <2>1. ASSUME d[1] = Len(conns) + 1 PROVE FALSE
      <3>1. conns'[d[1]].hand[d[2]] = Reading
        BY <1>1, <1>3, <2>1, Zenon
      <3>2. conns'[d[1]].hand[d[2]].at = "deliver"
        BY DEF Holds
      <3> QED BY <3>1, <3>2 DEF Reading
    <2> QED BY <2>1
  <1>5. d[1] \in 1 .. Len(conns)
    BY <1>2, <1>3, <1>4
  <1>6. d \in Ends
    <2>1. <<d[1], d[2]>> \in Ends
      BY <1>2, <1>3, <1>5 DEF Ends
    <2> QED BY <1>3, <2>1, Zenon
  <1>7. Holds(d, g)
    BY <1>1, <1>5, Zenon DEF Holds, SameHands
  <1> QED BY <1>1, <1>5, <1>6, <1>7, SameNode, Zenon

LEMMA SameNoted ==
    ASSUME seen' = seen
    PROVE  /\ \A n : Noted(n)' = Noted(n)
           /\ \A e : NodeOf(e)' = NodeOf(e) => Noted(NodeOf(e))' = Noted(NodeOf(e))
  <1>1. \A n : Noted(n)' = Noted(n)
    BY Zenon DEF Noted
  <1>2. ASSUME NEW e, NodeOf(e)' = NodeOf(e) PROVE Noted(NodeOf(e))' = Noted(NodeOf(e))
    BY <1>2, Zenon DEF Noted
  <1> QED BY <1>1, <1>2, Zenon

\* A step of the transport that hands nothing over.
LEMMA BInvQuiet ==
    ASSUME GInv, BInv, Quietly, seen' = seen, handed' = handed, published' = published
    PROVE  BInv'
  <1>1. HoldsOK'
    <2> SUFFICES ASSUME NEW e \in Ends', NEW g \in Frame, Holds(e, g)'
                 PROVE  HoldOK(e, g)'
      BY Zenon DEF HoldsOK
    <2>1. e \in Ends /\ Holds(e, g) /\ NodeOf(e)' = NodeOf(e)
      BY Zenon DEF Quietly
    <2>2. HoldOK(e, g)
      BY <2>1, Zenon DEF BInv, HoldsOK
    <2>3. Noted(NodeOf(e))' = Noted(NodeOf(e))
      BY <2>1, SameNoted, Zenon
    <2> QED BY <2>1, <2>2, <2>3, Zenon DEF HoldOK
  <1>2. AloneOK'
    BY Zenon DEF BInv, AloneOK, Alone, Quietly
  <1>3. OnceOK' /\ NotedOK'
    BY SameNoted, Zenon DEF BInv, OnceOK, NotedOK
  <1> QED BY <1>1, <1>2, <1>3, Zenon DEF BInv

\* A frame is published: it is new, so its own node has not been given it.
LEMMA BInvPublish ==
    ASSUME GInv, BInv, NEW n \in Node, Publish(n)
    PROVE  BInv' /\ B!Next
  <1>1. PICK f : NewFrame(n, f)
    BY PublishFrames, Zenon
  <1>2. /\ f \in Frame /\ f \notin published /\ f.from = n /\ seen' = seen
        /\ published' = published \cup {f} /\ handed' = Count(handed, n, f)
    BY <1>1, Zenon DEF NewFrame, Publish
  <1>3. FramesOK /\ ConnsOK /\ handed \in Counts
    BY DEF GInv, FramesOK, Counts
  <1>4. Quietly
    BY <1>3, SendingSteps, CalmIsQuiet, Zenon
  <1>5. handed[n][f] = 0
    BY <1>2, Zenon DEF BInv, OnceOK
  <1>6. GivenOnce(handed, handed', n, f) /\ handed' = [handed EXCEPT ![n][f] = 1]
    <2>1. handed' = Count(handed, n, f) /\ f \in Frame /\ handed \in Counts
      BY <1>2, <1>3, Zenon
    <2> QED BY <1>5, <2>1, CountFirst, Zenon
  <1>7. \A m \in Node : Noted(m)' = Noted(m)
    BY <1>2, SameNoted, Zenon
  <1>8. HoldsOK'
    <2> SUFFICES ASSUME NEW e \in Ends', NEW g \in Frame, Holds(e, g)'
                 PROVE  HoldOK(e, g)'
      BY Zenon DEF HoldsOK
    <2>1. e \in Ends /\ Holds(e, g) /\ NodeOf(e)' = NodeOf(e) /\ HoldOK(e, g)
      BY <1>4, Zenon DEF Quietly, BInv, HoldsOK
    <2>2. NodeOf(e) \in Node /\ g \in published
      BY <1>3, <2>1, EndFacts, Zenon
    <2>3. handed'[NodeOf(e)][g] = 0
      BY <1>2, <1>6, <2>1, <2>2, Zenon DEF HoldOK, GivenOnce
    <2>4. g \in Noted(NodeOf(e))' /\ g \in published' /\ g.from # NodeOf(e)
      BY <1>2, <2>1, <2>2, SameNoted, Zenon DEF HoldOK
    <2> QED BY <2>1, <2>3, <2>4, Zenon DEF HoldOK
  <1>9. AloneOK'
    BY <1>4, Zenon DEF BInv, AloneOK, Alone, Quietly
  <1>10. OnceOK'
    <2> SUFFICES ASSUME NEW m \in Node, NEW g \in Frame
                 PROVE  /\ handed'[m][g] # 2
                        /\ handed'[m][g] # 0 => g \in published' /\ (g.from = m \/ g \in Noted(m)')
      BY Zenon DEF OnceOK
    <2>1. CASE m = n /\ g = f
      <3>1. handed'[m][g] = 1
        BY <1>6, <2>1, Zenon DEF GivenOnce
      <3> QED BY <1>2, <2>1, <3>1
    <2>2. CASE ~(m = n /\ g = f)
      <3>1. handed'[m][g] = handed[m][g]
        BY <1>6, <2>2, Zenon DEF GivenOnce
      <3> QED BY <1>2, <1>7, <3>1, Zenon DEF BInv, OnceOK
    <2> QED BY <2>1, <2>2
  <1>11. NotedOK'
    BY <1>2, <1>7, Zenon DEF BInv, NotedOK
  <1>12. B!Publish(f)
    BY <1>2, <1>6, Zenon DEF B!Publish
  <1> QED
    BY <1>2, <1>8, <1>9, <1>10, <1>11, <1>12, Zenon DEF BInv, B!Next

\* The handlers are given a frame: no other read loop of this node holds it.
LEMMA BInvDeliver ==
    ASSUME GInv, BInv, NEW e \in Ends, Deliver(e)
    PROVE  BInv' /\ B!Next
  <1> DEFINE f == conns[e[1]].hand[e[2]].frame
             n == NodeOf(e)
  <1>1. /\ Onward(published, conns, conns') /\ Calmly(conns, conns') /\ f \in published
        /\ Holds(e, f) /\ conns'[e[1]].hand[e[2]].at = "relay"
    BY DeliverStep, Zenon DEF Holds
  <1>2. published' = published /\ seen' = seen /\ handed' = Count(handed, n, f)
    BY Zenon DEF Deliver
  <1>3. FramesOK /\ ConnsOK /\ handed \in Counts /\ f \in Frame
    BY <1>1, Zenon DEF GInv, FramesOK, Counts
  <1>4. n \in Node
    BY <1>3, EndFacts, Zenon
  <1>5. Quietly
    BY <1>1, <1>2, <1>3, CalmIsQuiet, Zenon
  <1>6. HoldOK(e, f) /\ Alone(e, f)
    BY <1>1, <1>3, Zenon DEF BInv, HoldsOK, AloneOK
  <1>7. handed[n][f] = 0 /\ f \in Noted(n)
    BY <1>6, Zenon DEF HoldOK
  <1>8. PICK g : g = f
    OBVIOUS
  <1>9. PICK m : m = n
    OBVIOUS
  <1>10. GivenOnce(handed, handed', m, g) /\ handed' = [handed EXCEPT ![m][g] = 1]
    <2>1. handed' = Count(handed, m, g) /\ m \in Node /\ g \in Frame /\ handed[m][g] = 0
      BY <1>2, <1>3, <1>4, <1>7, <1>8, <1>9, Zenon
    <2> QED BY <1>3, <2>1, CountFirst, Zenon
  <1>11. ~Holds(e, g)'
    BY <1>1 DEF Holds
  <1>12. HoldOK(e, g) /\ Alone(e, g) /\ NodeOf(e) = m
    BY <1>6, <1>8, <1>9, Zenon
  <1> HIDE DEF f, n
  <1>13. HoldsOK'
    <2> SUFFICES ASSUME NEW d \in Ends', NEW h \in Frame, Holds(d, h)'
                 PROVE  HoldOK(d, h)'
      BY Zenon DEF HoldsOK
    <2>1. d \in Ends /\ Holds(d, h) /\ NodeOf(d)' = NodeOf(d) /\ HoldOK(d, h)
      BY <1>5, Zenon DEF Quietly, BInv, HoldsOK
    <2>2. NodeOf(d) \in Node
      BY <1>3, <2>1, EndFacts, Zenon
    <2>3. ~(NodeOf(d) = m /\ h = g)
      BY <1>11, <1>12, <2>1, Zenon DEF Alone
    <2>4. handed'[NodeOf(d)][h] = 0
      BY <1>10, <2>1, <2>2, <2>3, Zenon DEF HoldOK, GivenOnce
    <2>5. Noted(NodeOf(d))' = Noted(NodeOf(d))
      BY <1>2, <2>1, SameNoted, Zenon
    <2> QED BY <1>2, <2>1, <2>4, <2>5, Zenon DEF HoldOK
  <1>14. AloneOK'
    BY <1>5, Zenon DEF BInv, AloneOK, Alone, Quietly
  <1>15. OnceOK'
    <2> SUFFICES ASSUME NEW k \in Node, NEW h \in Frame
                 PROVE  /\ handed'[k][h] # 2
                        /\ handed'[k][h] # 0 => h \in published' /\ (h.from = k \/ h \in Noted(k)')
      BY Zenon DEF OnceOK
    <2>0. Noted(k)' = Noted(k)
      BY <1>2, SameNoted, Zenon
    <2>1. CASE k = m /\ h = g
      <3>1. handed'[k][h] = 1
        BY <1>10, <2>1, Zenon DEF GivenOnce
      <3>2. h \in published /\ h \in Noted(k)
        BY <1>12, <2>1, Zenon DEF HoldOK
      <3> QED BY <1>2, <2>0, <3>1, <3>2
    <2>2. CASE ~(k = m /\ h = g)
      <3>1. handed'[k][h] = handed[k][h]
        BY <1>10, <2>2, Zenon DEF GivenOnce
      <3> QED BY <1>2, <2>0, <3>1, Zenon DEF BInv, OnceOK
    <2> QED BY <2>1, <2>2
  <1>16. NotedOK'
    BY <1>2, SameNoted, Zenon DEF BInv, NotedOK
  <1>17. B!HandOver(m, g)
    BY <1>1, <1>2, <1>7, <1>8, <1>9, <1>10, Zenon DEF B!HandOver
  <1> QED
    BY <1>3, <1>4, <1>8, <1>9, <1>13, <1>14, <1>15, <1>16, <1>17, Zenon DEF BInv, B!Next

\* While the window holds all the frames there are, noting one drops none.
LEMMA NoteAll ==
    ASSUME NEW F, IsFiniteSet(F), Cardinality(F) <= Window,
           NEW s \in Seq(F), Len(s) = Cardinality(Range(s)), NEW f \in F, f \notin Range(s)
    PROVE  /\ NoteSeen(s, f) = Append(s, f)
           /\ Range(Append(s, f)) = Range(s) \cup {f}
           /\ Len(Append(s, f)) = Cardinality(Range(Append(s, f)))
  <1>1. Window \in Nat /\ Len(s) \in Nat /\ Len(Append(s, f)) = Len(s) + 1
    BY GossipAssumption
  <1>2. Range(Append(s, f)) = Range(s) \cup {f}
    BY DEF Range
  <1>3. Range(s) \cup {f} \subseteq F /\ Range(s) \subseteq F
    BY DEF Range
  <1>4. IsFiniteSet(Range(s)) /\ Cardinality(Range(s) \cup {f}) <= Cardinality(F)
    BY <1>3, FS_Subset, Zenon
  <1>5. Cardinality(Range(s) \cup {f}) = Cardinality(Range(s)) + 1
    BY <1>4, FS_AddElement, Zenon
  <1>6. Cardinality(F) \in Nat
    BY FS_CardinalityType, Zenon
  <1>7. Len(Append(s, f)) = Cardinality(Range(Append(s, f))) /\ Len(s) + 1 <= Window
    BY <1>1, <1>2, <1>4, <1>5, <1>6
  <1> QED
    BY <1>1, <1>2, <1>7 DEF NoteSeen

\* A read loop takes a frame that its node has not noted: nobody at this node
\* holds it, and it has not been given to the handlers.
LEMMA BInvNotes ==
    ASSUME GInv, BInv, WindowHolds, NEW e \in Ends, NEW f \in published, Notes(e, f),
           Onward(published, conns, conns'), published' = published, handed' = handed
    PROVE  BInv'
  <1>1. PICK m : m = NodeOf(e)
    OBVIOUS
  <1>2. FramesOK /\ ConnsOK /\ f \in Frame
    BY Zenon DEF GInv, FramesOK
  <1>3. m \in Node /\ e[1] \in 1 .. Len(conns) /\ e[2] \in Role
    BY <1>1, <1>2, EndFacts, Zenon
  <1>4. /\ f.from # m /\ f \notin Range(seen[m]) /\ Starts(conns, conns', e, f)
        /\ seen' = [seen EXCEPT ![m] = NoteSeen(seen[m], f)]
    BY <1>1, Zenon DEF Notes
  <1>5. seen[m] \in Seq(published) /\ Len(seen[m]) = Cardinality(Range(seen[m]))
        /\ IsFiniteSet(published) /\ Cardinality(published) <= Window
    BY <1>2, <1>3, Zenon DEF FramesOK, BInv, NotedOK, Noted, WindowHolds
  <1> DEFINE t == Append(seen[m], f)
  <1>6. NoteSeen(seen[m], f) = t /\ Range(t) = Range(seen[m]) \cup {f}
        /\ Len(t) = Cardinality(Range(t))
    <2>1. PICK F : F = published
      OBVIOUS
    <2>2. PICK s : s = seen[m]
      OBVIOUS
    <2>3. /\ IsFiniteSet(F) /\ Cardinality(F) <= Window /\ s \in Seq(F) /\ f \in F
          /\ Len(s) = Cardinality(Range(s)) /\ f \notin Range(s)
      BY <1>4, <1>5, <2>1, <2>2, Zenon
    <2>4. /\ NoteSeen(s, f) = Append(s, f) /\ Range(Append(s, f)) = Range(s) \cup {f}
          /\ Len(Append(s, f)) = Cardinality(Range(Append(s, f)))
      BY <2>3, NoteAll
    <2> QED BY <2>2, <2>4, Zenon
  <1> HIDE DEF t
  <1>7. seen'[m] = t /\ \A k \in Node : k # m => seen'[k] = seen[k]
    BY <1>2, <1>3, <1>4, <1>6, Zenon DEF FramesOK
  <1>8. /\ Noted(m)' = Noted(m) \cup {f}
        /\ \A k \in Node : k # m => Noted(k)' = Noted(k)
        /\ \A k \in Node : \A g : g \in Noted(k) => g \in Noted(k)'
    BY <1>6, <1>7, Zenon DEF Noted
  <1>9. NotedOK'
    BY <1>6, <1>7, <1>8, Zenon DEF BInv, NotedOK, Noted
  <1>10. OnceOK'
    BY <1>8, Zenon DEF BInv, OnceOK
  <1>11. handed[m][f] = 0
    BY <1>2, <1>3, <1>4, Zenon DEF BInv, OnceOK, Noted
  <1>12. ASSUME NEW d \in Ends', NEW g \in Frame, Holds(d, g)'
         PROVE  d \in Ends /\ NodeOf(d)' = NodeOf(d) /\ (Holds(d, g) \/ (d = e /\ g = f))
    <2>1. ConnsOK' /\ Len(conns') = Len(conns) /\ Stays(conns, conns')
      BY <1>2, OnwardStays, Zenon
    <2>2. DOMAIN conns' = DOMAIN conns
      BY <1>2, <2>1 DEF ConnsOK
    <2>3. d \in Ends
      BY <2>2 DEF Ends
    <2>4. d[1] \in 1 .. Len(conns) /\ d[2] \in Role /\ d = <<d[1], d[2]>>
      BY <1>2, <2>3, ConnFacts, Zenon
    <2>5. NodeOf(d)' = NodeOf(d)
      BY <2>1, <2>4, SameNode, Zenon
    <2>6. CASE d = e
      <3>1. [at |-> "deliver", frame |-> g] = [at |-> "deliver", frame |-> f]
        BY <1>4, <1>12, <2>6, Zenon DEF Starts, Holds
      <3>2. g = f
        BY <3>1
      <3> QED BY <2>3, <2>5, <2>6, <3>2
    <2>7. CASE d # e
      <3>1. conns'[d[1]].hand[d[2]] = conns[d[1]].hand[d[2]]
        BY <1>4, <2>4, <2>7, Zenon DEF Starts
      <3> QED BY <1>12, <2>3, <2>5, <3>1, Zenon DEF Holds
    <2> QED BY <2>6, <2>7
  <1>13. ASSUME NEW d \in Ends, Holds(d, f), NodeOf(d) = m PROVE FALSE
    <2>1. f \in Noted(m)
      BY <1>2, <1>13, Zenon DEF BInv, HoldsOK, HoldOK
    <2> QED BY <1>4, <2>1, Zenon DEF Noted
  <1>14. HoldsOK'
    <2> SUFFICES ASSUME NEW d \in Ends', NEW g \in Frame, Holds(d, g)'
                 PROVE  HoldOK(d, g)'
      BY Zenon DEF HoldsOK
    <2>1. d \in Ends /\ NodeOf(d)' = NodeOf(d) /\ (Holds(d, g) \/ (d = e /\ g = f))
      BY <1>12, Zenon
    <2>2. PICK k : k = NodeOf(d)
      OBVIOUS
    <2>3. NodeOf(d) = k /\ NodeOf(d)' = k /\ k \in Node
      BY <1>2, <2>1, <2>2, EndFacts, Zenon
    <2>4. g \in published /\ g.from # k /\ g \in Noted(k)' /\ handed[k][g] = 0
      <3>1. CASE Holds(d, g)
        <4>1. HoldOK(d, g)
          BY <2>1, <3>1, Zenon DEF BInv, HoldsOK
        <4>2. g \in published /\ g.from # k /\ g \in Noted(k) /\ handed[k][g] = 0
          BY <2>3, <4>1, Zenon DEF HoldOK
        <4> QED BY <1>8, <2>3, <4>2, Zenon
      <3>2. CASE d = e /\ g = f
        <4>1. k = m
          BY <1>1, <2>2, <3>2, Zenon
        <4>2. f \in Noted(m)'
          BY <1>8, Zenon
        <4> QED BY <1>4, <1>11, <3>2, <4>1, <4>2, Zenon
      <3> QED BY <2>1, <3>1, <3>2
    <2>5. g \in Noted(NodeOf(d))'
      BY <2>3, <2>4, Zenon DEF Noted
    <2> QED BY <2>3, <2>4, <2>5, Zenon DEF HoldOK
  <1>15. AloneOK'
    <2> SUFFICES ASSUME NEW d \in Ends', NEW g \in Frame, Holds(d, g)',
                        NEW c \in Ends', Holds(c, g)', NodeOf(c)' = NodeOf(d)'
                 PROVE  c = d
      BY Zenon DEF AloneOK, Alone
    <2>1. d \in Ends /\ NodeOf(d)' = NodeOf(d) /\ (Holds(d, g) \/ (d = e /\ g = f))
      BY <1>12, Zenon
    <2>2. c \in Ends /\ NodeOf(c)' = NodeOf(c) /\ (Holds(c, g) \/ (c = e /\ g = f))
      BY <1>12, Zenon
    <2>3. NodeOf(c) = NodeOf(d)
      BY <2>1, <2>2, Zenon
    <2>4. CASE Holds(d, g) /\ Holds(c, g)
      BY <2>1, <2>2, <2>3, <2>4, Zenon DEF BInv, AloneOK, Alone
    <2>5. CASE d = e /\ g = f /\ c # e
      <3>1. Holds(c, f) /\ NodeOf(c) = m
        BY <1>1, <2>2, <2>3, <2>5, Zenon
      <3> QED BY <1>13, <2>2, <3>1, Zenon
    <2>6. CASE c = e /\ g = f /\ d # e
      <3>1. Holds(d, f) /\ NodeOf(d) = m
        BY <1>1, <2>1, <2>3, <2>6, Zenon
      <3> QED BY <1>13, <2>1, <3>1, Zenon
    <2> QED BY <2>1, <2>2, <2>4, <2>5, <2>6, Zenon
  <1> QED
    BY <1>9, <1>10, <1>14, <1>15, Zenon DEF BInv

\* Every step is one of the broadcast or leaves it alone.
LEMMA BroadcastStep ==
    ASSUME GInv, BInv, WindowHolds, [Next]_vars
    PROVE  BInv' /\ [B!Next]_B!vars
  <1>1. ConnsOK
    BY DEF GInv
  <1>2. CASE \E n \in Node : Publish(n)
    BY <1>2, BInvPublish, Zenon
  <1>3. CASE \E e \in Ends : Deliver(e)
    BY <1>3, BInvDeliver, Zenon
  <1>4. CASE \E e \in Ends : Read(e)
    <2>1. PICK e \in Ends : Read(e)
      BY <1>4
    <2>2. published' = published /\ handed' = handed /\ Onward(published, conns, conns')
      BY <2>1, ReadStep, Zenon DEF Read
    <2>3. CASE Calmly(conns, conns') /\ seen' = seen
      <3>1. Quietly
        BY <1>1, <2>2, <2>3, CalmIsQuiet, Zenon
      <3> QED BY <2>2, <2>3, <3>1, BInvQuiet, Zenon DEF B!vars
    <2>4. CASE \E f \in published : Notes(e, f)
      BY <2>2, <2>4, BInvNotes, Zenon DEF B!vars
    <2> QED BY <2>1, <2>3, <2>4, ReadStep, Zenon
  <1>5. CASE \E l \in Loops : Dial(l)
    <2>1. published' = published /\ handed' = handed /\ seen' = seen /\ Quietly
      BY <1>5, DialIsQuiet, Zenon DEF Dial
    <2> QED BY <2>1, BInvQuiet, Zenon DEF B!vars
  <1>6. CASE /\ published' = published /\ handed' = handed /\ seen' = seen
             /\ Onward(published, conns, conns') /\ Calmly(conns, conns')
    <2>1. Quietly
      BY <1>1, <1>6, CalmIsQuiet, Zenon
    <2> QED BY <1>6, <2>1, BInvQuiet, Zenon DEF B!vars
  <1>7. CASE \/ \E c \in DOMAIN conns : Accept(c) \/ Break(c)
             \/ \E e \in Ends : ReadEnds(e) \/ WriteFails(e)
    <2>1. published' = published /\ handed' = handed /\ seen' = seen
      BY <1>7, Zenon DEF Accept, Break, ReadEnds, WriteFails
    <2> QED BY <1>6, <1>7, <2>1, ConnectionSteps, Zenon
  <1>8. CASE (\E e \in Ends : Finish(e)) \/ \E n \in Node : Close(n)
    <2>1. published' = published /\ handed' = handed /\ seen' = seen
      BY <1>8, Zenon DEF Finish, Close
    <2> QED BY <1>6, <1>8, <2>1, EndingSteps, Zenon
  <1>9. CASE \E n \in Node : Stopped(n)
    <2>1. published' = published /\ handed' = handed /\ seen' = seen
      BY <1>9, Zenon DEF Stopped
    <2> QED BY <1>6, <1>9, <2>1, StoppedStep, Zenon
  <1>10. CASE \E e \in Ends : Relay(e)
    <2>1. published' = published /\ handed' = handed /\ seen' = seen
      BY <1>10, Zenon DEF Relay
    <2> QED BY <1>6, <1>10, <2>1, SendingSteps, Zenon
  <1>11. CASE published' = published /\ handed' = handed /\ seen' = seen /\ conns' = conns
    <2>1. Onward(published, conns, conns') /\ Calmly(conns, conns')
      BY <1>1, <1>11, Zenon DEF Onward, Kept, ConnsOK, Calmly, Calm
    <2> QED BY <1>6, <1>11, <2>1, Zenon
  <1> QED
    BY <1>2, <1>3, <1>4, <1>5, <1>7, <1>8, <1>9, <1>10, <1>11, Zenon
       DEF Next, Task, Environment, vars, Discover, ConnectPeer

LEMMA BroadcastInit ==
    ASSUME Init, GInv
    PROVE  BInv /\ B!Init
  <1>1. Ends = {}
    BY DEF Init, Ends
  <1>2. OnceOK
    BY DEF Init, OnceOK
  <1>3. NotedOK
    <2>1. ASSUME NEW n \in Node PROVE Len(seen[n]) = Cardinality(Noted(n))
      <3>1. seen[n] = <<>>
        BY DEF Init
      <3>2. Noted(n) = {} /\ Len(seen[n]) = 0
        BY <3>1 DEF Noted, Range
      <3> QED BY <3>2, FS_EmptySet, Zenon
    <2> QED BY <2>1, Zenon DEF NotedOK
  <1>4. B!Init
    BY Zenon DEF Init, B!Init
  <1> QED
    BY <1>1, <1>2, <1>3, <1>4, Zenon DEF BInv, HoldsOK, AloneOK

\* Whatever the topology, the relays, the reconnections and the nodes that are
\* closed: as long as no more frames are in circulation than LOOP_WINDOW ids,
\* on_frame and note_seen make the transport a broadcast.  The handlers of a
\* node are given a frame at most once, by one read loop, and only a frame
\* that was published.
THEOREM GossipIsBroadcast == Spec /\ []WindowHolds => ImplementsBroadcast
  <1>1. Init /\ GInv => BInv /\ B!Init
    BY BroadcastInit
  <1>2. GInv /\ BInv /\ WindowHolds /\ [Next]_vars => BInv' /\ [B!Next]_B!vars
    BY BroadcastStep
  <1> QED
    BY <1>1, <1>2, GInvHolds, PTL DEF Spec, ImplementsBroadcast, B!Spec

=============================================================================
