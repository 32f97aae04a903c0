------------------------------- MODULE Gossip -------------------------------
(* The TCP transport: connect loops, connections, relaying with a bounded   *)
(* window of seen frames.                                                   *)
(*                                                                          *)
(* A connection has two ends, <<c, "dial">> and <<c, "accept">>.  At each   *)
(* end register_connection runs a write task and a read loop, waits for the *)
(* write task once the read loop is over, and removes its key from peers.   *)
(* A write task ends when its sender is dropped, which is when the entry of *)
(* peers that holds it is replaced or removed, or when a write fails.       *)
EXTENDS Naturals, Sequences, FiniteSets, Functions

CONSTANTS
    Node,
    Window,     \* LOOP_WINDOW
    MaxNum,     \* bound: frames per node
    MaxConns,   \* bound: connections ever made
    Setups      \* what the operators configured, see setup

VARIABLES
    setup,      \* [bootstrap, discover, manual, breaks, closers, quota]
    loop,       \* connect loops: Off, Dialing, or the connection they serve
    conns,      \* all connections ever made
    peers,      \* peers[n]: entries [key, end] of the peers map
    seen,       \* seen[n]: the last frames noted, oldest first
    stopping,   \* nodes whose transport is being closed
    closed,     \* nodes whose runtime has ended
    breaks,     \* connections broken by the network so far
    published,  \* history: frames published
    handed      \* handed[n][f]: how often the handlers of n were given f, up to 2

vars == <<setup, loop, conns, peers, seen, stopping, closed, breaks, published, handed>>

ASSUME GossipAssumption ==
    /\ {Window, MaxNum, MaxConns} \subseteq Nat
    /\ \A s \in Setups : /\ s.bootstrap \cup s.discover \cup s.manual \subseteq Node \X Node
                         /\ s.quota \in [Node -> 0 .. MaxNum]

Role == {"dial", "accept"}
Other(r) == IF r = "dial" THEN "accept" ELSE "dial"

\* The id of a frame is fresh, so a frame is its own id.  "linked" records
\* whether every configured link was up when the frame was published.
Frame == [from : Node, num : 1 .. MaxNum, linked : BOOLEAN]

Off == MaxConns + 1
Dialing == 0

\* The connect loops the setups can lead to.
Loops == UNION {(s.bootstrap \X {"bootstrap"}) \cup (s.discover \X {"discovery"})
                    \cup (s.manual \X {"manual"}) : s \in Setups}

\* What a read loop does: read the next frame, hand a frame to the handlers,
\* or relay it.
Reading == [at |-> "read"]

NodeOf(e) == IF e[2] = "dial" THEN conns[e[1]].dialer ELSE conns[e[1]].listener

\* A dialled peer is keyed by its address, an accepted one by an address with
\* an ephemeral port, which no other connection has.
KeyOf(e) == IF e[2] = "dial" THEN <<"address", conns[e[1]].listener>>
            ELSE <<"port", e[1]>>

Ends == {<<c, r>> : c \in DOMAIN conns, r \in Role}
Knows(n, key) == \E p \in peers[n] : p.key = key
EndsIn(ps) == {p.end : p \in ps}
HeldBy(ps, key) == {p.end : p \in {q \in ps : q.key = key}}

(***************************************************************************)
(* Connections.                                                            *)
(***************************************************************************)
\* The senders of "ends" are dropped: what was queued is still written, then
\* the stream ends.
DropSenders(cs, ends) ==
    [c \in DOMAIN cs |-> [cs[c] EXCEPT !.writing = {r \in @ : <<c, r>> \notin ends}]]

\* tx.send to each of "ends".  A write to a broken connection loses the frame,
\* and what is written to an end that has stopped reading is left out.
SendTo(cs, ends, f) ==
    [c \in DOMAIN cs |->
        [cs[c] EXCEPT !.chan = [r \in Role |->
            IF /\ <<c, r>> \in ends /\ r \in cs[c].writing /\ cs[c].up
               /\ cs[c].accepted => Other(r) \in cs[c].reading
            THEN Append(@[r], f) ELSE @[r]]]]

\* The entries that an insert or remove of the key leaves alone.
Remaining(ps, key) == {p \in ps : p.key # key}

\* discovery_loop: an announcement of b reaches a.
Discover(a, b) ==
    /\ <<a, b>> \in setup.discover
    /\ a \notin stopping
    /\ ~Knows(a, <<"address", b>>)
    /\ loop[<<<<a, b>>, "discovery">>] = Off
    /\ loop' = [loop EXCEPT ![<<<<a, b>>, "discovery">>] = Dialing]
    /\ UNCHANGED <<setup, conns, peers, seen, stopping, closed, breaks, published, handed>>

\* connect_peer, the API call.
ConnectPeer(a, b) ==
    /\ <<a, b>> \in setup.manual
    /\ a \notin closed
    /\ a # b
    /\ ~Knows(a, <<"address", b>>)
    /\ loop[<<<<a, b>>, "manual">>] = Off
    /\ loop' = [loop EXCEPT ![<<<<a, b>>, "manual">>] = Dialing]
    /\ UNCHANGED <<setup, conns, peers, seen, stopping, closed, breaks, published, handed>>

\* A connect loop reaches the peer and registers the connection; the entry of
\* an older connection to the same address is replaced.
Dial(l) ==
    LET a == l[1][1]
        b == l[1][2]
        c == Len(conns) + 1
        key == <<"address", b>>
        conn == [dialer |-> a, listener |-> b, by |-> l, up |-> TRUE,
                 accepted |-> FALSE, reading |-> {"dial"}, writing |-> {"dial"},
                 done |-> {}, chan |-> [r \in Role |-> <<>>],
                 hand |-> [r \in Role |-> Reading]]
    IN  /\ loop[l] = Dialing
        /\ a \notin closed /\ b \notin closed
        /\ Len(conns) < MaxConns
        /\ conns' = Append(DropSenders(conns, HeldBy(peers[a], key)), conn)
        /\ peers' = [peers EXCEPT ![a] =
                        Remaining(@, key) \cup {[key |-> key, end |-> <<c, "dial">>]}]
        /\ loop' = [loop EXCEPT ![l] = c]
        /\ UNCHANGED <<setup, seen, stopping, closed, breaks, published, handed>>

\* run_server takes the connection and registers it.
Accept(c) ==
    /\ ~conns[c].accepted /\ conns[c].up
    /\ conns' = [conns EXCEPT ![c].accepted = TRUE,
                              ![c].reading = @ \cup {"accept"},
                              ![c].writing = @ \cup {"accept"}]
    /\ peers' = [peers EXCEPT ![conns[c].listener] =
                    @ \cup {[key |-> <<"port", c>>, end |-> <<c, "accept">>]}]
    /\ UNCHANGED <<setup, loop, seen, stopping, closed, breaks, published, handed>>

\* read_exact fails: the other side ended its stream and everything it wrote
\* has been read, or the connection broke.
EndOfStream(e) ==
    LET conn == conns[e[1]]
        r == Other(e[2])
    IN  \/ ~conn.up
        \/ conn.accepted /\ r \notin conn.writing /\ conn.chan[r] = <<>>

ReadEnds(e) ==
    /\ e[2] \in conns[e[1]].reading
    /\ conns[e[1]].hand[e[2]] = Reading
    /\ EndOfStream(e)
    /\ conns' = [conns EXCEPT ![e[1]].reading = @ \ {e[2]}]
    /\ UNCHANGED <<setup, loop, peers, seen, stopping, closed, breaks, published, handed>>

\* Mutant of WriteFails: the write task goes on after an error.
WriteFailsIgnored(e) ==
    /\ e[2] \in conns[e[1]].writing
    /\ ~conns[e[1]].up \/ Other(e[2]) \in conns[e[1]].done
    /\ UNCHANGED vars

\* Some frame is written to a connection that is gone.
WriteFails(e) ==
    /\ e[2] \in conns[e[1]].writing
    /\ ~conns[e[1]].up \/ Other(e[2]) \in conns[e[1]].done
    /\ conns' = [conns EXCEPT ![e[1]].writing = @ \ {e[2]}]
    /\ UNCHANGED <<setup, loop, peers, seen, stopping, closed, breaks, published, handed>>

\* register_connection returns: it removes its key, whichever connection the
\* entry belongs to by now, and a connect loop dials again.
Finish(e) ==
    LET c == e[1]
        n == NodeOf(e)
    IN  /\ e[2] \notin conns[c].reading \cup conns[c].writing \cup conns[c].done
        /\ e[2] = "accept" => conns[c].accepted
        /\ conns' = [DropSenders(conns, HeldBy(peers[n], KeyOf(e))) EXCEPT
                        ![c].done = @ \cup {e[2]}]
        /\ peers' = [peers EXCEPT ![n] = Remaining(@, KeyOf(e))]
        /\ loop' = IF e[2] = "accept" THEN loop
                   ELSE [loop EXCEPT ![conns[c].by] =
                            IF n \in stopping THEN Off ELSE Dialing]
        /\ UNCHANGED <<setup, seen, stopping, closed, breaks, published, handed>>

\* The network breaks a connection; what was on its way is lost.
Break(c) ==
    /\ conns[c].up
    /\ breaks < setup.breaks
    /\ breaks' = breaks + 1
    /\ conns' = [conns EXCEPT ![c].up = FALSE, ![c].chan = [r \in Role |-> <<>>]]
    /\ UNCHANGED <<setup, loop, peers, seen, stopping, closed, published, handed>>

\* close: nothing is published any more, and the peers map is cleared.
Close(n) ==
    /\ n \in setup.closers \ stopping
    /\ stopping' = stopping \cup {n}
    /\ conns' = DropSenders(conns, EndsIn(peers[n]))
    /\ peers' = [peers EXCEPT ![n] = {}]
    /\ UNCHANGED <<setup, loop, seen, closed, breaks, published, handed>>

\* The runtime thread notices within 100 ms and ends with all its tasks.
Stopped(n) ==
    /\ n \in stopping \ closed
    /\ closed' = closed \cup {n}
    /\ conns' = [c \in DOMAIN conns |->
                    LET mine == {r \in Role : NodeOf(<<c, r>>) = n}
                    IN  IF mine = {} THEN conns[c]
                        ELSE [conns[c] EXCEPT !.up = FALSE,
                                              !.reading = @ \ mine,
                                              !.writing = @ \ mine,
                                              !.done = @ \cup mine,
                                              !.chan = [r \in Role |-> <<>>],
                                              !.hand = [r \in Role |->
                                                  IF r \in mine THEN Reading ELSE @[r]]]]
    /\ loop' = [l \in Loops |-> IF l[1][1] = n THEN Off ELSE loop[l]]
    /\ peers' = [peers EXCEPT ![n] = {}]
    /\ UNCHANGED <<setup, seen, stopping, breaks, published, handed>>

(***************************************************************************)
(* Frames.                                                                 *)
(***************************************************************************)
\* Both ends of a connection are in their peers maps and serve it.
Serves(c) ==
    /\ conns[c].up
    /\ conns[c].reading = Role /\ conns[c].writing = Role
    /\ \A r \in Role : \E p \in peers[NodeOf(<<c, r>>)] : p.end = <<c, r>>

\* These links are up, in both directions.
Linked(links) ==
    \A l \in links : \E c \in DOMAIN conns :
        conns[c].dialer = l[1] /\ conns[c].listener = l[2] /\ Serves(c)

Wanted == setup.bootstrap \cup setup.discover \cup setup.manual

Count(h, n, f) == [h EXCEPT ![n][f] = IF @ = 2 THEN 2 ELSE @ + 1]

\* publish: the own handlers, then every peer.
Publish(n) ==
    LET num == Cardinality({f \in published : f.from = n}) + 1
        f == [from |-> n, num |-> num, linked |-> Linked(Wanted)]
    IN  /\ n \notin stopping
        /\ num <= setup.quota[n]
        /\ published' = published \cup {f}
        /\ handed' = Count(handed, n, f)
        /\ conns' = SendTo(conns, EndsIn(peers[n]), f)
        /\ UNCHANGED <<setup, loop, peers, seen, stopping, closed, breaks>>

\* Mutants of NoteSeen: no id ever leaves; the window keeps one id less;
\* nothing is noted.
NoteSeenGrows(s, f) == Append(s, f)
NoteSeenShort(s, f) ==
    LET t == Append(s, f) IN IF Len(t) >= Window THEN Tail(t) ELSE t
NoteSeenNever(s, f) == s

\* note_seen: the oldest id leaves a full window.
NoteSeen(s, f) ==
    LET t == Append(s, f) IN IF Len(t) > Window THEN Tail(t) ELSE t

\* The read loop takes the next frame.  A frame of our own ends the loop, a
\* frame in the window is dropped, any other is noted and will be handled.
Read(e) ==
    LET c == e[1]
        n == NodeOf(e)
        q == conns[c].chan[Other(e[2])]
        took == [conns EXCEPT ![c].chan[Other(e[2])] = Tail(@)]
    IN  /\ e[2] \in conns[c].reading
        /\ conns[c].hand[e[2]] = Reading
        /\ q # <<>>
        /\ LET f == Head(q)
           IN  \/ /\ f.from = n
                  /\ conns' = [took EXCEPT ![c].reading = @ \ {e[2]},
                                           ![c].chan[Other(e[2])] = <<>>]
                  /\ UNCHANGED seen
               \/ /\ f.from # n /\ f \in Range(seen[n])
                  /\ conns' = took
                  /\ UNCHANGED seen
               \/ /\ f.from # n /\ f \notin Range(seen[n])
                  /\ seen' = [seen EXCEPT ![n] = NoteSeen(@, f)]
                  /\ conns' = [took EXCEPT ![c].hand[e[2]] = [at |-> "deliver", frame |-> f]]
        /\ UNCHANGED <<setup, loop, peers, stopping, closed, breaks, published, handed>>

\* The handlers run, on the thread of this read loop.
Deliver(e) ==
    LET h == conns[e[1]].hand[e[2]]
    IN  /\ h.at = "deliver"
        /\ handed' = Count(handed, NodeOf(e), h.frame)
        /\ conns' = [conns EXCEPT ![e[1]].hand[e[2]].at = "relay"]
        /\ UNCHANGED <<setup, loop, peers, seen, stopping, closed, breaks, published>>

\* Mutant of RelayTo: the frame stays here.
RelayToNone(e) == {}

\* Then the frame goes to every peer but the one it came from.
RelayTo(e) == EndsIn({p \in peers[NodeOf(e)] : p.key # KeyOf(e)})

Relay(e) ==
    LET h == conns[e[1]].hand[e[2]]
    IN  /\ h.at = "relay"
        /\ conns' = [SendTo(conns, RelayTo(e), h.frame) EXCEPT
                        ![e[1]].hand[e[2]] = Reading]
        /\ UNCHANGED <<setup, loop, peers, seen, stopping, closed, breaks, published, handed>>

Init ==
    /\ setup \in Setups
    /\ loop = [l \in Loops |-> IF l[2] = "bootstrap" /\ l[1] \in setup.bootstrap
                               THEN Dialing ELSE Off]
    /\ conns = <<>>
    /\ peers = [n \in Node |-> {}]
    /\ seen = [n \in Node |-> <<>>]
    /\ stopping = {}
    /\ closed = {}
    /\ breaks = 0
    /\ published = {}
    /\ handed = [n \in Node |-> [f \in Frame |-> 0]]

\* What the tasks of the runtime do.
Task ==
    \/ \E l \in Loops : Dial(l)
    \/ \E c \in DOMAIN conns : Accept(c)
    \/ \E e \in Ends : \/ ReadEnds(e) \/ WriteFails(e) \/ Finish(e)
                      \/ Read(e) \/ Deliver(e) \/ Relay(e)
    \/ \E n \in Node : Stopped(n)

\* What users and the network do.
Environment ==
    \/ \E a, b \in Node : Discover(a, b) \/ ConnectPeer(a, b)
    \/ \E c \in DOMAIN conns : Break(c)
    \/ \E n \in Node : Publish(n) \/ Close(n)

Next == Task \/ Environment

Spec == Init /\ [][Next]_vars

\* The runtime does not stop while a task can go on: a peer that accepts
\* connections is reached, and a dead connection is written to, since every
\* node sends heartbeats.
Fairness == WF_vars(Task)

FairSpec == Spec /\ Fairness

(***************************************************************************)
(* Properties.                                                             *)
(***************************************************************************)
\* The state has its shape: a key names one entry of a node's peers, entries
\* belong to ends of connections, and the seen ids keep their bound.
TypeOK ==
    /\ setup \in Setups
    /\ loop \in [Loops -> 0 .. Off]
    /\ Len(conns) <= MaxConns
    /\ \A e \in Ends : /\ conns[e[1]].reading \cup conns[e[1]].writing \subseteq Role
                       /\ conns[e[1]].hand[e[2]].at \in {"read", "deliver", "relay"}
    /\ \A n \in Node : /\ EndsIn(peers[n]) \subseteq Ends
                       /\ \A p, q \in peers[n] : p.key = q.key => p = q
                       /\ Len(seen[n]) <= Window
    /\ closed \subseteq stopping /\ stopping \subseteq setup.closers
    /\ published \subseteq Frame
    /\ handed \in [Node -> [Frame -> 0 .. 2]]

\* As long as the window holds the frames in circulation, the transport is a
\* broadcast: whatever the links, the relays and the reconnections, handlers
\* are given a frame at most once, and only frames that were published.
B == INSTANCE Broadcast
ImplementsBroadcast == B!Spec

\* No frame circulates forever: the read loops come to rest, on any topology
\* (the module's header: "message-id dedup to prevent forwarding loops").
Quiet == \A e \in Ends :
            /\ conns[e[1]].hand[e[2]] = Reading
            /\ e[2] \in conns[e[1]].reading => conns[e[1]].chan[Other(e[2])] = <<>>
FloodingEnds == <>[]Quiet

\* At most one connect loop per link and no cycle of links.
Tree == Cardinality(setup.bootstrap) + Cardinality(setup.discover) + Cardinality(setup.manual)
            < Cardinality(UNION {{l[1], l[2]} : l \in Wanted})

\* A frame published while all links are up is given to every node, unless a
\* connection breaks or a node is closed.
Everywhere(f) == \A n \in Node : handed[n][f] > 0
TreeReaches == <>[](Tree /\ breaks = 0 /\ stopping = {} =>
                        \A f \in published : f.linked => Everywhere(f))

\* After the network broke a connection, the connect loop notices, dials again
\* and both ends register the connection; on a tree for good.
Registered(c) == conns[c].up /\ conns[c].writing = Role
Relinks == <>[](Tree => \A l \in Loops :
                    loop[l] # Off => loop[l] # Dialing /\ Registered(loop[l]))

\* A reader that met a frame of its own node ended although the connection is
\* up; on_frame's comment says that this drops the connection.
Guarded(e) == /\ conns[e[1]].up /\ conns[e[1]].accepted
              /\ e[2] \notin conns[e[1]].reading
              /\ Other(e[2]) \in conns[e[1]].writing
GuardDrops == \A c \in 1 .. MaxConns, r \in Role :
    (c \in DOMAIN conns /\ Guarded(<<c, r>>)) ~> (c \in DOMAIN conns /\ r \in conns[c].done)
=============================================================================
