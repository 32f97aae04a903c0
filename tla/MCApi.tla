------------------------------- MODULE MCApi -------------------------------
(* Api with scenarios that each exercise some of the handlers.               *)
EXTENDS Api, TLC

MCCall == Chat \X Node
MCCallNode == [k \in MCCall |-> k[2]]
MCEndsWith == {<<"tiny-m", "m">>}

Up(i, name, chunks) == [id |-> i, node |-> "a", name |-> name, chunks |-> chunks]
MCUpload == {Up(1, "m", 2), Up(2, "m", 1), Up(3, "x", 3), Up(4, "x", 0)}

Words(cs) == [chars |-> cs, len |-> Len(cs)]

\* One node with two models and no peers.
Plain == [nodes |-> Node, asks |-> <<>>, present |-> [n \in Node |-> {"m", "x"}],
          other |-> [n \in Node |-> NoModel], off |-> {}, distributed |-> TRUE,
          server |-> TRUE, slots |-> 1, text |-> [n \in Node |-> Words(<<1, 2>>)],
          copies |-> 1, leaves |-> FALSE, faults |-> 0, uploads |-> {}, streams |-> {}, commits |-> 0]

Asks(m1, m2) == (1 :> [node |-> "a", model |-> m1]) @@ (2 :> [node |-> "a", model |-> m2])
One(m) == 1 :> [node |-> "a", model |-> m]

\* Two chats that want different models: the server is restarted under them.
Switching == [Plain EXCEPT !.asks = Asks("m", "x"), !.distributed = FALSE, !.faults = 1]

\* Two chats for one model.
Sharing == [Switching EXCEPT !.asks = Asks("m", "m")]

\* The first with a server of somebody else that has one of the models.
Adopting == [Switching EXCEPT !.other["a"] = "tiny-m", !.faults = 0]

\* Two chats for models one of which is named like the end of the other.
Alike == [Switching EXCEPT !.asks = Asks("tiny-m", "m"), !.faults = 0,
             !.present = [n \in Node |-> {"m", "tiny-m"}]]

\* Two chats that keep a peer busy, with a model whose work is never claimed.
Overload == [Plain EXCEPT !.asks = Asks("x", "x"), !.server = FALSE, !.nodes = {"a", "b"}]

\* Three different replies, responses that come twice and a client that leaves.
Fanout == [Plain EXCEPT !.asks = One("m"), !.server = FALSE, !.copies = 2, !.leaves = TRUE,
              !.text = ("a" :> Words(<<1, 2>>)) @@ ("b" :> Words(<<2, 1>>)) @@ ("c" :> Words(<<1, 2, 3>>))]

\* A chat while models are deleted and nodes are killed.
Faults == [Plain EXCEPT !.asks = One("m"), !.faults = 1, !.nodes = {"a", "b"}]

\* Uploads of one name, and one that is too large.
Uploads == [Plain EXCEPT !.asks = One("x"), !.present = [n \in Node |-> {}], !.off = {"b", "c"},
              !.server = FALSE, !.uploads = {Up(1, "m", 2), Up(2, "m", 1), Up(3, "x", 3)}, !.leaves = TRUE]

\* A chat for a model that is being uploaded and may be deleted, an empty upload,
\* and a peer that has no runtime.
Arriving == [Uploads EXCEPT !.asks = One("m"), !.nodes = {"a", "b"}, !.faults = 1,
                !.uploads = {Up(2, "m", 1), Up(4, "x", 0)}]

\* Two clients of the event stream, or one that falls behind more than once.
Streaming == [Plain EXCEPT !.streams = Stream, !.commits = 3]
Slow == [Plain EXCEPT !.streams = {1}, !.commits = 4]

AdoptingOnly == {Adopting}
MCSetups == {Switching, Sharing, Adopting, Alike, Overload, Fanout, Faults, Uploads, Arriving, Streaming,
             Slow}
=============================================================================
