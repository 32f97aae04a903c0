---------------------------- MODULE EventStream ----------------------------
(***************************************************************************)
(* The stream of commits of one node's API: commit hooks, and per client a *)
(* broadcast channel of bounded capacity.                                  *)
(*                                                                         *)
(* Commits are numbered in the order commit_local stores them.  A          *)
(* consensus handler stores blocks with the consensus mutex held and calls *)
(* the hooks after it has released it, so the calls of two handlers can    *)
(* come in any order; the handler of a new client runs on another thread.  *)
(***************************************************************************)
EXTENDS Naturals, Sequences

CONSTANTS
    Stream,         \* clients of /exodus/events
    Capacity,       \* of a broadcast channel, 64 in the code
    MaxCommits      \* bound: commits

VARIABLES
    stored,     \* commits stored
    held,       \* listener_calls of the handler that has the mutex
    due,        \* the calls that handlers which released it have left to make
    told,       \* history: the commits the hooks were called for, in order
    hooks,      \* clients with a registered commit hook
    stream      \* stream[s]: [at, since, queue, lagged, heard]

streamVars == <<stored, held, due, told, hooks, stream>>

\* An event is the number of the call that sent it, i for told[i].  What a
\* client sees in place of events the channel dropped: height 0.
Lagged == 0

\* commit_local: the block is appended and the call of the listener queued.
Store ==
    /\ stored < MaxCommits
    /\ stored' = stored + 1
    /\ held' = Append(held, stored')
    /\ UNCHANGED <<due, told, hooks, stream>>

\* The handler takes its calls and releases the mutex.
Drain ==
    /\ held # <<>>
    /\ due' = due \cup {held}
    /\ held' = <<>>
    /\ UNCHANGED <<stored, told, hooks, stream>>

\* tx.send: the oldest event leaves a full channel, and its reader will know.
Sent(q, e) ==
    [q EXCEPT !.queue = IF Len(@) = Capacity THEN Append(Tail(@), e) ELSE Append(@, e),
              !.lagged = @ \/ Len(q.queue) = Capacity]

\* flush: some handler makes its next call.
NextCall(calls) ==
    /\ calls \in due
    /\ told' = Append(told, Head(calls))
    /\ due' = (due \ {calls}) \cup (IF Len(calls) = 1 THEN {} ELSE {Tail(calls)})
    /\ UNCHANGED <<stored, held, hooks>>

\* Mutant of Tell: the listener calls the first hook only.
TellFirst(calls) ==
    /\ NextCall(calls)
    /\ stream' = [s \in Stream |-> IF s \in hooks /\ stream[s].at = "open" /\ (\A r \in hooks : s <= r)
                                   THEN Sent(stream[s], Len(told')) ELSE stream[s]]

\* The listener calls every hook, with the hooks' mutex held.  A channel
\* without a subscriber drops the event.
Tell(calls) ==
    /\ NextCall(calls)
    /\ stream' = [s \in Stream |-> IF s \in hooks /\ stream[s].at = "open"
                                   THEN Sent(stream[s], Len(told')) ELSE stream[s]]

\* events: the hook is registered before the client's receiver is subscribed;
\* in between the ledger is read for the greeting, which is left out.
Hook(s) ==
    /\ stream[s].at = "new"
    /\ hooks' = hooks \cup {s}
    /\ stream' = [stream EXCEPT ![s].at = "hooked"]
    /\ UNCHANGED <<stored, held, due, told>>

Subscribe(s) ==
    /\ stream[s].at = "hooked"
    /\ stream' = [stream EXCEPT ![s].at = "open", ![s].since = Len(told)]
    /\ UNCHANGED <<stored, held, due, told, hooks>>

\* Mutant of Polled: the item that says the receiver lagged is skipped.
PolledSilently(q) ==
    IF q.lagged THEN [q EXCEPT !.lagged = FALSE]
    ELSE [q EXCEPT !.queue = Tail(@), !.heard = Append(@, Head(q.queue))]

\* What the receiver yields next: that it lagged, which becomes an event of
\* height 0, or an event.
Polled(q) ==
    IF q.lagged THEN [q EXCEPT !.lagged = FALSE, !.heard = Append(@, Lagged)]
    ELSE [q EXCEPT !.queue = Tail(@), !.heard = Append(@, Head(q.queue))]

\* The client is sent the next event.
Poll(s) ==
    /\ stream[s].at = "open"
    /\ stream[s].lagged \/ stream[s].queue # <<>>
    /\ stream' = [stream EXCEPT ![s] = Polled(stream[s])]
    /\ UNCHANGED <<stored, held, due, told, hooks>>

\* The client disconnects: the stream is dropped, and its hook with it.
Leave(s) ==
    /\ stream[s].at = "open"
    /\ stream' = [stream EXCEPT ![s].at = "left", ![s].queue = <<>>, ![s].lagged = FALSE]
    /\ hooks' = hooks \ {s}
    /\ UNCHANGED <<stored, held, due, told>>

StreamInit ==
    /\ stored = 0 /\ held = <<>> /\ due = {} /\ told = <<>> /\ hooks = {}
    /\ stream = [s \in Stream |-> [at |-> "new", since |-> 0,
                                   queue |-> <<>>, lagged |-> FALSE, heard |-> <<>>]]

StreamStep(s) == Hook(s) \/ Subscribe(s) \/ Poll(s)

(***************************************************************************)
(* Properties.                                                             *)
(***************************************************************************)
\* What a client hears after its subscription is every call of the hooks in
\* order; an event of height 0 stands exactly where calls are missing.
GapsMarked ==
    \A s \in Stream :
        LET heard == stream[s].heard
            before(i) == {stream[s].since} \cup {heard[j] : j \in 1 .. i - 1}
            last(i) == CHOOSE h \in before(i) : \A g \in before(i) : g <= h
        IN  \A i \in DOMAIN heard : heard[i] # Lagged =>
                IF i > 1 /\ heard[i - 1] = Lagged THEN heard[i] > last(i) + 1
                ELSE heard[i] = last(i) + 1

Once(i) == \E j \in DOMAIN told : {k \in DOMAIN told : told[k] = i} = {j}
Followed(s) == /\ stream[s].heard # <<>>
               /\ stream[s].heard[Len(stream[s].heard)] = Len(told)

\* The hooks are called for every commit once, and a connected client hears
\* the last call since it subscribed.
StreamsFollow ==
    <>[](/\ \A i \in 1 .. stored : Once(i)
         /\ \A s \in Stream : stream[s].at = "open" /\ Len(told) > stream[s].since => Followed(s))
=============================================================================
