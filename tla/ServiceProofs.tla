--------------------------- MODULE ServiceProofs ---------------------------
(***************************************************************************)
(* What holds of event streams and model files for any number of nodes,    *)
(* models, uploads and streams.                                            *)
(***************************************************************************)
EXTENDS Api, TLAPS

(***************************************************************************)
(* Streams.  What a client heard is kept apart from the record it is in.   *)
(***************************************************************************)
Before(since, heard, i) == {since} \cup {heard[j] : j \in 1 .. i - 1}

Last(since, heard, i) ==
    CHOOSE h \in Before(since, heard, i) : \A g \in Before(since, heard, i) : g <= h

InPlace(since, heard, i) ==
    IF i > 1 /\ heard[i - 1] = 0 THEN heard[i] > Last(since, heard, i) + 1
    ELSE heard[i] = Last(since, heard, i) + 1

Marked(since, heard) ==
    \A i \in DOMAIN heard : heard[i] # 0 => InPlace(since, heard, i)

\* The latest call the client knows of.
Top(since, heard, top) ==
    /\ top \in Before(since, heard, Len(heard) + 1)
    /\ \A g \in Before(since, heard, Len(heard) + 1) : g <= top

LEMMA AppendMarked ==
    ASSUME NEW since \in Nat, NEW heard \in Seq(Nat), NEW x \in Nat, NEW top \in Nat,
           Marked(since, heard), Top(since, heard, top),
           x # 0 => IF Len(heard) # 0 /\ heard[Len(heard)] = 0 THEN x > top + 1 ELSE x = top + 1
    PROVE  /\ Marked(since, Append(heard, x))
           /\ x = 0 => Top(since, Append(heard, x), top)
           /\ x # 0 => Top(since, Append(heard, x), x)
  <1> DEFINE n == Len(heard)
             h2 == Append(heard, x)
  <1>1. n \in Nat /\ Len(h2) = n + 1 /\ DOMAIN h2 = 1 .. n + 1 /\ DOMAIN heard = 1 .. n
    OBVIOUS
  <1>2. h2[n + 1] = x /\ \A j \in 1 .. n : h2[j] = heard[j]
    OBVIOUS
  <1> HIDE DEF h2
  <1>3. ASSUME NEW i \in 1 .. n + 1 PROVE Before(since, h2, i) = Before(since, heard, i)
    BY <1>1, <1>2 DEF Before
  <1>4. ASSUME NEW i \in 1 .. n + 1 PROVE Last(since, h2, i) = Last(since, heard, i)
    BY <1>3, Zenon DEF Last
  <1>5. Last(since, heard, n + 1) = top
    <2>1. \A g \in Before(since, heard, n + 1) : g \in Nat
      BY <1>1 DEF Before
    <2>2. \A h \in Before(since, heard, n + 1) :
             (\A g \in Before(since, heard, n + 1) : g <= h) => h = top
      BY <2>1 DEF Top
    <2> QED
      BY <2>2, Zenon DEF Last, Top
  <1>6. ASSUME NEW i \in 1 .. n + 1, h2[i] # 0 PROVE InPlace(since, h2, i)
    <2>1. CASE i \in 1 .. n
      <3>1. InPlace(since, heard, i)
        BY <1>1, <1>2, <1>6, <2>1 DEF Marked
      <3>2. h2[i] = heard[i] /\ (i > 1 => h2[i - 1] = heard[i - 1])
        BY <1>1, <1>2, <2>1
      <3> QED
        BY <1>4, <3>1, <3>2 DEF InPlace
    <2>2. CASE i = n + 1
      <3>1. h2[i] = x /\ (i > 1 => h2[i - 1] = heard[n] /\ n # 0)
        BY <1>1, <1>2, <2>2
      <3>2. Last(since, h2, i) = top
        BY <1>4, <1>5, <2>2
      <3>3. i > 1 <=> n # 0
        BY <1>1, <2>2
      <3> QED
        BY <1>6, <3>1, <3>2, <3>3 DEF InPlace
    <2> QED
      BY <1>1, <2>1, <2>2
  <1>7. Marked(since, h2)
    BY <1>1, <1>6 DEF Marked
  <1>8. Before(since, h2, Len(h2) + 1) = Before(since, heard, n + 1) \cup {x}
    BY <1>1, <1>2 DEF Before
  <1>9. top >= 0 /\ x # 0 => x > top
    OBVIOUS
  <1>10. \A g \in Before(since, heard, n + 1) : g \in Nat
    BY <1>1 DEF Before
  <1>11. (x = 0 => Top(since, h2, top)) /\ (x # 0 => Top(since, h2, x))
    BY <1>8, <1>9, <1>10 DEF Top
  <1> QED
    BY <1>7, <1>11 DEF h2

\* Events were dropped that the client has yet to be told of, or to hear the
\* end of.
Gap(q) == q.lagged \/ (Len(q.heard) # 0 /\ q.heard[Len(q.heard)] = 0)

\* The queue holds the latest of n calls.
Latest(c, n) ==
    /\ c \in Seq(Nat) /\ Len(c) <= n
    /\ \A i \in 1 .. Len(c) : c[i] = n - Len(c) + i

LEMMA LatestMoves ==
    ASSUME NEW c, NEW n \in Nat, Latest(c, n)
    PROVE  /\ Latest(Append(c, n + 1), n + 1) /\ Len(Append(c, n + 1)) = Len(c) + 1
           /\ Len(c) # 0 => /\ Latest(Tail(c), n) /\ Len(Tail(c)) = Len(c) - 1
                            /\ Head(c) = n - Len(c) + 1 /\ Head(c) \in Nat \ {0}
                            /\ Latest(Append(Tail(c), n + 1), n + 1)
                            /\ Len(Append(Tail(c), n + 1)) = Len(c)
  <1> DEFINE k == Len(c)
  <1>1. c \in Seq(Nat) /\ k \in Nat /\ k <= n /\ \A i \in 1 .. k : c[i] = n - k + i
    BY DEF Latest
  <1>2. ASSUME NEW d, NEW m \in Nat, Latest(d, m) PROVE Latest(Append(d, m + 1), m + 1)
    <2> DEFINE e == Append(d, m + 1)
               l == Len(d)
    <2>1. d \in Seq(Nat) /\ l \in Nat /\ l <= m /\ \A i \in 1 .. l : d[i] = m - l + i
      BY <1>2 DEF Latest
    <2>2. e \in Seq(Nat) /\ Len(e) = l + 1 /\ e[l + 1] = m + 1 /\ \A i \in 1 .. l : e[i] = d[i]
      BY <2>1
    <2> HIDE DEF e, l
    <2>3. ASSUME NEW i \in 1 .. l + 1 PROVE e[i] = (m + 1) - (l + 1) + i
      <3>1. CASE i \in 1 .. l
        <4>1. e[i] = m - l + i
          BY <2>1, <2>2, <3>1
        <4> QED
          BY <2>1, <4>1
      <3>2. CASE i = l + 1
        BY <2>1, <2>2, <3>2
      <3> QED
        BY <2>1, <3>1, <3>2
    <2>4. l + 1 <= m + 1
      BY <2>1
    <2> QED
      BY <2>1, <2>2, <2>3, <2>4, Zenon DEF Latest, e
  <1>3. ASSUME k # 0
        PROVE  /\ Latest(Tail(c), n) /\ Len(Tail(c)) = k - 1
               /\ Head(c) = n - k + 1 /\ Head(c) \in Nat \ {0}
    <2> DEFINE e == Tail(c)
    <2>1. e \in Seq(Nat) /\ Len(e) = k - 1 /\ (\A i \in 1 .. k - 1 : e[i] = c[i + 1]) /\ Head(c) = c[1]
      BY <1>1, <1>3
    <2> HIDE DEF e, k
    <2>2. \A i \in 1 .. k - 1 : e[i] = n - (k - 1) + i
      BY <1>1, <1>3, <2>1
    <2>3. Head(c) = n - k + 1 /\ n - k + 1 \in Nat \ {0}
      BY <1>1, <1>3, <2>1
    <2> QED
      BY <1>1, <1>3, <2>1, <2>2, <2>3 DEF Latest, e
  <1>4. Len(Append(c, n + 1)) = k + 1
    BY <1>1
  <1>5. ASSUME k # 0 PROVE Latest(Append(Tail(c), n + 1), n + 1) /\ Len(Append(Tail(c), n + 1)) = k
    <2>1. Latest(Tail(c), n) /\ Len(Tail(c)) = k - 1
      BY <1>3, <1>5
    <2>2. Latest(Append(Tail(c), n + 1), n + 1)
      BY <1>2, <2>1
    <2>3. Tail(c) \in Seq(Nat)
      BY <2>1 DEF Latest
    <2>4. Len(Append(Tail(c), n + 1)) = Len(Tail(c)) + 1
      BY <2>3
    <2> QED
      BY <1>1, <2>1, <2>2, <2>4
  <1>6. Latest(Append(c, n + 1), n + 1)
    BY <1>2
  <1> QED
    BY <1>3, <1>4, <1>5, <1>6

(***************************************************************************)
(* The queue of a client holds the latest of the n calls made so far, and  *)
(* it has heard all before them unless there is a gap.                     *)
(***************************************************************************)
Typed(q) ==
    /\ DOMAIN q = {"at", "since", "queue", "lagged", "heard"}
    /\ q.since \in Nat /\ q.heard \in Seq(Nat) /\ q.queue \in Seq(Nat) /\ q.lagged \in BOOLEAN

\* top is the latest call the client knows of, base the last before the queue.
UpTo(q, base) ==
    \E top \in Nat : /\ Top(q.since, q.heard, top)
                     /\ Gap(q) => top < base
                     /\ ~Gap(q) => top = base

Follows(q, n) == Latest(q.queue, n) /\ UpTo(q, n - Len(q.queue))

Silent(q) == q.heard = <<>> /\ q.queue = <<>> /\ q.lagged = FALSE

StreamOK(q, n) ==
    /\ Typed(q) /\ Marked(q.since, q.heard)
    /\ q.at = "open" => Follows(q, n)
    /\ q.at \in {"new", "hooked"} => Silent(q)

\* A call reaches the channel of a client, which may be full.
LEMMA SentOK ==
    ASSUME NEW q, NEW n \in Nat, StreamOK(q, n), q.at = "open"
    PROVE  StreamOK(E!Sent(q, n + 1), n + 1) /\ E!Sent(q, n + 1).at = "open"
  <1> DEFINE t == E!Sent(q, n + 1)
             k == Len(q.queue)
  <1>1. Typed(q) /\ Follows(q, n) /\ Marked(q.since, q.heard)
    BY DEF StreamOK
  <1>2. /\ DOMAIN t = DOMAIN q /\ t.at = q.at /\ t.since = q.since /\ t.heard = q.heard
        /\ k = Capacity => t.queue = Append(Tail(q.queue), n + 1)
        /\ k # Capacity => t.queue = Append(q.queue, n + 1)
        /\ t.lagged = (q.lagged \/ k = Capacity)
    BY <1>1 DEF E!Sent, Typed
  <1>3. PICK top \in Nat : /\ Top(q.since, q.heard, top)
                           /\ Gap(q) => top < n - k
                           /\ ~Gap(q) => top = n - k
    BY <1>1, Zenon DEF Follows, UpTo
  <1>4. Latest(q.queue, n) /\ k \in Nat
    BY <1>1 DEF Follows, Typed
  <1> HIDE DEF t, k
  <1>5. CASE k = Capacity
    <2>1. k # 0
      BY <1>5, StreamsAssumption
    <2>2. Latest(t.queue, n + 1) /\ Len(t.queue) = k
      <3>1. t.queue = Append(Tail(q.queue), n + 1)
        BY <1>2, <1>5
      <3> QED
        BY <1>4, <2>1, <3>1, LatestMoves DEF k
    <2>3. t.lagged = TRUE
      BY <1>2, <1>5, Zenon
    <2>4. top < (n + 1) - k
      BY <1>3, <1>4
    <2>5. Gap(t)
      BY <2>3 DEF Gap
    <2>6. UpTo(t, (n + 1) - k)
      BY <1>2, <1>3, <2>4, <2>5, Zenon DEF UpTo
    <2>7. Follows(t, n + 1)
      BY <2>2, <2>6, Zenon DEF Follows
    <2>8. t.queue \in Seq(Nat) /\ t.lagged \in BOOLEAN
      BY <2>2, <2>3, Zenon DEF Latest
    <2> QED
      BY <1>1, <1>2, <2>7, <2>8 DEF StreamOK, Typed, t
  <1>6. CASE k # Capacity
    <2>1. Latest(t.queue, n + 1) /\ Len(t.queue) = k + 1
      <3>1. t.queue = Append(q.queue, n + 1)
        BY <1>2, <1>6
      <3>2. Latest(Append(q.queue, n + 1), n + 1) /\ Len(Append(q.queue, n + 1)) = Len(q.queue) + 1
        BY <1>4, LatestMoves, Zenon
      <3> QED
        BY <3>1, <3>2, Zenon DEF k
    <2>2. t.lagged = q.lagged
      BY <1>1, <1>2, <1>6 DEF Typed
    <2>3. (n + 1) - (k + 1) = n - k
      BY <1>4
    <2>4. Gap(t) <=> Gap(q)
      BY <1>2, <2>2 DEF Gap
    <2>5. UpTo(t, n - k)
      BY <1>2, <1>3, <2>4, Zenon DEF UpTo
    <2>6. Follows(t, n + 1)
      BY <2>1, <2>3, <2>5, Zenon DEF Follows
    <2>7. t.queue \in Seq(Nat) /\ t.lagged \in BOOLEAN
      BY <1>1, <2>1, <2>2 DEF Latest, Typed
    <2> QED
      BY <1>1, <1>2, <2>6, <2>7 DEF StreamOK, Typed, t
  <1> QED
    BY <1>5, <1>6

\* A connected client is sent the mark of a gap, or an event.
LEMMA PolledOK ==
    ASSUME NEW q, NEW n \in Nat, StreamOK(q, n), q.at = "open", q.lagged \/ q.queue # <<>>
    PROVE  StreamOK(E!Polled(q), n) /\ E!Polled(q).at = "open"
  <1> DEFINE t == E!Polled(q)
             k == Len(q.queue)
  <1>1. Typed(q) /\ Follows(q, n) /\ Marked(q.since, q.heard)
    BY DEF StreamOK
  <1>2. PICK top \in Nat : /\ Top(q.since, q.heard, top)
                           /\ Gap(q) => top < n - k
                           /\ ~Gap(q) => top = n - k
    BY <1>1, Zenon DEF Follows, UpTo
  <1>3. Latest(q.queue, n) /\ k \in Nat /\ q.since \in Nat /\ q.heard \in Seq(Nat)
    BY <1>1 DEF Typed, Follows
  <1>4. CASE q.lagged
    <2>1. /\ DOMAIN t = DOMAIN q /\ t.at = q.at /\ t.since = q.since /\ t.queue = q.queue
          /\ t.lagged = FALSE /\ t.heard = Append(q.heard, 0)
      BY <1>1, <1>4 DEF E!Polled, E!Lagged, Typed
    <2> HIDE DEF t
    <2>2. t.heard \in Seq(Nat) /\ Len(t.heard) # 0 /\ t.heard[Len(t.heard)] = 0
      BY <1>3, <2>1
    <2>3. Marked(t.since, t.heard) /\ Top(t.since, t.heard, top)
      BY <1>1, <1>2, <1>3, <2>1, AppendMarked
    <2>4. Gap(t) /\ Gap(q)
      BY <1>4, <2>2 DEF Gap
    <2>5. UpTo(t, n - k)
      BY <1>2, <2>3, <2>4, Zenon DEF UpTo
    <2>6. Follows(t, n)
      BY <1>3, <2>1, <2>5, Zenon DEF Follows
    <2> QED
      BY <1>1, <2>1, <2>2, <2>3, <2>6, Zenon DEF StreamOK, Typed, t
  <1>5. CASE ~q.lagged
    <2> DEFINE x == Head(q.queue)
    <2>1. /\ DOMAIN t = DOMAIN q /\ t.at = q.at /\ t.since = q.since /\ t.queue = Tail(q.queue)
          /\ t.lagged = q.lagged /\ t.heard = Append(q.heard, x)
      BY <1>1, <1>5 DEF E!Polled, E!Lagged, Typed
    <2> HIDE DEF t
    <2>2. k # 0
      BY <1>1, <1>5 DEF Typed
    <2>3. /\ Latest(t.queue, n) /\ Len(t.queue) = k - 1
          /\ x = n - k + 1 /\ x \in Nat \ {0}
      BY <1>3, <2>1, <2>2, LatestMoves, Zenon
    <2> HIDE DEF x, k
    <2> DEFINE marked == Len(q.heard) # 0 /\ q.heard[Len(q.heard)] = 0
    <2>4. Gap(q) <=> marked
      BY <1>5 DEF Gap
    <2> HIDE DEF marked
    <2>5. IF marked THEN x > top + 1 ELSE x = top + 1
      BY <1>2, <1>3, <2>3, <2>4
    <2>6. Marked(t.since, t.heard) /\ Top(t.since, t.heard, x)
      <3>1. x \in Nat /\ x # 0
        BY <2>3
      <3> QED
        BY <1>1, <1>2, <1>3, <2>1, <2>5, <3>1, AppendMarked, Zenon DEF marked
    <2>7. t.heard \in Seq(Nat) /\ Len(t.heard) # 0 /\ t.heard[Len(t.heard)] = x
      <3>1. \A h \in Seq(Nat), y \in Nat :
                /\ Append(h, y) \in Seq(Nat) /\ Len(Append(h, y)) # 0
                /\ Append(h, y)[Len(Append(h, y))] = y
        OBVIOUS
      <3> QED
        BY <1>3, <2>1, <2>3, <3>1
    <2>8. ~Gap(t)
      BY <1>5, <2>1, <2>3, <2>7 DEF Gap
    <2>9. x = n - (k - 1) /\ x \in Nat
      BY <1>3, <2>3
    <2>10. Follows(t, n)
      BY <2>3, <2>6, <2>8, <2>9, Zenon DEF Follows, UpTo
    <2>11. t.queue \in Seq(Nat)
      BY <2>3 DEF Latest
    <2> QED
      BY <1>1, <2>1, <2>6, <2>7, <2>10, <2>11, Zenon DEF StreamOK, Typed, t
  <1> QED
    BY <1>4, <1>5

(***************************************************************************)
(* The streams together.  A client whose hook is registered is connecting  *)
(* or connected, so that no connected client misses a call unnoticed.      *)
(***************************************************************************)
\* A hook is registered for the clients that are connecting or connected.
HooksHeld == hooks = {s \in Stream : stream[s].at \notin {"new", "left"}}

StreamInv ==
    /\ stored \in Nat /\ held \in Seq(Nat) /\ told \in Seq(Nat)
    /\ \A calls \in due : calls \in Seq(Nat) /\ Len(calls) # 0
    /\ DOMAIN stream = Stream
    /\ HooksHeld
    /\ \A s \in Stream : StreamOK(stream[s], Len(told))

LEMMA StreamInvInit ==
    E!StreamInit => StreamInv
  <1> SUFFICES ASSUME E!StreamInit PROVE StreamInv
    OBVIOUS
  <1>1. /\ stored = 0 /\ held = <<>> /\ due = {} /\ told = <<>> /\ hooks = {}
        /\ stream = [s \in Stream |-> [at |-> "new", since |-> 0,
                                       queue |-> <<>>, lagged |-> FALSE, heard |-> <<>>]]
    BY DEF E!StreamInit
  <1>2. ASSUME NEW s \in Stream PROVE StreamOK(stream[s], Len(told)) /\ stream[s].at = "new"
    <2>1. stream[s] = [at |-> "new", since |-> 0, queue |-> <<>>, lagged |-> FALSE, heard |-> <<>>]
      BY <1>1
    <2>2. Typed(stream[s]) /\ Silent(stream[s])
      BY <2>1 DEF Typed, Silent
    <2>3. Marked(stream[s].since, stream[s].heard)
      BY <2>1 DEF Marked
    <2> QED
      BY <2>1, <2>2, <2>3 DEF StreamOK
  <1>3. HooksHeld
    BY <1>1, <1>2 DEF HooksHeld
  <1>4. stored \in Nat /\ held \in Seq(Nat) /\ told \in Seq(Nat) /\ DOMAIN stream = Stream
    BY <1>1
  <1> QED
    BY <1>1, <1>2, <1>3, <1>4 DEF StreamInv

\* A step of one client.
LEMMA OneStream ==
    ASSUME StreamInv, NEW s \in Stream, NEW q, stream' = [stream EXCEPT ![s] = q],
           UNCHANGED <<stored, held, due, told>>, StreamOK(q, Len(told)),
           hooks' = IF q.at \in {"new", "left"} THEN hooks \ {s} ELSE hooks \cup {s}
    PROVE  StreamInv'
  <1>1. DOMAIN stream' = Stream /\ stream'[s] = q /\ \A r \in Stream \ {s} : stream'[r] = stream[r]
    BY DEF StreamInv
  <1>2. \A r \in Stream : StreamOK(stream'[r], Len(told'))
    BY <1>1 DEF StreamInv
  <1>3. HooksHeld'
    BY <1>1 DEF StreamInv, HooksHeld
  <1> QED
    BY <1>1, <1>2, <1>3 DEF StreamInv

LEMMA StreamStepKeeps ==
    ASSUME StreamInv, NEW s \in Stream, E!StreamStep(s) \/ E!Leave(s)
    PROVE  StreamInv'
  <1> DEFINE q == stream[s]
  <1>1. StreamOK(q, Len(told)) /\ DOMAIN stream = Stream /\ Len(told) \in Nat
    BY DEF StreamInv
  <1>2. Typed(q) /\ Marked(q.since, q.heard)
    BY <1>1 DEF StreamOK
  <1>3. s \in hooks <=> q.at \notin {"new", "left"}
    BY DEF StreamInv, HooksHeld
  <1>4. CASE E!Hook(s)
    <2> DEFINE t == [q EXCEPT !.at = "hooked"]
    <2>1. stream' = [stream EXCEPT ![s] = t] /\ q.at = "new" /\ hooks' = hooks \cup {s}
          /\ UNCHANGED <<stored, held, due, told>>
      BY <1>4 DEF E!Hook
    <2>2. /\ DOMAIN t = DOMAIN q /\ t.at = "hooked" /\ t.since = q.since /\ t.queue = q.queue
          /\ t.lagged = q.lagged /\ t.heard = q.heard
      BY <1>2 DEF Typed
    <2> HIDE DEF t, q
    <2>3. StreamOK(t, Len(told))
      BY <1>1, <2>1, <2>2 DEF StreamOK, Typed, Silent
    <2> QED
      BY <2>1, <2>2, <2>3, OneStream, Zenon
  <1>5. CASE E!Subscribe(s)
    <2> DEFINE t == [q EXCEPT !.at = "open", !.since = Len(told)]
    <2>1. stream' = [stream EXCEPT ![s] = t] /\ q.at = "hooked" /\ hooks' = hooks
          /\ UNCHANGED <<stored, held, due, told>>
      BY <1>5, Zenon DEF E!Subscribe
    <2>2. /\ DOMAIN t = DOMAIN q /\ t.at = "open" /\ t.since = Len(told) /\ t.queue = q.queue
          /\ t.lagged = q.lagged /\ t.heard = q.heard
      BY <1>2 DEF Typed
    <2>3. hooks' = hooks \cup {s}
      BY <1>3, <2>1
    <2> HIDE DEF t, q
    <2>4. t.queue = <<>> /\ t.lagged = FALSE /\ t.heard = <<>>
      BY <1>1, <2>1, <2>2 DEF StreamOK, Silent
    <2>5. Latest(t.queue, Len(told)) /\ Len(t.queue) = 0 /\ Len(t.heard) = 0
      BY <1>1, <2>4 DEF Latest
    <2>6. ~Gap(t) /\ Top(t.since, t.heard, Len(told)) /\ Marked(t.since, t.heard)
      BY <1>1, <2>2, <2>4, <2>5 DEF Gap, Top, Before, Marked
    <2>7. UpTo(t, Len(told) - Len(t.queue))
      BY <1>1, <2>5, <2>6 DEF UpTo
    <2>8. StreamOK(t, Len(told))
      BY <1>1, <1>2, <2>2, <2>5, <2>6, <2>7 DEF StreamOK, Typed, Follows
    <2> QED
      BY <2>1, <2>2, <2>3, <2>8, OneStream, Zenon
  <1>6. CASE E!Poll(s)
    <2>1. stream' = [stream EXCEPT ![s] = E!Polled(q)] /\ q.at = "open" /\ hooks' = hooks
          /\ (q.lagged \/ q.queue # <<>>) /\ UNCHANGED <<stored, held, due, told>>
      BY <1>6 DEF E!Poll
    <2>2. hooks' = hooks \cup {s}
      BY <1>3, <2>1
    <2>3. StreamOK(E!Polled(q), Len(told)) /\ E!Polled(q).at = "open"
      BY <1>1, <2>1, PolledOK, Zenon
    <2> QED
      BY <2>1, <2>2, <2>3, OneStream, Zenon
  <1>7. CASE E!Leave(s)
    <2> DEFINE t == [q EXCEPT !.at = "left", !.queue = <<>>, !.lagged = FALSE]
    <2>1. stream' = [stream EXCEPT ![s] = t] /\ hooks' = hooks \ {s}
          /\ UNCHANGED <<stored, held, due, told>>
      BY <1>7, Zenon DEF E!Leave
    <2>2. /\ DOMAIN t = DOMAIN q /\ t.at = "left" /\ t.since = q.since /\ t.queue = <<>>
          /\ t.lagged = FALSE /\ t.heard = q.heard
      BY <1>2 DEF Typed
    <2> HIDE DEF t, q
    <2>3. Typed(t)
      <3>1. <<>> \in Seq(Nat) /\ FALSE \in BOOLEAN
        OBVIOUS
      <3> QED
        BY <1>2, <2>2, <3>1, Zenon DEF Typed
    <2>4. Marked(t.since, t.heard)
      BY <1>2, <2>2, Zenon
    <2>5. StreamOK(t, Len(told))
      BY <2>2, <2>3, <2>4 DEF StreamOK
    <2> QED
      BY <2>1, <2>2, <2>5, OneStream, Zenon
  <1> QED
    BY <1>4, <1>5, <1>6, <1>7 DEF E!StreamStep

LEMMA TellKeeps ==
    ASSUME StreamInv, NEW calls \in due, E!Tell(calls)
    PROVE  StreamInv'
  <1>1. calls \in Seq(Nat) /\ Len(calls) # 0 /\ told \in Seq(Nat) /\ held \in Seq(Nat)
    BY DEF StreamInv
  <1>2. /\ told' = Append(told, Head(calls))
        /\ due' = (due \ {calls}) \cup (IF Len(calls) = 1 THEN {} ELSE {Tail(calls)})
        /\ UNCHANGED <<stored, held, hooks>>
    BY DEF E!Tell, E!NextCall
  <1>3. told' \in Seq(Nat) /\ Len(told') = Len(told) + 1
    BY <1>1, <1>2
  <1>4. Len(calls) # 1 => Tail(calls) \in Seq(Nat) /\ Len(Tail(calls)) # 0
    BY <1>1
  <1>5. \A d \in due' : d \in Seq(Nat) /\ Len(d) # 0
    BY <1>2, <1>4, Zenon DEF StreamInv
  <1>6. DOMAIN stream' = Stream
    BY DEF E!Tell
  <1>7. ASSUME NEW s \in Stream
        PROVE  /\ StreamOK(stream'[s], Len(told'))
               /\ stream'[s].at = stream[s].at
    <2>1. StreamOK(stream[s], Len(told)) /\ Len(told) \in Nat
      BY <1>1 DEF StreamInv
    <2>2. s \in hooks <=> stream[s].at \notin {"new", "left"}
      BY DEF StreamInv, HooksHeld
    <2>3. CASE stream[s].at = "open"
      <3>1. stream'[s] = E!Sent(stream[s], Len(told) + 1)
        BY <1>3, <2>2, <2>3 DEF E!Tell
      <3> QED
        BY <1>3, <2>1, <2>3, <3>1, SentOK
    <2>4. CASE stream[s].at # "open"
      <3>1. stream'[s] = stream[s]
        BY <2>4 DEF E!Tell
      <3> QED
        BY <2>1, <2>4, <3>1 DEF StreamOK
    <2> QED
      BY <2>3, <2>4
  <1>8. HooksHeld'
    BY <1>2, <1>7, Zenon DEF StreamInv, HooksHeld
  <1>9. stored' \in Nat /\ held' \in Seq(Nat)
    BY <1>2 DEF StreamInv
  <1> QED
    BY <1>3, <1>5, <1>6, <1>7, <1>8, <1>9 DEF StreamInv

LEMMA CommitKeeps ==
    ASSUME StreamInv, E!Store \/ E!Drain
    PROVE  StreamInv'
  <1>1. UNCHANGED <<told, hooks, stream>>
    BY DEF E!Store, E!Drain
  <1>2. HooksHeld' /\ \A s \in Stream : StreamOK(stream'[s], Len(told'))
    BY <1>1 DEF StreamInv, HooksHeld
  <1>3. CASE E!Store
    <2>1. stored' \in Nat /\ held' \in Seq(Nat) /\ due' = due
      BY <1>3 DEF StreamInv, E!Store
    <2> QED
      BY <1>1, <1>2, <2>1 DEF StreamInv
  <1>4. CASE E!Drain
    <2>1. held \in Seq(Nat) /\ held # <<>>
      BY <1>4 DEF StreamInv, E!Drain
    <2>2. Len(held) # 0
      BY <2>1
    <2>3. held' = <<>> /\ due' = due \cup {held} /\ stored' = stored
      BY <1>4 DEF E!Drain
    <2>4. \A d \in due' : d \in Seq(Nat) /\ Len(d) # 0
      BY <2>1, <2>2, <2>3 DEF StreamInv
    <2>5. held' \in Seq(Nat)
      BY <2>3
    <2> QED
      BY <1>1, <1>2, <2>3, <2>4, <2>5 DEF StreamInv
  <1> QED
    BY <1>3, <1>4

(***************************************************************************)
(* Model files.  A temporary file holds the chunks its upload has taken so *)
(* far, in order, but for the last if its write failed; a write that was   *)
(* reported to have failed is never followed by another.                   *)
(***************************************************************************)
Missing(lost) == IF lost THEN 1 ELSE 0

InOrder(file, u) == \A i \in DOMAIN file : file[i] = <<u.id, i>>

Partial(file, u, r) ==
    file \in Seq({u.id} \X Nat) /\ InOrder(file, u) /\ Len(file) = r.total - Missing(r.lost)

UploadOK(u, r) ==
    /\ DOMAIN r = {"at", "total", "lost"} /\ r.total \in Nat /\ r.lost \in BOOLEAN
    /\ r.at = "new" => r.total = 0 /\ r.lost = FALSE
    /\ r.at \in {"rename", "detached"} => r.total = u.chunks

TempOK(t) ==
    /\ t \in Upload /\ upload[t].at \in {"writing", "rename", "detached", "left"}
    /\ Partial(temp[t], t, upload[t])

\* An upload that has ended: no later step changes its record.
Source(u, n, m, file) ==
    /\ u.node = n /\ u.name = m /\ upload[u].at \in {"created", "left"}
    /\ InOrder(file, u) /\ Len(file) = u.chunks - Missing(upload[u].lost)

FileOK(n, m, file) == file = F!Older \/ \E u \in Upload : Source(u, n, m, file)

DiskOK == DOMAIN disk = Node /\ \A n \in Node : \A m \in DOMAIN disk[n] : FileOK(n, m, disk[n][m])

FilesInv ==
    /\ DOMAIN upload = Upload /\ \A u \in Upload : UploadOK(u, upload[u])
    /\ \A t \in DOMAIN temp : TempOK(t)
    /\ DiskOK

LEMMA FilesInvSound ==
    FilesInv => F!FilesWhole /\ F!TempsAccounted
  <1> SUFFICES ASSUME FilesInv PROVE F!FilesWhole /\ F!TempsAccounted
    OBVIOUS
  <1>1. F!TempsAccounted
    BY DEF FilesInv, TempOK, F!TempsAccounted, F!TempOf
  <1>2. ASSUME NEW n \in Node, NEW m \in DOMAIN disk[n]
        PROVE  \/ disk[n][m] = F!Older
               \/ \E u \in Upload :
                    /\ u.node = n /\ u.name = m
                    /\ \A i \in DOMAIN disk[n][m] : disk[n][m][i] = <<u.id, i>>
                    /\ Len(disk[n][m]) = u.chunks - (IF upload[u].lost THEN 1 ELSE 0)
    <2>1. FileOK(n, m, disk[n][m])
      BY <1>2 DEF FilesInv, DiskOK
    <2> QED
      BY <2>1, Zenon DEF FileOK, Source, InOrder, Missing
  <1>3. F!FilesWhole
    BY <1>2, Zenon DEF F!FilesWhole
  <1> QED
    BY <1>1, <1>3

LEMMA FilesInvInit ==
    ASSUME NEW present, F!FilesInit(present)
    PROVE  FilesInv
  <1>1. /\ disk = [n \in Node |-> [m \in present[n] |-> F!Older]]
        /\ temp = <<>>
        /\ upload = [u \in Upload |-> [at |-> "new", total |-> 0, lost |-> FALSE]]
    BY DEF F!FilesInit
  <1>2. DiskOK
    BY <1>1 DEF DiskOK, FileOK
  <1>3. DOMAIN temp = {}
    BY <1>1
  <1>4. DOMAIN upload = Upload /\ \A u \in Upload : UploadOK(u, upload[u])
    BY <1>1, Zenon DEF UploadOK
  <1> QED
    BY <1>2, <1>3, <1>4 DEF FilesInv

\* A file keeps its source as long as the records of finished uploads stay.
LEMMA SourceKept ==
    ASSUME \A u \in Upload : upload[u].at \in {"created", "left"} => upload'[u] = upload[u],
           NEW n, NEW m, NEW file, FileOK(n, m, file)
    PROVE  file = F!Older \/ \E u \in Upload :
               /\ u.node = n /\ u.name = m /\ upload'[u].at \in {"created", "left"}
               /\ InOrder(file, u) /\ Len(file) = u.chunks - Missing(upload'[u].lost)
  <1>1. CASE file = F!Older
    BY <1>1
  <1>2. CASE file # F!Older
    <2>1. PICK u \in Upload : Source(u, n, m, file)
      BY <1>2 DEF FileOK
    <2>2. upload'[u] = upload[u]
      BY <2>1 DEF Source
    <2> QED
      BY <2>1, <2>2, Zenon DEF Source
  <1> QED
    BY <1>1, <1>2

LEMMA DiskKept ==
    ASSUME DiskOK, disk' = disk,
           \A u \in Upload : upload[u].at \in {"created", "left"} => upload'[u] = upload[u]
    PROVE  DiskOK'
  <1>1. DOMAIN disk' = Node
    BY DEF DiskOK
  <1>2. ASSUME NEW n \in Node, NEW m \in DOMAIN disk'[n] PROVE FileOK(n, m, disk[n][m])'
    <2> DEFINE file == disk[n][m]
    <2>1. FileOK(n, m, file)
      BY <1>2 DEF DiskOK
    <2>2. disk'[n][m] = file
      OBVIOUS
    <2> HIDE DEF file
    <2>3. file = F!Older \/ \E u \in Upload :
               /\ u.node = n /\ u.name = m /\ upload'[u].at \in {"created", "left"}
               /\ InOrder(file, u) /\ Len(file) = u.chunks - Missing(upload'[u].lost)
      BY <2>1, SourceKept
    <2> QED
      BY <2>2, <2>3, Zenon DEF FileOK, Source
  <1> QED
    BY <1>1, <1>2, Zenon DEF DiskOK

\* A step of upload u that keeps the directories.
LEMMA OneUpload ==
    ASSUME FilesInv, NEW u \in Upload, NEW r, upload' = [upload EXCEPT ![u] = r], UploadOK(u, r),
           upload[u].at \notin {"created", "left"}, DiskOK',
           DOMAIN temp' \subseteq DOMAIN temp \cup {u},
           \A t \in DOMAIN temp' \ {u} : temp'[t] = temp[t],
           u \in DOMAIN temp' => /\ r.at \in {"writing", "rename", "detached", "left"}
                                 /\ Partial(temp'[u], u, r)
    PROVE  FilesInv'
  <1>1. DOMAIN upload' = Upload /\ upload'[u] = r /\ \A v \in Upload \ {u} : upload'[v] = upload[v]
    BY DEF FilesInv
  <1>2. \A v \in Upload : UploadOK(v, upload'[v])
    BY <1>1 DEF FilesInv
  <1>3. ASSUME NEW t \in DOMAIN temp'
        PROVE  /\ t \in Upload /\ upload'[t].at \in {"writing", "rename", "detached", "left"}
               /\ Partial(temp'[t], t, upload'[t])
    <2>1. CASE t = u
      BY <1>1, <1>3, <2>1
    <2>2. CASE t # u
      <3>1. TempOK(t) /\ temp'[t] = temp[t]
        BY <1>3, <2>2 DEF FilesInv
      <3> QED
        BY <1>1, <2>2, <3>1 DEF TempOK
    <2> QED
      BY <2>1, <2>2
  <1> QED
    BY <1>1, <1>2, <1>3, Zenon DEF FilesInv, TempOK

LEMMA GiveUpKeeps ==
    ASSUME FilesInv, NEW u \in Upload, upload[u].at \notin {"created", "left"}, F!GiveUp(u)
    PROVE  FilesInv'
  <1> DEFINE r == [upload[u] EXCEPT !.at = "failed"]
  <1>1. upload' = [upload EXCEPT ![u] = r] /\ disk' = disk
    BY DEF F!GiveUp
  <1>2. DOMAIN temp' = DOMAIN temp \ {u} /\ \A t \in DOMAIN temp' : temp'[t] = temp[t]
    BY DEF F!GiveUp, F!Without, F!TempOf
  <1>3. UploadOK(u, upload[u]) /\ DOMAIN upload = Upload
    BY DEF FilesInv
  <1>4. UploadOK(u, r)
    BY <1>3 DEF UploadOK
  <1>5. DiskOK'
    <2>1. \A v \in Upload : upload[v].at \in {"created", "left"} => upload'[v] = upload[v]
      BY <1>1, <1>3
    <2> QED
      BY <1>1, <2>1, DiskKept DEF FilesInv
  <1> HIDE DEF r
  <1> QED
    BY <1>1, <1>2, <1>4, <1>5, OneUpload, Zenon

LEMMA UploadStepKeeps ==
    ASSUME FilesInv, NEW u \in Upload, F!UploadStep(u) \/ F!UploaderLeaves(u)
    PROVE  FilesInv'
  <1> DEFINE q == upload[u]
  <1>1. UploadOK(u, q) /\ DOMAIN upload = Upload
    BY DEF FilesInv
  <1>2. DOMAIN q = {"at", "total", "lost"} /\ q.total \in Nat /\ q.lost \in BOOLEAN
    BY <1>1 DEF UploadOK
  \* Steps that leave the directories alone.
  <1>3. ASSUME NEW r, upload' = [upload EXCEPT ![u] = r], q.at \notin {"created", "left"}, disk' = disk,
               UploadOK(u, r), DOMAIN temp' \subseteq DOMAIN temp \cup {u},
               \A t \in DOMAIN temp' \ {u} : temp'[t] = temp[t],
               u \in DOMAIN temp' => /\ r.at \in {"writing", "rename", "detached", "left"}
                                     /\ Partial(temp'[u], u, r)
        PROVE  FilesInv'
    <2>1. \A v \in Upload : upload[v].at \in {"created", "left"} => upload'[v] = upload[v]
      BY <1>1, <1>3
    <2>2. DiskOK'
      BY <1>3, <2>1, DiskKept DEF FilesInv
    <2> QED
      BY <1>3, <2>2, OneUpload, Zenon
  <1>4. ASSUME u \in DOMAIN temp PROVE Partial(temp[u], u, q) /\ q.at \in {"writing", "rename", "detached", "left"}
    BY <1>4 DEF FilesInv, TempOK
  <1>5. CASE F!BeginUpload(u)
    <2> DEFINE r == [q EXCEPT !.at = "writing"]
    <2>1. upload' = [upload EXCEPT ![u] = r] /\ disk' = disk /\ q.at = "new"
      BY <1>5 DEF F!BeginUpload
    <2>2. /\ DOMAIN temp' = DOMAIN temp \cup {u} /\ temp'[u] = <<>>
          /\ \A t \in DOMAIN temp' \ {u} : temp'[t] = temp[t]
      BY <1>5 DEF F!BeginUpload, F!With, F!TempOf
    <2>3. DOMAIN r = DOMAIN q /\ r.at = "writing" /\ r.total = q.total /\ r.lost = q.lost
      BY <1>2
    <2>4. r.total = 0 /\ r.lost = FALSE
      BY <1>1, <2>1, <2>3 DEF UploadOK
    <2> HIDE DEF q, r
    <2>5. UploadOK(u, r)
      BY <1>2, <2>3, <2>4 DEF UploadOK
    <2>6. Partial(temp'[u], u, r)
      <3>1. <<>> \in Seq({u.id} \X Nat) /\ DOMAIN <<>> = {} /\ Len(<<>>) = 0
        OBVIOUS
      <3>2. r.total - Missing(r.lost) = 0
        <4>1. Missing(FALSE) = 0 /\ 0 - 0 = 0
          BY DEF Missing
        <4> QED
          BY <2>4, <4>1, Zenon
      <3> QED
        BY <2>2, <3>1, <3>2, Zenon DEF Partial, InOrder
    <2>7. q.at \notin {"created", "left"}
      BY <2>1
    <2> QED
      BY <1>3, <2>1, <2>2, <2>3, <2>5, <2>6, <2>7, Zenon
  <1>6. CASE F!CreateFails(u)
    <2> DEFINE r == [q EXCEPT !.at = "failed"]
    <2>1. upload' = [upload EXCEPT ![u] = r] /\ disk' = disk /\ temp' = temp /\ q.at = "new"
      BY <1>6 DEF F!CreateFails
    <2>2. UploadOK(u, r)
      BY <1>2 DEF UploadOK
    <2>3. u \notin DOMAIN temp' /\ q.at \notin {"created", "left"}
      BY <1>4, <2>1
    <2> HIDE DEF q, r
    <2> QED
      BY <1>3, <2>1, <2>2, <2>3, Zenon
  <1>7. CASE F!Chunk(u) /\ ~F!GiveUp(u)
    <2> DEFINE k == q.total + 1
               r == [q EXCEPT !.total = k]
    <2>1. /\ q.at = "writing" /\ q.lost = FALSE /\ disk' = disk
          /\ upload' = [upload EXCEPT ![u] = r]
          /\ temp' = [temp EXCEPT ![u] = Append(@, <<u.id, k>>)]
      BY <1>2, <1>7 DEF F!Chunk, F!TempOf
    <2>2. DOMAIN r = DOMAIN q /\ r.at = q.at /\ r.total = k /\ r.lost = q.lost
      BY <1>2
    <2>3. UploadOK(u, r)
      BY <1>2, <2>1, <2>2 DEF UploadOK
    <2>4. ASSUME u \in DOMAIN temp' PROVE Partial(temp'[u], u, r)
      <3> DEFINE old == temp[u]
                 S == {u.id} \X Nat
                 file == Append(old, <<u.id, k>>)
      <3>1. u \in DOMAIN temp /\ temp'[u] = file
        BY <2>1, <2>4
      <3>2. old \in Seq(S) /\ (\A i \in DOMAIN old : old[i] = <<u.id, i>>) /\ Len(old) = q.total
        BY <1>2, <1>4, <2>1, <3>1 DEF Partial, InOrder, Missing
      <3>3. <<u.id, k>> \in S /\ k \in Nat
        BY <1>2
      <3> HIDE DEF old, S
      <3>4. /\ file \in Seq(S) /\ DOMAIN file = 1 .. Len(old) + 1 /\ Len(file) = Len(old) + 1
            /\ file[Len(old) + 1] = <<u.id, k>> /\ \A i \in 1 .. Len(old) : file[i] = old[i]
        BY <3>2, <3>3
      <3>5. DOMAIN old = 1 .. Len(old) /\ Len(old) \in Nat
        BY <3>2
      <3> HIDE DEF file
      <3>6. ASSUME NEW i \in DOMAIN file PROVE file[i] = <<u.id, i>>
        BY <3>2, <3>4, <3>5
      <3>7. Len(file) = r.total - Missing(r.lost)
        BY <1>2, <2>1, <2>2, <3>2, <3>4 DEF Missing
      <3> QED
        BY <3>1, <3>4, <3>6, <3>7, Zenon DEF Partial, InOrder, S
    <2>5. DOMAIN temp' = DOMAIN temp /\ \A t \in DOMAIN temp' \ {u} : temp'[t] = temp[t]
      BY <2>1
    <2> HIDE DEF q, r
    <2> QED
      BY <1>3, <2>1, <2>2, <2>3, <2>4, <2>5, Zenon
  <1>8. CASE F!ChunkLost(u)
    <2> DEFINE r == [q EXCEPT !.total = @ + 1, !.lost = TRUE]
    <2>1. /\ q.at = "writing" /\ q.lost = FALSE /\ disk' = disk /\ temp' = temp
          /\ upload' = [upload EXCEPT ![u] = r]
      BY <1>2, <1>8, Zenon DEF F!ChunkLost
    <2>2. DOMAIN r = DOMAIN q /\ r.at = q.at /\ r.total = q.total + 1 /\ r.lost = TRUE
      BY <1>2
    <2>3. UploadOK(u, r)
      BY <1>2, <2>1, <2>2 DEF UploadOK
    <2>4. ASSUME u \in DOMAIN temp' PROVE Partial(temp'[u], u, r)
      <3>1. Partial(temp[u], u, q) /\ temp'[u] = temp[u]
        BY <1>4, <2>1, <2>4
      <3>2. q.total - Missing(q.lost) = r.total - Missing(r.lost)
        BY <1>2, <2>1, <2>2 DEF Missing
      <3> QED
        BY <3>1, <3>2, Zenon DEF Partial
    <2> HIDE DEF q, r
    <2> QED
      BY <1>3, <2>1, <2>2, <2>3, <2>4, Zenon
  <1>9. CASE F!EndOfBody(u) /\ ~F!GiveUp(u)
    <2> DEFINE r == [q EXCEPT !.at = "rename"]
    <2>1. /\ q.at = "writing" /\ q.total = u.chunks /\ disk' = disk /\ temp' = temp
          /\ upload' = [upload EXCEPT ![u] = r]
      BY <1>9 DEF F!EndOfBody
    <2>2. DOMAIN r = DOMAIN q /\ r.at = "rename" /\ r.total = q.total /\ r.lost = q.lost
      BY <1>2
    <2>3. UploadOK(u, r)
      BY <1>2, <2>1, <2>2 DEF UploadOK
    <2>4. ASSUME u \in DOMAIN temp' PROVE Partial(temp'[u], u, r)
      BY <1>4, <2>1, <2>2, <2>4 DEF Partial
    <2> HIDE DEF q, r
    <2> QED
      BY <1>3, <2>1, <2>2, <2>3, <2>4, Zenon
  <1>10. ASSUME q.at \in {"writing", "rename", "detached"}, NEW a \in {"detached", "left"},
                a = "detached" => q.at = "rename",
                upload' = [upload EXCEPT ![u] = [q EXCEPT !.at = a]], UNCHANGED <<disk, temp>>
         PROVE  FilesInv'
    <2> DEFINE r == [q EXCEPT !.at = a]
    <2>1. upload' = [upload EXCEPT ![u] = r]
      BY <1>10
    <2>2. DOMAIN r = DOMAIN q /\ r.at = a /\ r.total = q.total /\ r.lost = q.lost
      BY <1>2
    <2>3. UploadOK(u, r)
      BY <1>1, <1>2, <1>10, <2>2 DEF UploadOK
    <2>4. ASSUME u \in DOMAIN temp' PROVE Partial(temp'[u], u, r)
      BY <1>4, <1>10, <2>2, <2>4 DEF Partial
    <2>5. /\ DOMAIN temp' \subseteq DOMAIN temp \cup {u} /\ q.at \notin {"created", "left"}
          /\ \A t \in DOMAIN temp' \ {u} : temp'[t] = temp[t]
          /\ r.at \in {"writing", "rename", "detached", "left"} /\ disk' = disk
      BY <1>10, <2>2
    <2> HIDE DEF q, r
    <2> QED
      BY <1>3, <2>1, <2>3, <2>4, <2>5, Zenon
  <1>11. CASE F!Rename(u)
    <2> DEFINE r == [q EXCEPT !.at = IF @ = "rename" THEN "created" ELSE "left"]
               file == temp[u]
    <2>1. /\ q.at \in {"rename", "detached"} /\ u \in DOMAIN temp /\ upload' = [upload EXCEPT ![u] = r]
          /\ disk' = [disk EXCEPT ![u.node] = F!With(@, u.name, file)]
      BY <1>11 DEF F!Rename, F!TempOf
    <2>2. DOMAIN temp' = DOMAIN temp \ {u} /\ \A t \in DOMAIN temp' : temp'[t] = temp[t]
      BY <1>11 DEF F!Rename, F!Without, F!TempOf
    <2>3. DOMAIN r = DOMAIN q /\ r.at \in {"created", "left"} /\ r.total = q.total /\ r.lost = q.lost
      BY <1>2
    <2>4. UploadOK(u, r)
      BY <1>2, <2>1, <2>3 DEF UploadOK
    <2>5. upload'[u] = r /\ \A v \in Upload : upload[v].at \in {"created", "left"} => upload'[v] = upload[v]
      BY <1>1, <2>1
    <2>6. InOrder(file, u) /\ Len(file) = u.chunks - Missing(r.lost)
      BY <1>1, <1>4, <2>1, <2>3 DEF Partial, UploadOK
    <2>7. DOMAIN disk = Node /\ u.node \in Node
      BY UploadsAssumption DEF FilesInv, DiskOK
    <2> HIDE DEF file, r, q
    <2>8. DOMAIN disk' = Node
      BY <2>1, <2>7
    <2>9. ASSUME NEW n \in Node, NEW m \in DOMAIN disk'[n] PROVE FileOK(n, m, disk[n][m])'
      <3>1. CASE n = u.node /\ m = u.name
        <4>1. disk'[n][m] = file
          BY <2>1, <2>7, <2>9, <3>1 DEF F!With
        <4> QED
          BY <2>3, <2>5, <2>6, <3>1, <4>1, Zenon DEF FileOK, Source
      <3>2. CASE ~(n = u.node /\ m = u.name)
        <4>1. m \in DOMAIN disk[n] /\ disk'[n][m] = disk[n][m]
          BY <2>1, <2>7, <2>9, <3>2 DEF F!With
        <4>2. FileOK(n, m, disk[n][m])
          BY <4>1 DEF FilesInv, DiskOK
        <4> DEFINE other == disk[n][m]
        <4> HIDE DEF other
        <4>3. other = F!Older \/ \E v \in Upload :
                 /\ v.node = n /\ v.name = m /\ upload'[v].at \in {"created", "left"}
                 /\ InOrder(other, v) /\ Len(other) = v.chunks - Missing(upload'[v].lost)
          BY <2>5, <4>2, SourceKept DEF other
        <4> QED
          BY <4>1, <4>3, Zenon DEF FileOK, Source, other
      <3> QED
        BY <3>1, <3>2
    <2>10. DiskOK'
      BY <2>8, <2>9, Zenon DEF DiskOK
    <2>11. q.at \notin {"created", "left"} /\ DOMAIN temp' \subseteq DOMAIN temp \cup {u} /\ u \notin DOMAIN temp'
      BY <2>1, <2>2
    <2> QED
      BY <2>1, <2>2, <2>4, <2>10, <2>11, OneUpload, Zenon DEF q
  <1>12. CASE F!GiveUp(u) /\ q.at \notin {"created", "left"}
    BY <1>12, GiveUpKeeps
  <1>13. CASE F!UploaderLeaves(u) \/ (F!RenameFails(u) /\ q.at = "detached")
    <2>1. \E a \in {"detached", "left"} :
              /\ a = "detached" => q.at = "rename"
              /\ upload' = [upload EXCEPT ![u] = [q EXCEPT !.at = a]]
      BY <1>13 DEF F!UploaderLeaves, F!RenameFails
    <2>2. q.at \in {"writing", "rename", "detached"} /\ UNCHANGED <<disk, temp>>
      BY <1>13 DEF F!UploaderLeaves, F!RenameFails
    <2> QED
      BY <1>10, <2>1, <2>2, Zenon
  <1> QED
    BY <1>5, <1>6, <1>7, <1>8, <1>9, <1>11, <1>12, <1>13
       DEF F!UploadStep, F!BodyFails, F!RenameFails, F!Chunk, F!EndOfBody

LEMMA DeleteKeeps ==
    ASSUME FilesInv, NEW n \in Node, NEW m, F!Delete(n, m)
    PROVE  FilesInv'
  <1>1. /\ disk' = [disk EXCEPT ![n] = F!Without(disk[n], m)]
        /\ temp' = temp /\ upload' = upload /\ DOMAIN disk = Node
    BY DEF F!Delete, FilesInv, DiskOK
  <1>2. ASSUME NEW k \in Node, NEW l \in DOMAIN disk'[k]
        PROVE  l \in DOMAIN disk[k] /\ disk'[k][l] = disk[k][l]
    BY <1>1, <1>2 DEF F!Without
  <1>3. DOMAIN disk' = Node
    BY <1>1
  <1>4. ASSUME NEW k \in Node, NEW l \in DOMAIN disk'[k] PROVE FileOK(k, l, disk[k][l])'
    <2>1. FileOK(k, l, disk[k][l])
      BY <1>2 DEF FilesInv, DiskOK
    <2> QED
      BY <1>1, <1>2, <2>1 DEF FileOK, Source
  <1>5. DiskOK'
    BY <1>3, <1>4, Zenon DEF DiskOK
  <1> QED
    BY <1>1, <1>5 DEF FilesInv, TempOK

\* The node is killed: its uploads leave their temporary files.
LEMMA CrashKeeps ==
    ASSUME FilesInv, NEW n \in Node, NodeCrashes(n)
    PROVE  FilesInv'
  <1>1. /\ upload' = [u \in Upload |-> IF u.node = n /\ upload[u].at \in {"writing", "rename", "detached"}
                                       THEN [upload[u] EXCEPT !.at = "left"] ELSE upload[u]]
        /\ disk' = disk /\ temp' = temp
    BY Zenon DEF NodeCrashes
  <1>2. ASSUME NEW u \in Upload
        PROVE  /\ UploadOK(u, upload'[u]) /\ upload'[u].total = upload[u].total
               /\ upload'[u].lost = upload[u].lost
               /\ upload[u].at \in {"created", "left"} => upload'[u] = upload[u]
               /\ upload[u].at \in {"writing", "rename", "detached", "left"}
                    => upload'[u].at \in {"writing", "rename", "detached", "left"}
    <2>1. UploadOK(u, upload[u])
      BY DEF FilesInv
    <2>2. CASE upload'[u] = upload[u]
      BY <2>1, <2>2
    <2>3. CASE /\ upload'[u] = [upload[u] EXCEPT !.at = "left"]
               /\ upload[u].at \in {"writing", "rename", "detached"}
      BY <2>1, <2>3 DEF UploadOK
    <2> QED
      BY <1>1, <2>2, <2>3
  <1>3. DiskOK'
    BY <1>1, <1>2, DiskKept DEF FilesInv
  <1>4. \A t \in DOMAIN temp' : TempOK(t)'
    BY <1>1, <1>2 DEF FilesInv, TempOK, Partial
  <1>5. DOMAIN upload' = Upload
    BY <1>1
  <1> QED
    BY <1>2, <1>3, <1>4, <1>5 DEF FilesInv

LEMMA FilesUnchanged ==
    ASSUME FilesInv, UNCHANGED fileVars
    PROVE  FilesInv'
  BY DEF fileVars, FilesInv, DiskOK, TempOK, FileOK, Source

(***************************************************************************)
(* The handlers together.                                                  *)
(***************************************************************************)
ServiceInv == setup \in Setups /\ FilesInv

LEMMA TaskKeeps ==
    ASSUME ServiceInv, Task
    PROVE  ServiceInv'
  <1>1. FilesInv /\ setup \in Setups
    BY DEF ServiceInv
  <1>2. ASSUME UNCHANGED <<setup, fileVars>> PROVE ServiceInv'
    BY <1>1, <1>2, FilesUnchanged DEF ServiceInv
  <1>3. CASE \E c \in Made : ChatStub(c) \/ ChatStart(c) \/ Collect(c) \/ Deadline(c) \/ Join(c)
    <2>1. UNCHANGED <<setup, fileVars>>
      BY <1>3, Zenon DEF ChatStub, ChatStart, Collect, Deadline, Join
    <2> QED
      BY <1>2, <2>1
  <1>4. CASE \E k \in Call : \/ Busy(k) \/ Acquire(k) \/ Respond(k) \/ Finish(k)
                             \/ CompleteLocal(k)
    <2>1. UNCHANGED <<setup, fileVars>>
      BY <1>4 DEF Busy, Acquire, Respond, Finish, CompleteLocal
    <2> QED
      BY <1>2, <2>1
  <1>5. CASE \E u \in setup.uploads : ChangeFiles(u)
    <2>1. PICK u \in setup.uploads : ChangeFiles(u)
      BY <1>5
    <2>2. u \in Upload
      BY <1>1, SetupsAssumption
    <2>3. F!UploadStep(u) /\ setup' = setup
      BY <2>1 DEF ChangeFiles
    <2> QED
      BY <1>1, <2>2, <2>3, UploadStepKeeps DEF ServiceInv
  <1> QED
    BY <1>3, <1>4, <1>5 DEF Task

LEMMA EnvironmentKeeps ==
    ASSUME ServiceInv, Environment
    PROVE  ServiceInv'
  <1>1. FilesInv /\ setup \in Setups
    BY DEF ServiceInv
  <1>2. ASSUME UNCHANGED <<setup, fileVars>> PROVE ServiceInv'
    BY <1>1, <1>2, FilesUnchanged DEF ServiceInv
  <1>3. CASE (\E c \in Made : ChatLeft(c)) \/ \E k \in Call : Receive(k) \/ Arrive(k)
    <2>1. UNCHANGED <<setup, fileVars>>
      BY <1>3, Zenon DEF ChatLeft, Receive, Arrive
    <2> QED
      BY <1>2, <2>1
  <1>4. CASE \E u \in setup.uploads : UploaderLeaves(u)
    <2>1. PICK u \in setup.uploads : UploaderLeaves(u)
      BY <1>4
    <2>2. u \in Upload
      BY <1>1, SetupsAssumption
    <2>3. F!UploaderLeaves(u) /\ setup' = setup
      BY <2>1 DEF UploaderLeaves
    <2> QED
      BY <1>1, <2>2, <2>3, UploadStepKeeps DEF ServiceInv
  <1>5. ASSUME NEW n \in setup.nodes,
               \/ NodeCrashes(n)
               \/ \E m \in Model : DeleteModel(n, m)
               \/ \E p \in Port : ServerComesUp(n, p) \/ ServerCrashes(n, p)
        PROVE  ServiceInv'
    <2>1. n \in Node
      BY <1>1, SetupsAssumption
    <2>2. CASE NodeCrashes(n)
      <3>1. setup' = setup
        BY <2>2, Zenon DEF NodeCrashes
      <3> QED
        BY <1>1, <2>1, <2>2, <3>1, CrashKeeps DEF ServiceInv
    <2>3. CASE \E m \in Model : DeleteModel(n, m)
      <3>1. PICK m \in Model : DeleteModel(n, m)
        BY <2>3
      <3>2. F!Delete(n, m) /\ setup' = setup
        BY <3>1 DEF DeleteModel
      <3> QED
        BY <1>1, <2>1, <3>2, DeleteKeeps DEF ServiceInv
    <2>4. CASE \E p \in Port : ServerComesUp(n, p) \/ ServerCrashes(n, p)
      <3>1. UNCHANGED <<setup, fileVars>>
        BY <2>4 DEF ServerComesUp, ServerCrashes
      <3> QED
        BY <1>2, <3>1
    <2> QED
      BY <1>5, <2>2, <2>3, <2>4
  <1> QED
    BY <1>3, <1>4, <1>5 DEF Environment

LEMMA ServiceInvInit ==
    Init => ServiceInv
  BY FilesInvInit DEF Init, ServiceInv

LEMMA ServiceInvHolds ==
    Spec => []ServiceInv
  <1>1. ServiceInv /\ [Next]_vars => ServiceInv'
    <2> SUFFICES ASSUME ServiceInv, [Next]_vars PROVE ServiceInv'
      OBVIOUS
    <2>1. CASE UNCHANGED vars
      <3>1. UNCHANGED <<setup, fileVars>>
        BY <2>1 DEF vars
      <3> QED
        BY <3>1, FilesUnchanged DEF ServiceInv
    <2> QED
      BY <2>1, TaskKeeps, EnvironmentKeeps DEF Next
  <1> QED
    BY <1>1, ServiceInvInit, PTL DEF Spec

\* A file under its name is what one upload sent, in order and complete but
\* for a last chunk whose failure flush hides, whatever uploads, deletes and
\* node crashes come between the steps of models_upload.
THEOREM FilesAreWhole == Spec => []FilesWhole
  <1>1. ServiceInv => FilesWhole
    BY FilesInvSound DEF ServiceInv, FilesWhole
  <1> QED
    BY <1>1, ServiceInvHolds, PTL

\* No error path of models_upload leaves a temporary file behind: one belongs
\* to an upload in progress, or to one whose client or node went away.
THEOREM TempsAreAccounted == Spec => []TempsAccounted
  <1>1. ServiceInv => TempsAccounted
    BY FilesInvSound DEF ServiceInv, TempsAccounted
  <1> QED
    BY <1>1, ServiceInvHolds, PTL

LEMMA ApiInvHolds ==
    ApiSpec => [](ServiceInv /\ StreamInv)
  <1> DEFINE Inv == ServiceInv /\ StreamInv
  <1>1. ApiInit => Inv
    BY ServiceInvInit, StreamInvInit DEF ApiInit
  <1>2. Inv /\ [ApiNext]_apiVars => Inv'
    <2> SUFFICES ASSUME ServiceInv, StreamInv, [ApiNext]_apiVars PROVE Inv'
      OBVIOUS
    <2>1. ASSUME UNCHANGED streamVars PROVE StreamInv'
      BY <2>1 DEF streamVars, StreamInv, HooksHeld
    <2>2. ASSUME UNCHANGED vars PROVE ServiceInv'
      <3>1. UNCHANGED <<setup, fileVars>>
        BY <2>2 DEF vars
      <3> QED
        BY <3>1, FilesUnchanged DEF ServiceInv
    <2>3. \A s \in setup.streams : s \in Stream
      BY StreamsAssumption DEF ServiceInv
    <2>4. CASE StreamTask /\ UNCHANGED vars
      <3>1. StreamInv'
        BY <2>3, <2>4, CommitKeeps, TellKeeps, StreamStepKeeps DEF StreamTask
      <3> QED
        BY <2>2, <2>4, <3>1
    <2>5. CASE (E!Store \/ \E s \in setup.streams : E!Leave(s)) /\ UNCHANGED vars
      <3>1. StreamInv'
        BY <2>3, <2>5, CommitKeeps, StreamStepKeeps
      <3> QED
        BY <2>2, <2>5, <3>1
    <2>6. CASE (Task \/ Environment) /\ UNCHANGED streamVars
      BY <2>1, <2>6, TaskKeeps, EnvironmentKeeps
    <2>7. CASE UNCHANGED apiVars
      BY <2>1, <2>2, <2>7 DEF apiVars
    <2> QED
      BY <2>4, <2>5, <2>6, <2>7 DEF ApiNext, ApiTask, ApiEnvironment
  <1> QED
    BY <1>1, <1>2, PTL DEF ApiSpec

\* Whatever the capacity of the channels, the number of commits and the order
\* the handlers call the hooks in, a client hears every call since it
\* subscribed, in order, and an event of height 0 exactly where some are missing.
THEOREM GapsAreMarked == ApiSpec => []GapsMarked
  <1>1. ASSUME StreamInv PROVE GapsMarked
    <2>1. \A s \in Stream : Marked(stream[s].since, stream[s].heard)
      BY <1>1 DEF StreamInv, StreamOK
    <2> QED
      BY <2>1, Zenon DEF GapsMarked, E!GapsMarked, Marked, InPlace, Last, Before, E!Lagged
  <1>2. StreamInv => GapsMarked
    BY <1>1
  <1> QED
    BY <1>2, ApiInvHolds, PTL
=============================================================================
