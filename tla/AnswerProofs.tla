--------------------------- MODULE AnswerProofs ----------------------------
(***************************************************************************)
(* What holds of permits and of the answers clients get, for any number of *)
(* nodes, chats and models.                                                *)
(***************************************************************************)
EXTENDS ApiProofs, FiniteSetTheorems, NaturalsInduction, WellFoundedInduction

(***************************************************************************)
(* pick_agreed_reply: what its loop leaves in best.  The loop is a         *)
(* recursive function, so what it does is shown with the first turn at     *)
(* which it would be otherwise.                                            *)
(***************************************************************************)
\* A non-empty set of turns has a first one.
LEMMA FirstTurn ==
    ASSUME NEW D \in SUBSET Nat, D # {}
    PROVE  \E x \in D : \A y \in D : x <= y
  <1> DEFINE R == OpToRel(<, Nat)
  <1>1. IsWellFoundedOn(R, Nat)
    BY NatLessThanWellFounded, Zenon
  <1>2. PICK x \in D : \A y \in D : ~(<<y, x>> \in R)
    <2> HIDE DEF R
    <2> QED
      BY <1>1, WFMin, Zenon
  <1>3. \A y \in D : ~(y < x)
    BY <1>2, Zenon DEF OpToRel
  <1>4. \A y \in D : y \in Nat /\ x \in Nat
    OBVIOUS
  <1>5. \A y \in D : x <= y
    BY <1>3, <1>4
  <1> QED
    BY <1>5

NoneYet == [at |-> 1, votes |-> 0, len |-> 0]

\* f is what the loop computes in n turns.
IsLoop(cands, n, f) ==
    f = [i \in 0 .. n |-> IF i = 0 THEN NoneYet ELSE Better(cands, i, f[i - 1])]

LEMMA LoopGoesOn ==
    ASSUME NEW cands, NEW n \in Nat, NEW f, IsLoop(cands, n, f)
    PROVE  \E g : IsLoop(cands, n + 1, g)
  <1> DEFINE g == [i \in 0 .. n + 1 |-> IF i = n + 1 THEN Better(cands, n + 1, f[n]) ELSE f[i]]
             h == [i \in 0 .. n + 1 |-> IF i = 0 THEN NoneYet ELSE Better(cands, i, g[i - 1])]
  <1>1. ASSUME NEW i \in 0 .. n + 1 PROVE g[i] = h[i]
    <2>1. CASE i = n + 1
      <3>1. n \in 0 .. n + 1 /\ n # n + 1 /\ (n + 1) - 1 = n /\ n + 1 # 0
        OBVIOUS
      <3>2. g[n] = f[n]
        BY <3>1
      <3>3. h[n + 1] = Better(cands, n + 1, g[(n + 1) - 1])
        BY <2>1, <3>1
      <3> QED BY <2>1, <3>1, <3>2, <3>3
    <2>2. CASE i # n + 1
      <3>1. i \in 0 .. n
        BY <2>2
      <3>2. f[i] = IF i = 0 THEN NoneYet ELSE Better(cands, i, f[i - 1])
        BY <3>1, Zenon DEF IsLoop
      <3>3. i # 0 => i - 1 \in 0 .. n + 1 /\ i - 1 # n + 1
        BY <3>1
      <3>4. i # 0 => g[i - 1] = f[i - 1]
        BY <3>3
      <3>5. h[i] = IF i = 0 THEN NoneYet ELSE Better(cands, i, g[i - 1])
        OBVIOUS
      <3> QED BY <2>2, <3>2, <3>4, <3>5
    <2> QED BY <2>1, <2>2
  <1>2. g = h
    BY <1>1, Zenon
  <1> QED
    BY <1>2, Zenon DEF IsLoop

LEMMA LoopExists ==
    ASSUME NEW cands, NEW n \in Nat
    PROVE  \E f : IsLoop(cands, n, f)
  <1> DEFINE D == {i \in Nat : ~\E f : IsLoop(cands, i, f)}
  <1> SUFFICES ASSUME D # {} PROVE FALSE
    OBVIOUS
  <1>1. PICK x \in D : \A y \in D : x <= y
    <2>1. D \in SUBSET Nat
      OBVIOUS
    <2> HIDE DEF D
    <2> QED
      BY <2>1, FirstTurn, Zenon
  <1>2. x # 0
    <2> DEFINE f == [i \in 0 .. 0 |-> NoneYet]
               h == [i \in 0 .. 0 |-> IF i = 0 THEN NoneYet ELSE Better(cands, i, f[i - 1])]
    <2>1. \A i \in 0 .. 0 : i = 0
      OBVIOUS
    <2>2. f = h
      BY <2>1, Zenon
    <2>3. IsLoop(cands, 0, f)
      BY <2>2, Zenon DEF IsLoop
    <2> HIDE DEF f
    <2> QED BY <1>1, <2>3, Zenon
  <1>3. x - 1 \in Nat /\ (x - 1) + 1 = x /\ ~(x <= x - 1)
    BY <1>2
  <1>4. x - 1 \notin D
    BY <1>1, <1>3
  <1>5. PICK f : IsLoop(cands, x - 1, f)
    BY <1>3, <1>4, Zenon
  <1>6. \E g : IsLoop(cands, (x - 1) + 1, g)
    <2> DEFINE m == x - 1
    <2>1. m \in Nat /\ IsLoop(cands, m, f)
      BY <1>3, <1>5
    <2> HIDE DEF m
    <2>2. \E g : IsLoop(cands, m + 1, g)
      BY <2>1, LoopGoesOn, Zenon
    <2> QED BY <2>2 DEF m
  <1> QED
    BY <1>1, <1>3, <1>6

LEMMA LoopTurns ==
    ASSUME NEW cands, Len(cands) \in Nat
    PROVE  /\ BestAfter(cands)[0] = NoneYet
           /\ \A i \in 1 .. Len(cands) : BestAfter(cands)[i] = Better(cands, i, BestAfter(cands)[i - 1])
  <1> DEFINE P(f) == IsLoop(cands, Len(cands), f)
             b == BestAfter(cands)
  <1>1. \E f : P(f)
    BY LoopExists, Zenon
  <1>2. b = CHOOSE f : P(f)
    BY DEF BestAfter, IsLoop, NoneYet
  <1> HIDE DEF P
  <1>3. P(CHOOSE f : P(f))
    BY <1>1, Zenon
  <1>4. P(b)
    BY <1>2, <1>3, Zenon
  <1> HIDE DEF b
  <1>5. b = [i \in 0 .. Len(cands) |-> IF i = 0 THEN NoneYet ELSE Better(cands, i, b[i - 1])]
    BY <1>4, Zenon DEF P, IsLoop
  <1>6. 0 \in 0 .. Len(cands) /\ \A i \in 1 .. Len(cands) : i \in 0 .. Len(cands) /\ i # 0
    OBVIOUS
  <1>7. b[0] = NoneYet
    BY <1>5, <1>6, Zenon
  <1>8. \A i \in 1 .. Len(cands) : b[i] = Better(cands, i, b[i - 1])
    BY <1>5, <1>6, Zenon
  <1> QED BY <1>7, <1>8 DEF b

\* Each candidate has its own vote.
LEMMA VotesCounted ==
    ASSUME NEW cands, Len(cands) \in Nat, DOMAIN cands = 1 .. Len(cands), NEW i \in 1 .. Len(cands)
    PROVE  Votes(cands, i) \in Nat /\ Votes(cands, i) > 0
  <1> DEFINE S == {j \in DOMAIN cands : j = i \/ Agree(cands[i].text, cands[j].text)}
  <1>1. IsFiniteSet(1 .. Len(cands)) /\ S \subseteq 1 .. Len(cands) /\ i \in S
    BY FS_Interval
  <1>2. Votes(cands, i) = Cardinality(S)
    BY DEF Votes
  <1> HIDE DEF S
  <1>3. IsFiniteSet(S)
    BY <1>1, FS_Subset, Zenon
  <1>4. Cardinality(S) \in Nat /\ Cardinality(S) # 0
    <2>1. S # {}
      BY <1>1
    <2> QED BY <1>3, <2>1, FS_CardinalityType, FS_EmptySet
  <1> QED
    BY <1>2, <1>4

\* best after m turns: no candidate so far outranks it, and it outranks those
\* before it.
Leads(cands, m, best) ==
    /\ best.at \in 1 .. m
    /\ best.votes = Votes(cands, best.at)
    /\ best.len = cands[best.at].text.len
    /\ \A i \in 1 .. m : ~Outranks(cands, i, best.at)
    /\ \A i \in 1 .. best.at - 1 : Outranks(cands, best.at, i)

\* A candidate that beats the best so far outranks all before it; otherwise it
\* does not outrank the best.
LEMMA TurnLeads ==
    ASSUME NEW cands, NEW m \in Nat, NEW best,
           \A i \in 1 .. m + 1 : Votes(cands, i) \in Nat /\ Votes(cands, i) > 0
                                 /\ cands[i].text.len \in Nat,
           m = 0 => best = NoneYet,
           m > 0 => Leads(cands, m, best)
    PROVE  Leads(cands, m + 1, Better(cands, m + 1, best))
  <1> DEFINE V(i) == Votes(cands, i)
             L(i) == cands[i].text.len
             n == m + 1
             new == [at |-> n, votes |-> V(n), len |-> L(n)]
             out(i, j) == V(i) > V(j) \/ (V(i) = V(j) /\ L(i) > L(j))
             beats == V(n) > best.votes \/ (V(n) = best.votes /\ L(n) > best.len)
  <1>1. /\ \A i, j : Outranks(cands, i, j) <=> out(i, j)
        /\ Better(cands, n, best) = IF beats THEN new ELSE best
    BY DEF Outranks, Better, Beats
  <1>2. \A i \in 1 .. n : V(i) \in Nat /\ V(i) > 0 /\ L(i) \in Nat
    OBVIOUS
  <1>3. new.at = n /\ new.votes = V(n) /\ new.len = L(n) /\ n \in 1 .. n /\ m \in 0 .. n
    OBVIOUS
  <1>4. m = 0 => best.votes = 0
    BY DEF NoneYet
  <1>5. m > 0 => /\ best.at \in 1 .. m /\ best.votes = V(best.at) /\ best.len = L(best.at)
                 /\ \A i \in 1 .. m : ~out(i, best.at)
                 /\ \A i \in 1 .. best.at - 1 : out(best.at, i)
    BY <1>1, Zenon DEF Leads
  <1> HIDE DEF V, L
  <1>6. CASE beats
    <2>1. ASSUME NEW i \in 1 .. m PROVE out(n, i)
      <3>1. m > 0 /\ i \in 1 .. n
        OBVIOUS
      <3>2. /\ best.at \in 1 .. n /\ best.votes = V(best.at) /\ best.len = L(best.at)
            /\ ~out(i, best.at)
        BY <1>5, <3>1
      <3>3. V(i) \in Nat /\ L(i) \in Nat /\ V(n) \in Nat /\ L(n) \in Nat
            /\ V(best.at) \in Nat /\ L(best.at) \in Nat
        BY <1>2, <1>3, <3>1, <3>2
      <3> QED BY <1>6, <3>2, <3>3
    <2>2. ASSUME NEW i \in 1 .. n PROVE ~out(i, n)
      <3>1. V(i) \in Nat /\ L(i) \in Nat /\ V(n) \in Nat /\ L(n) \in Nat
        BY <1>2, <1>3
      <3>2. CASE i = n
        BY <3>1, <3>2
      <3>3. CASE i # n
        <4>1. i \in 1 .. m
          BY <3>3
        <4> QED BY <2>1, <3>1, <4>1
      <3> QED BY <3>2, <3>3
    <2>3. \A i \in 1 .. n - 1 : i \in 1 .. m
      OBVIOUS
    <2>4. Better(cands, n, best) = new
      BY <1>1, <1>6
    <2> HIDE DEF out, new, n
    <2>5. /\ \A i \in 1 .. n : ~Outranks(cands, i, new.at)
          /\ \A i \in 1 .. new.at - 1 : Outranks(cands, new.at, i)
      BY <1>1, <1>3, <2>1, <2>2, <2>3, Zenon
    <2>6. Leads(cands, n, new)
      BY <1>3, <2>5, Zenon DEF Leads, V, L
    <2> QED
      BY <2>4, <2>6 DEF n
  <1>7. CASE ~beats
    <2>1. m > 0
      <3>1. V(n) \in Nat /\ V(n) > 0
        BY <1>2, <1>3
      <3> QED BY <1>4, <1>7, <3>1
    <2>2. best.at \in 1 .. n /\ best.votes = V(best.at) /\ best.len = L(best.at)
      BY <1>5, <2>1
    <2>3. ~out(n, best.at)
      BY <1>7, <2>2
    <2>4. \A i \in 1 .. n : i = n \/ i \in 1 .. m
      OBVIOUS
    <2>5. \A i \in 1 .. n : ~out(i, best.at)
      BY <1>5, <2>1, <2>3, <2>4, Zenon
    <2>6. Better(cands, n, best) = best
      BY <1>1, <1>7
    <2> HIDE DEF out, n
    <2>7. /\ \A i \in 1 .. n : ~Outranks(cands, i, best.at)
          /\ \A i \in 1 .. best.at - 1 : Outranks(cands, best.at, i)
      BY <1>1, <1>5, <2>1, <2>5, Zenon
    <2>8. Leads(cands, n, best)
      BY <2>2, <2>7, Zenon DEF Leads, V, L
    <2> QED
      BY <2>6, <2>8 DEF n
  <1> QED BY <1>6, <1>7

\* The reply that is picked leads all candidates.
LEMMA PickedLeads ==
    ASSUME NEW cands, Len(cands) \in Nat, Len(cands) # 0, DOMAIN cands = 1 .. Len(cands),
           \A i \in DOMAIN cands : cands[i].text.len \in Nat
    PROVE  Leads(cands, Len(cands), PickAgreedReply(cands))
  <1> DEFINE N == Len(cands)
             b == BestAfter(cands)
             D == {i \in 1 .. N : ~Leads(cands, i, b[i])}
  <1>1. b[0] = NoneYet /\ \A i \in 1 .. N : b[i] = Better(cands, i, b[i - 1])
    BY LoopTurns
  <1>2. \A i \in 1 .. N : Votes(cands, i) \in Nat /\ Votes(cands, i) > 0 /\ cands[i].text.len \in Nat
    BY VotesCounted
  <1> HIDE DEF b
  <1>3. SUFFICES ASSUME D # {} PROVE FALSE
    <2>1. N \notin D /\ N \in 1 .. N
      BY <1>3
    <2> QED BY <2>1, Zenon DEF PickAgreedReply, b
  <1>4. PICK x \in D : \A y \in D : x <= y
    <2>1. D \in SUBSET Nat
      OBVIOUS
    <2> HIDE DEF D
    <2> QED
      BY <1>3, <2>1, FirstTurn, Zenon
  <1> DEFINE m == x - 1
  <1>5. x \in 1 .. N /\ ~Leads(cands, x, b[x]) /\ m \in Nat /\ m + 1 = x /\ ~(x <= m) /\ m \in 0 .. N
    BY <1>4
  <1>6. m > 0 => Leads(cands, m, b[m])
    <2>1. m > 0 => m \in 1 .. N /\ m \notin D
      BY <1>4, <1>5
    <2> QED BY <2>1, Zenon
  <1>7. m = 0 => b[m] = NoneYet
    BY <1>1
  <1>8. \A i \in 1 .. m + 1 : i \in 1 .. N
    BY <1>5
  <1>9. b[m + 1] = Better(cands, m + 1, b[m])
    BY <1>1, <1>5
  <1> HIDE DEF m, D
  <1>10. Leads(cands, m + 1, Better(cands, m + 1, b[m]))
    BY <1>2, <1>5, <1>6, <1>7, <1>8, TurnLeads, Zenon
  <1> QED
    BY <1>5, <1>9, <1>10

(***************************************************************************)
(* Permits: those that are free and the requests that hold one add up to   *)
(* max_concurrent_inference.                                               *)
(***************************************************************************)
Held(n) == {k \in Call : k[2] = n /\ job[k].at \in {"run", "replied"}}

SInv ==
    /\ slots \in [Node -> Nat]
    /\ \A n \in Node : IsFiniteSet(Held(n)) /\ Cardinality(Held(n)) + slots[n] = setup.slots

\* One request takes or keeps its permit.
LEMMA OneHeld ==
    ASSUME job \in [Call -> JobType], NEW k \in Call, NEW v, job' = [job EXCEPT ![k] = v]
    PROVE  /\ \A n \in Node \ {k[2]} : Held(n)' = Held(n)
           /\ v.at \in {"run", "replied"} => Held(k[2])' = Held(k[2]) \cup {k}
           /\ v.at \notin {"run", "replied"} => Held(k[2])' = Held(k[2]) \ {k}
  BY DEF Held

\* Nobody takes or gives back a permit.
LEMMA SameHeld ==
    ASSUME SInv, UNCHANGED <<setup, slots>>, \A n \in Node : Held(n)' = Held(n)
    PROVE  SInv'
  BY DEF SInv

LEMMA SlotSteps ==
    ASSUME AInv, SInv, NEW k \in Call, Receive(k) \/ Busy(k) \/ Respond(k) \/ Finish(k) \/ Acquire(k)
    PROVE  SInv'
  <1> DEFINE n == k[2]
  <1>1. /\ job \in [Call -> JobType] /\ n \in Node /\ slots \in [Node -> Nat] /\ UNCHANGED setup
        /\ IsFiniteSet(Held(n)) /\ Cardinality(Held(n)) + slots[n] = setup.slots
        /\ Cardinality(Held(n)) \in Nat /\ job[k] \in JobType
    <2>1. job \in [Call -> JobType] /\ n \in Node /\ slots \in [Node -> Nat]
      BY CallFacts DEF AInv, CInv, SInv
    <2>2. IsFiniteSet(Held(n)) /\ Cardinality(Held(n)) + slots[n] = setup.slots
      BY <2>1 DEF SInv
    <2>3. Cardinality(Held(n)) \in Nat
      BY <2>2, FS_CardinalityType
    <2>4. UNCHANGED setup
      BY DEF Receive, Busy, Respond, Finish, Acquire
    <2> QED BY <2>1, <2>2, <2>3, <2>4
  <1>2. ASSUME NEW v, job' = [job EXCEPT ![k] = v], UNCHANGED slots,
               (v.at \in {"run", "replied"}) <=> (k \in Held(n))
        PROVE  SInv'
    <2>1. /\ \A m \in Node \ {n} : Held(m)' = Held(m)
          /\ v.at \in {"run", "replied"} => Held(n)' = Held(n) \cup {k}
          /\ v.at \notin {"run", "replied"} => Held(n)' = Held(n) \ {k}
      BY <1>1, <1>2, OneHeld, Zenon
    <2>2. Held(n)' = Held(n)
      <3>1. CASE k \in Held(n)
        BY <1>2, <2>1, <3>1
      <3>2. CASE k \notin Held(n)
        BY <1>2, <2>1, <3>2
      <3> QED BY <3>1, <3>2
    <2>3. \A m \in Node : Held(m)' = Held(m)
      BY <2>1, <2>2
    <2> QED
      BY <1>1, <1>2, <2>3, SameHeld
  <1>3. CASE Receive(k) \/ Busy(k) \/ Respond(k)
    <2>1. /\ UNCHANGED slots
          /\ \E v : /\ job' = [job EXCEPT ![k] = v]
                    /\ (v.at \in {"run", "replied"}) <=> (job[k].at = "run")
                    /\ job[k].at \in {"asked", "got", "run"}
      <3>1. CASE Receive(k)
        <4>1. [job[k] EXCEPT !.at = "got"].at = "got"
          BY <1>1 DEF JobType
        <4>2. job' = [job EXCEPT ![k] = [job[k] EXCEPT !.at = "got"]] /\ job[k].at = "asked" /\ UNCHANGED slots
          BY <1>1, <3>1 DEF Receive
        <4> QED BY <4>1, <4>2, Zenon
      <3>2. CASE Busy(k)
        <4>1. job' = [job EXCEPT ![k] = [at |-> "done", reply |-> "error"]] /\ job[k].at = "got" /\ UNCHANGED slots
          BY <3>2 DEF Busy
        <4> QED BY <4>1, Zenon
      <3>3. CASE Respond(k)
        <4>1. PICK a : job' = [job EXCEPT ![k] = [at |-> "replied", reply |-> a]]
          BY <3>3, Zenon DEF Respond, Replies
        <4>2. job[k].at = "run" /\ UNCHANGED slots
          BY <3>3 DEF Respond
        <4> QED BY <4>1, <4>2, Zenon
      <3> QED BY <1>3, <3>1, <3>2, <3>3
    <2> QED
      BY <1>2, <2>1, Zenon DEF Held
  <1>4. CASE Finish(k)
    <2> DEFINE v == [job[k] EXCEPT !.at = "done"]
    <2>1. v.at = "done" /\ job' = [job EXCEPT ![k] = v] /\ k \in Held(n)
      BY <1>1, <1>4 DEF Finish, JobType, Held
    <2> HIDE DEF v
    <2>2. Held(n)' = Held(n) \ {k} /\ \A m \in Node \ {n} : Held(m)' = Held(m)
      BY <1>1, <2>1, OneHeld, Zenon
    <2>3. /\ IsFiniteSet(Held(n) \ {k})
          /\ Cardinality(Held(n) \ {k}) = Cardinality(Held(n)) - 1
      BY <1>1, <2>1, FS_RemoveElement
    <2>4. slots' = [slots EXCEPT ![n] = @ + 1]
      BY <1>4 DEF Finish
    <2>5. slots' \in [Node -> Nat] /\ slots'[n] = slots[n] + 1 /\ \A m \in Node \ {n} : slots'[m] = slots[m]
      BY <1>1, <2>4
    <2>6. Cardinality(Held(n) \ {k}) + slots'[n] = setup.slots
      BY <1>1, <2>3, <2>5
    <2> QED
      BY <1>1, <2>2, <2>3, <2>5, <2>6, Zenon DEF SInv
  <1>5. CASE Acquire(k)
    <2>1. job[k].at = "got" /\ slots[n] > 0 /\ slots' = [slots EXCEPT ![n] = @ - 1]
      BY <1>5 DEF Acquire, TakeSlot
    <2>2. PICK v : v.at \in {"run", "replied"} /\ job' = [job EXCEPT ![k] = v]
      <3> DEFINE ok == [at |-> "replied", reply |-> "ok"]
                 err == [at |-> "replied", reply |-> "error"]
                 run == [job[k] EXCEPT !.at = "run"]
      <3>1. ok.at = "replied" /\ err.at = "replied" /\ run.at = "run"
        BY <1>1 DEF JobType
      <3>2. \/ job' = [job EXCEPT ![k] = ok]
            \/ job' = [job EXCEPT ![k] = err]
            \/ job' = [job EXCEPT ![k] = run]
        BY <1>1, <1>5 DEF Acquire, Replies
      <3> HIDE DEF ok, err, run
      <3> QED BY <3>1, <3>2
    <2>3. Held(n)' = Held(n) \cup {k} /\ \A m \in Node \ {n} : Held(m)' = Held(m)
      BY <1>1, <2>2, OneHeld, Zenon
    <2>4. k \notin Held(n)
      BY <2>1 DEF Held
    <2>5. IsFiniteSet(Held(n) \cup {k}) /\ Cardinality(Held(n) \cup {k}) = Cardinality(Held(n)) + 1
      BY <1>1, <2>4, FS_AddElement
    <2>6. slots' \in [Node -> Nat] /\ slots'[n] = slots[n] - 1 /\ \A m \in Node \ {n} : slots'[m] = slots[m]
      BY <1>1, <2>1
    <2>7. Cardinality(Held(n) \cup {k}) + slots'[n] = setup.slots
      BY <1>1, <2>5, <2>6
    <2> QED
      BY <1>1, <2>3, <2>5, <2>6, <2>7, Zenon DEF SInv
  <1> QED BY <1>3, <1>4, <1>5

LEMMA SlotsCrash ==
    ASSUME AInv, SInv, NEW n \in Node, NodeCrashes(n)
    PROVE  SInv'
  <1>1. /\ job \in [Call -> JobType] /\ slots \in [Node -> Nat] /\ UNCHANGED setup /\ setup.slots \in Nat
        /\ slots' = [slots EXCEPT ![n] = setup.slots]
        /\ job' = [k \in Call |-> IF k[2] = n /\ job[k].at \in {"got", "run", "replied"}
                                  THEN [job[k] EXCEPT !.at = "lost"] ELSE job[k]]
    BY SetupsAssumption, Zenon DEF AInv, CInv, SInv, NodeCrashes
  <1>2. \A k \in Call : [job[k] EXCEPT !.at = "lost"].at = "lost"
    BY <1>1 DEF JobType
  <1>3. \A k \in Call : IF k[2] = n THEN job'[k].at \notin {"run", "replied"} ELSE job'[k] = job[k]
    BY <1>1, <1>2
  <1>4. Held(n)' = {} /\ \A m \in Node \ {n} : Held(m)' = Held(m)
    BY <1>3 DEF Held
  <1>5. slots' \in [Node -> Nat] /\ slots'[n] = setup.slots /\ \A m \in Node \ {n} : slots'[m] = slots[m]
    BY <1>1
  <1>6. IsFiniteSet({}) /\ Cardinality({}) + slots'[n] = setup.slots
    BY <1>1, <1>5, FS_EmptySet
  <1> QED
    BY <1>1, <1>4, <1>5, <1>6, Zenon DEF SInv

LEMMA SlotsStart ==
    ASSUME AInv, SInv, NEW c \in Made, ChatStart(c)
    PROVE  SInv'
  <1>1. /\ job \in [Call -> JobType] /\ chat[c].at = "new" /\ UNCHANGED <<setup, slots>>
        /\ \A k \in Call : OfJob(k)
    BY DEF AInv, CInv, ChatStart
  <1>2. \/ UNCHANGED job
        \/ job' = [k \in Call |-> IF k[1] = c /\ k[2] \in setup.nodes \ {Home(c)}
                                  THEN [job[k] EXCEPT !.at = "asked"] ELSE job[k]]
    BY DEF ChatStart
  <1>3. \A k \in Call : [job[k] EXCEPT !.at = "asked"].at = "asked"
    BY <1>1 DEF JobType
  <1>4. \A k \in Call : k[1] = c => job[k].at = "none"
    BY <1>1 DEF OfJob
  <1>5. \A k \in Call : \/ job'[k] = job[k]
                        \/ job[k].at = "none" /\ job'[k].at = "asked"
    BY <1>2, <1>3, <1>4, Zenon
  <1>6. \A n \in Node : Held(n)' = Held(n)
    BY <1>5 DEF Held
  <1> QED
    BY <1>1, <1>6, SameHeld

LEMMA SlotsStep ==
    ASSUME AInv, SInv, [ApiNext]_apiVars
    PROVE  SInv'
  <1>1. ASSUME UNCHANGED <<setup, job, slots>> PROVE SInv'
    <2>1. \A n \in Node : Held(n)' = Held(n)
      BY <1>1 DEF Held
    <2> QED
      BY <1>1, <2>1, SameHeld
  <1>2. CASE UNCHANGED vars
    BY <1>1, <1>2 DEF vars, inferVars
  <1>3. ASSUME NEW c \in Made, ChatStub(c) \/ Collect(c) \/ Deadline(c) \/ ChatLeft(c) \/ Join(c)
        PROVE  SInv'
    BY <1>1, <1>3, Zenon DEF ChatStub, Collect, Deadline, ChatLeft, Join
  <1>4. ASSUME NEW k \in Call, Arrive(k) \/ CompleteLocal(k) PROVE SInv'
    BY <1>1, <1>4 DEF Arrive, CompleteLocal, inferVars
  <1>5. ASSUME NEW u, ChangeFiles(u) \/ UploaderLeaves(u) PROVE SInv'
    BY <1>1, <1>5 DEF ChangeFiles, UploaderLeaves, inferVars
  <1>6. ASSUME NEW n, NEW m, DeleteModel(n, m) PROVE SInv'
    BY <1>1, <1>6 DEF DeleteModel, inferVars
  <1>7. ASSUME NEW n, NEW p, ServerComesUp(n, p) \/ ServerCrashes(n, p) PROVE SInv'
    BY <1>1, <1>7 DEF ServerComesUp, ServerCrashes, inferVars
  <1>8. CASE Task
    BY <1>3, <1>4, <1>5, <1>8, SlotsStart, SlotSteps DEF Task
  <1>9. CASE Environment
    <2>1. setup.nodes \subseteq Node
      BY SetupsAssumption DEF AInv, CInv
    <2> QED
      BY <1>3, <1>4, <1>5, <1>6, <1>7, <1>9, <2>1, SlotSteps, SlotsCrash DEF Environment
  <1> QED
    BY <1>2, <1>8, <1>9 DEF ApiNext, ApiTask, ApiEnvironment, apiVars

LEMMA SlotsInit ==
    ASSUME ApiInit
    PROVE  SInv
  <1>1. setup \in Setups /\ setup.slots \in Nat /\ slots = [n \in Node |-> setup.slots]
    BY SetupsAssumption DEF ApiInit, Init
  <1>2. \A n \in Node : Held(n) = {}
    BY DEF ApiInit, Init, Held
  <1> QED
    BY <1>1, <1>2, FS_EmptySet DEF SInv

\* A node never works on more requests of others than max_concurrent_inference:
\* try_acquire and the end of run_inference_request keep the permits and the
\* requests that hold one in balance, also when the node restarts.
THEOREM ApiSlotsHold == ApiSpec => []SlotsHold
  <1>1. ASSUME SInv, AInv PROVE SlotsHold
    <2> SUFFICES ASSUME NEW n \in Node PROVE Cardinality(Held(n)) <= setup.slots
      BY DEF SlotsHold, Held
    <2>1. IsFiniteSet(Held(n)) /\ Cardinality(Held(n)) + slots[n] = setup.slots /\ slots[n] \in Nat
      BY <1>1 DEF SInv
    <2>2. Cardinality(Held(n)) \in Nat
      BY <2>1, FS_CardinalityType
    <2> QED BY <2>1, <2>2
  <1>2. ApiSpec => []SInv
    BY AlwaysAll, SlotsInit, SlotsStep, PTL DEF ApiSpec
  <1> QED
    BY <1>1, <1>2, AlwaysAll, PTL

(***************************************************************************)
(* Answers.  A handler hears from other nodes only and keeps one reply of  *)
(* each; once the client has its answer, the replies it was chosen from    *)
(* stay as they are.                                                       *)
(***************************************************************************)
ChatStates == {"new", "stub", "collect", "join", "answered", "left"}
ChatFields == {"at", "expected", "inbox", "seen", "replies", "answer"}

Others(c) == IF c \in Made THEN Node \ {Home(c)} ELSE {}

\* What a handler has collected.
Collected(c, r) ==
    /\ DOMAIN r = ChatFields
    /\ r.at \in ChatStates
    /\ c \notin Made => r.at = "new"
    /\ r.inbox \in Seq(Others(c))
    /\ r.seen \in SUBSET Others(c)
    /\ r.replies \in Seq(Others(c))
    /\ Len(r.replies) <= Cardinality(r.seen)
    /\ r.at # "answered" => r.answer = {}

\* What it chose.
Chosen(c) ==
    chat[c].answer # {} => /\ call[<<c, Home(c)>>].at = "done"
                           /\ Len(Candidates(c)) # 0
                           /\ chat[c].answer = {PickAgreedReply(Candidates(c))}

PInv ==
    /\ \A c \in Chat : Collected(c, chat[c])
    /\ \A c \in Made : Chosen(c)

LEMMA OthersFew ==
    ASSUME setup \in Setups, NEW c
    PROVE  /\ IsFiniteSet(Others(c)) /\ Cardinality(Others(c)) \in Nat
           /\ Cardinality(Node) \in Nat
           /\ Cardinality(Others(c)) < Cardinality(Node)
  <1>1. IsFiniteSet(Node) /\ Cardinality(Node) \in Nat /\ Cardinality(Node) # 0
    BY NodesAssumption, FS_CardinalityType, FS_EmptySet
  <1>2. CASE c \in Made
    <2>1. Home(c) \in Node
      BY <1>2, CallFacts, Zenon
    <2>2. IsFiniteSet(Node \ {Home(c)}) /\ Cardinality(Node \ {Home(c)}) = Cardinality(Node) - 1
      BY <1>1, <2>1, FS_RemoveElement
    <2> QED
      BY <1>1, <1>2, <2>2, FS_CardinalityType DEF Others
  <1>3. CASE c \notin Made
    BY <1>1, <1>3, FS_EmptySet DEF Others
  <1> QED BY <1>2, <1>3

\* The replies to choose from are those of nodes of the network.
LEMMA CandidatesAre ==
    ASSUME setup \in Setups, NEW c \in Made, chat[c].replies \in Seq(Others(c))
    PROVE  /\ Len(Candidates(c)) \in Nat
           /\ DOMAIN Candidates(c) = 1 .. Len(Candidates(c))
           /\ \A i \in DOMAIN Candidates(c) : Candidates(c)[i].text.len \in Nat
           /\ Candidates(c) # <<>> => Len(Candidates(c)) # 0
  <1> DEFINE local == IF call[<<c, Home(c)>>].reply = "error" THEN <<>> ELSE <<Home(c)>>
             who == local \o chat[c].replies
             T == [i \in DOMAIN who |-> [node |-> who[i], text |-> Text(who[i])]]
  <1>1. Home(c) \in Node /\ Others(c) \subseteq Node
    BY CallFacts, Zenon DEF Others
  <1>2. local \in Seq(Node)
    BY <1>1
  <1>3. chat[c].replies \in Seq(Node)
    BY <1>1
  <1> HIDE DEF local
  <1>4. who \in Seq(Node)
    BY <1>2, <1>3
  <1> HIDE DEF who
  <1>5. \A n \in Node : Text(n).len \in Nat
    BY SetupsAssumption DEF Text, StubText
  <1>6. Candidates(c) = T
    BY Zenon DEF Candidates, who, local
  <1>7. Len(who) \in Nat /\ DOMAIN who = 1 .. Len(who) /\ \A i \in 1 .. Len(who) : who[i] \in Node
    BY <1>4
  <1>8. T \in Seq({[node |-> n, text |-> Text(n)] : n \in Node})
    BY <1>7
  <1>9. DOMAIN T = DOMAIN who
    OBVIOUS
  <1>10. Len(T) = Len(who)
    BY <1>7, <1>8, <1>9
  <1>11. \A i \in DOMAIN who : T[i].text = Text(who[i])
    OBVIOUS
  <1>12. T # <<>> => Len(T) # 0
    BY <1>8
  <1> HIDE DEF T
  <1> QED
    BY <1>5, <1>6, <1>7, <1>9, <1>10, <1>11, <1>12

\* What was chosen stays so as long as the replies and the local one do.
LEMMA ChoiceStays ==
    ASSUME UNCHANGED setup, NEW c \in Made, Chosen(c),
           \/ chat'[c].answer = {}
           \/ /\ chat'[c].answer = chat[c].answer
              /\ chat'[c].replies = chat[c].replies
              /\ call[<<c, Home(c)>>].at = "done" => call'[<<c, Home(c)>>] = call[<<c, Home(c)>>]
    PROVE  Chosen(c)'
  <1>1. CASE chat'[c].answer = {}
    BY <1>1 DEF Chosen
  <1>2. CASE chat'[c].answer # {}
    <2>1. /\ chat'[c].answer = chat[c].answer /\ chat'[c].replies = chat[c].replies
          /\ call[<<c, Home(c)>>].at = "done" /\ call'[<<c, Home(c)>>] = call[<<c, Home(c)>>]
      BY <1>2 DEF Chosen
    <2>2. Home(c)' = Home(c) /\ \A n : Text(n)' = Text(n)
      BY DEF Home, Text, Enabled, StubText
    <2>3. Candidates(c)' = Candidates(c)
      BY <2>1, <2>2, Zenon DEF Candidates
    <2>4. PickAgreedReply(Candidates(c))' = PickAgreedReply(Candidates(c))
      BY <2>3
    <2> QED
      BY <1>2, <2>1, <2>2, <2>3, <2>4 DEF Chosen
  <1> QED BY <1>1, <1>2

\* A step of chat c alone.
LEMMA AnswerStep ==
    ASSUME AInv, PInv, UNCHANGED setup, NEW c \in Made, NEW r, chat' = [chat EXCEPT ![c] = r],
           Collected(c, r),
           r.answer = {} \/ (r.answer = chat[c].answer /\ r.replies = chat[c].replies) \/ Chosen(c)',
           \A d \in Made : chat[d].answer # {} /\ call[<<d, Home(d)>>].at = "done"
                               => call'[<<d, Home(d)>>] = call[<<d, Home(d)>>]
    PROVE  PInv'
  <1>1. IsChat /\ c \in Chat /\ Made \subseteq Chat /\ Made' = Made
    BY CallFacts, Zenon DEF AInv, CInv, Made
  <1>2. chat'[c] = r /\ \A d \in Chat \ {c} : chat'[d] = chat[d]
    BY <1>1 DEF IsChat
  <1>3. \A d, q : Collected(d, q)' <=> Collected(d, q)
    BY DEF Collected, Others, Made, Home
  <1>4. ASSUME NEW d \in Chat PROVE Collected(d, chat[d])'
    <2>1. Collected(d, chat'[d])
      BY <1>2 DEF PInv
    <2> QED BY <1>3, <2>1
  <1>5. ASSUME NEW d \in Made PROVE Chosen(d)'
    <2>1. Chosen(d) /\ d \in Chat
      BY <1>1 DEF PInv
    <2>2. CASE d = c
      BY <1>2, <2>1, <2>2, ChoiceStays DEF Chosen
    <2>3. CASE d # c
      <3>1. chat'[d] = chat[d]
        BY <1>2, <2>1, <2>3
      <3> QED
        BY <2>1, <3>1, ChoiceStays, Zenon
    <2> QED BY <2>2, <2>3
  <1> QED
    BY <1>1, <1>4, <1>5 DEF PInv

\* The steps in which no chat moves.
LEMMA AnswersRest ==
    ASSUME AInv, PInv, UNCHANGED <<setup, chat>>,
           \A d \in Made : call[<<d, Home(d)>>].at = "done"
                               => call'[<<d, Home(d)>>] = call[<<d, Home(d)>>]
    PROVE  PInv'
  <1>1. \A d, q : Collected(d, q)' <=> Collected(d, q)
    BY DEF Collected, Others, Made, Home
  <1>2. ASSUME NEW d \in Chat PROVE Collected(d, chat[d])'
    <2>1. Collected(d, chat'[d])
      BY DEF PInv
    <2> QED BY <1>1, <2>1
  <1>3. ASSUME NEW d \in Made PROVE Chosen(d)'
    BY ChoiceStays, Zenon DEF PInv
  <1>4. Made' = Made
    BY DEF Made
  <1> QED
    BY <1>2, <1>3, <1>4 DEF PInv

\* The next answer is taken: the first of a node adds a node and at most one
\* reply.
LEMMA CollectsOne ==
    ASSUME setup \in Setups, NEW c, NEW r, Collected(c, r), r.at = "collect", r.inbox # <<>>,
           NEW enough \in BOOLEAN, NEW ok \in BOOLEAN, NEW n, n = Head(r.inbox)
    PROVE  LET kept == n \notin r.seen /\ ok
           IN  Collected(c, [r EXCEPT !.inbox = IF enough THEN <<>> ELSE Tail(@), !.seen = r.seen \cup {n},
                                      !.replies = IF kept THEN Append(@, n) ELSE @,
                                      !.at = IF enough THEN "join" ELSE @])
  <1> DEFINE kept == n \notin r.seen /\ ok
             inbox == IF enough THEN <<>> ELSE Tail(r.inbox)
             seen == r.seen \cup {n}
             replies == IF kept THEN Append(r.replies, n) ELSE r.replies
             stage == IF enough THEN "join" ELSE r.at
             q == [r EXCEPT !.inbox = IF enough THEN <<>> ELSE Tail(@), !.seen = r.seen \cup {n},
                            !.replies = IF kept THEN Append(@, n) ELSE @,
                            !.at = IF enough THEN "join" ELSE @]
  <1>1. /\ DOMAIN q = ChatFields /\ q.inbox = inbox /\ q.seen = seen /\ q.replies = replies
        /\ q.at = stage /\ q.answer = r.answer
    BY DEF Collected, ChatFields
  <1>2. /\ r.inbox \in Seq(Others(c)) /\ r.seen \in SUBSET Others(c) /\ r.replies \in Seq(Others(c))
        /\ Len(r.replies) <= Cardinality(r.seen) /\ r.answer = {}
    BY DEF Collected
  <1>3. n \in Others(c) /\ Tail(r.inbox) \in Seq(Others(c))
    BY <1>2
  <1>4. inbox \in Seq(Others(c)) /\ seen \in SUBSET Others(c)
    BY <1>2, <1>3
  <1>5. replies \in Seq(Others(c)) /\ Len(replies) = IF kept THEN Len(r.replies) + 1 ELSE Len(r.replies)
    <2>1. CASE kept
      BY <1>2, <1>3, <2>1
    <2>2. CASE ~kept
      BY <1>2, <2>2
    <2> QED BY <2>1, <2>2
  <1>6. Len(replies) <= Cardinality(seen)
    <2>1. IsFiniteSet(r.seen) /\ Cardinality(r.seen) \in Nat /\ Len(r.replies) \in Nat
      <3>1. IsFiniteSet(Others(c))
        BY OthersFew, Zenon
      <3>2. IsFiniteSet(r.seen)
        BY <1>2, <3>1, FS_Subset
      <3> QED BY <1>2, <3>2, FS_CardinalityType
    <2>2. CASE n \in r.seen
      <3>1. seen = r.seen /\ ~kept
        BY <2>2
      <3> QED BY <1>2, <1>5, <3>1, Zenon
    <2>3. CASE n \notin r.seen
      <3>1. Cardinality(seen) = Cardinality(r.seen) + 1
        BY <2>1, <2>3, FS_AddElement, Zenon
      <3>2. Len(replies) <= Len(r.replies) + 1
        BY <1>5, <2>1
      <3>3. Len(replies) \in Nat
        BY <1>5
      <3> HIDE DEF replies, seen
      <3> QED BY <1>2, <2>1, <3>1, <3>2, <3>3
    <2> QED BY <2>2, <2>3
  <1>7. stage \in ChatStates /\ stage # "answered"
    BY DEF ChatStates
  <1> HIDE DEF inbox, seen, replies, stage, q
  <1>8. Collected(c, q)
    BY <1>1, <1>2, <1>4, <1>5, <1>6, <1>7, Zenon DEF Collected
  <1> QED
    BY <1>8 DEF q

LEMMA HandlerAnswers ==
    ASSUME AInv, PInv, NEW c \in Made, ChatStub(c) \/ Collect(c) \/ Deadline(c) \/ ChatLeft(c)
    PROVE  PInv'
  <1>1. UNCHANGED <<setup, call>>
    BY Zenon DEF ChatStub, Collect, Deadline, ChatLeft, runtimeVars
  <1>2. c \in Chat /\ DOMAIN chat = Chat /\ Collected(c, chat[c]) /\ setup \in Setups
    BY CallFacts, Zenon DEF AInv, CInv, IsChat, PInv
  <1>3. ASSUME NEW r, chat' = [chat EXCEPT ![c] = r], Collected(c, r), r.answer = {} PROVE PInv'
    BY <1>1, <1>3, AnswerStep, Zenon
  <1>4. CASE ChatStub(c)
    <2> DEFINE r == [chat[c] EXCEPT !.at = "stub"]
    <2>1. Collected(c, r) /\ r.answer = {}
      BY <1>2, <1>4 DEF Collected, ChatFields, ChatStates, ChatStub
    <2>2. chat' = [chat EXCEPT ![c] = r]
      BY <1>2, <1>4 DEF ChatStub
    <2> HIDE DEF r
    <2> QED BY <1>3, <2>1, <2>2, Zenon
  <1>5. CASE Deadline(c) \/ ChatLeft(c)
    <2>1. PICK a \in {"join", "left"} : chat' = [chat EXCEPT ![c].at = a, ![c].inbox = <<>>]
      BY <1>5 DEF Deadline, ChatLeft
    <2> DEFINE r == [chat[c] EXCEPT !.at = a, !.inbox = <<>>]
    <2>2. chat[c].at \in {"collect", "join"}
      BY <1>5 DEF Deadline, ChatLeft
    <2>3. <<>> \in Seq(Others(c))
      OBVIOUS
    <2>4. Collected(c, r) /\ r.answer = {}
      BY <1>2, <2>2, <2>3 DEF Collected, ChatFields, ChatStates
    <2>5. chat' = [chat EXCEPT ![c] = r]
      BY <1>2, <2>1, Zenon
    <2> HIDE DEF r
    <2> QED BY <1>3, <2>4, <2>5, Zenon
  <1>6. CASE Collect(c)
    <2> DEFINE n == Head(chat[c].inbox)
               first == n \notin chat[c].seen
               seen == chat[c].seen \cup {n}
               ok == job[<<c, n>>].reply = "ok"
               enough == first /\ chat[c].expected > 0 /\ Cardinality(seen) >= chat[c].expected
               r == [chat[c] EXCEPT !.inbox = IF enough THEN <<>> ELSE Tail(@), !.seen = chat[c].seen \cup {n},
                                    !.replies = IF n \notin chat[c].seen /\ ok THEN Append(@, n) ELSE @,
                                    !.at = IF enough THEN "join" ELSE @]
    <2>1. chat' = [chat EXCEPT ![c].inbox = IF enough THEN <<>> ELSE Tail(@), ![c].seen = seen,
                               ![c].replies = IF first /\ ok THEN Append(@, n) ELSE @,
                               ![c].at = IF enough THEN "join" ELSE @]
      BY <1>6, Zenon DEF Collect
    <2>2. chat[c].at = "collect" /\ chat[c].inbox # <<>>
      BY <1>6, Zenon DEF Collect
    <2>3. enough \in BOOLEAN /\ ok \in BOOLEAN
      BY Zenon
    <2>4. r.answer = chat[c].answer /\ chat[c].answer = {}
      BY <1>2, <2>2 DEF Collected, ChatFields
    <2>5. chat' = [chat EXCEPT ![c] = r]
      BY <1>2, <2>1, Zenon
    <2> HIDE DEF enough, ok
    <2>6. Collected(c, r)
      BY <1>2, <2>2, <2>3, CollectsOne, Zenon
    <2> HIDE DEF r
    <2> QED BY <1>3, <2>4, <2>5, <2>6, Zenon
  <1> QED BY <1>4, <1>5, <1>6

LEMMA ArriveAnswers ==
    ASSUME AInv, PInv, NEW k \in Call, Arrive(k)
    PROVE  PInv'
  <1> DEFINE c == k[1]
  <1>1. UNCHANGED <<setup, call>>
    BY DEF Arrive, runtimeVars
  <1>2. setup \in Setups /\ OfJob(k) /\ DOMAIN chat = Chat
    BY DEF AInv, CInv, IsChat
  <1>3. c \in Made /\ ~Local(k) /\ k[2] \in Node
    BY <1>2, CallFacts DEF OfJob, Arrive
  <1>4. c \in Chat /\ Collected(c, chat[c]) /\ k[2] \in Others(c)
    BY <1>2, <1>3, CallFacts DEF PInv, Others, Local
  <1>5. CASE c \in open /\ chat[c].at = "collect"
    <2> DEFINE r == [chat[c] EXCEPT !.inbox = Append(@, k[2])]
    <2>1. chat' = [chat EXCEPT ![c] = r]
      BY <1>2, <1>4, <1>5 DEF Arrive
    <2>2. Append(chat[c].inbox, k[2]) \in Seq(Others(c))
      BY <1>4 DEF Collected
    <2>3. Collected(c, r) /\ r.answer = {}
      BY <1>4, <1>5, <2>2 DEF Collected, ChatFields
    <2> HIDE DEF r, c
    <2> QED
      BY <1>1, <1>3, <2>1, <2>3, AnswerStep, Zenon
  <1>6. CASE ~(c \in open /\ chat[c].at = "collect")
    <2>1. UNCHANGED chat
      BY <1>6 DEF Arrive
    <2> QED
      BY <1>1, <2>1, AnswersRest, Zenon
  <1> QED BY <1>5, <1>6

\* A completion is asked for: none that an answer was chosen from.
LEMMA AskedAnew ==
    ASSUME AInv, PInv, NEW k \in Call, NEW m, call' = Ask(k, m),
           \A d \in Made : chat[d].answer # {} => <<d, Home(d)>> # k
    PROVE  \A d \in Made : chat[d].answer # {} => call'[<<d, Home(d)>>] = call[<<d, Home(d)>>]
  <1>1. \A j \in Call \ {k} : call'[j] = call[j]
    BY Facts DEF Ask, AInv
  <1>2. \A d \in Made : <<d, Home(d)>> \in Call
    BY CallFacts, Zenon DEF AInv, CInv
  <1> QED BY <1>1, <1>2, Zenon

LEMMA StartAnswers ==
    ASSUME AInv, PInv, NEW c \in Made, ChatStart(c)
    PROVE  PInv'
  <1> DEFINE k == <<c, Home(c)>>
  <1>1. UNCHANGED setup /\ chat[c].at = "new" /\ call' = Ask(k, ModelOf(c))
    BY DEF ChatStart
  <1>2. /\ c \in Chat /\ DOMAIN chat = Chat /\ Collected(c, chat[c]) /\ setup \in Setups
        /\ k \in Call
    BY CallFacts, Zenon DEF AInv, CInv, IsChat, PInv
  <1>3. chat[c].answer = {}
    BY <1>1, <1>2 DEF Collected
  <1>4. \A d \in Made : chat[d].answer # {} => <<d, Home(d)>> # k
    BY <1>3
  <1>5. \A d \in Made : chat[d].answer # {} => call'[<<d, Home(d)>>] = call[<<d, Home(d)>>]
    <2> HIDE DEF k
    <2> QED
      BY <1>1, <1>2, <1>4, AskedAnew, Zenon
  <1>6. PICK a \in {"collect", "join"} : \/ \E e : chat' = [chat EXCEPT ![c].at = a, ![c].expected = e]
                                         \/ chat' = [chat EXCEPT ![c].at = a]
    BY DEF ChatStart
  <1>7. \E r : Collected(c, r) /\ r.answer = {} /\ chat' = [chat EXCEPT ![c] = r]
    <2>1. CASE chat' = [chat EXCEPT ![c].at = a]
      <3> DEFINE r == [chat[c] EXCEPT !.at = a]
      <3>1. Collected(c, r) /\ r.answer = {}
        BY <1>2, <1>3 DEF Collected, ChatFields, ChatStates
      <3>2. chat' = [chat EXCEPT ![c] = r]
        BY <1>2, <2>1
      <3> HIDE DEF r
      <3> QED BY <3>1, <3>2, Zenon
    <2>2. ASSUME NEW e, chat' = [chat EXCEPT ![c].at = a, ![c].expected = e]
          PROVE  \E r : Collected(c, r) /\ r.answer = {} /\ chat' = [chat EXCEPT ![c] = r]
      <3> DEFINE r == [chat[c] EXCEPT !.at = a, !.expected = e]
      <3>1. Collected(c, r) /\ r.answer = {}
        BY <1>2, <1>3 DEF Collected, ChatFields, ChatStates
      <3>2. chat' = [chat EXCEPT ![c] = r]
        BY <1>2, <2>2, Zenon
      <3> HIDE DEF r
      <3> QED BY <3>1, <3>2, Zenon
    <2> QED BY <1>6, <2>1, <2>2
  <1> HIDE DEF k
  <1> QED
    BY <1>1, <1>5, <1>7, AnswerStep, Zenon

LEMMA AcquireAnswers ==
    ASSUME AInv, PInv, NEW k \in Call, Acquire(k)
    PROVE  PInv'
  <1>1. UNCHANGED <<setup, chat>> /\ job[k].at = "got" /\ (UNCHANGED call \/ call' = Ask(k, ModelOf(k[1])))
    BY DEF Acquire
  <1>2. CASE UNCHANGED call
    BY <1>1, <1>2, AnswersRest, Zenon
  <1>3. CASE call' = Ask(k, ModelOf(k[1]))
    <2>1. ~Local(k) /\ setup \in Setups
      BY <1>1, Waiting DEF AInv, CInv
    <2>2. \A d \in Made : <<d, Home(d)>> # k /\ <<d, Home(d)>> \in Call
      BY <2>1, CallFacts, Zenon
    <2>3. \A j \in Call \ {k} : call'[j] = call[j]
      BY <1>3, Facts DEF Ask, AInv
    <2> QED
      BY <1>1, <2>2, <2>3, AnswersRest, Zenon
  <1> QED BY <1>1, <1>2, <1>3

\* The answer is chosen.
LEMMA JoinAnswers ==
    ASSUME AInv, PInv, NEW c \in Made, Join(c)
    PROVE  PInv'
  <1> DEFINE cands == Candidates(c)
             answer == IF cands = <<>> THEN {} ELSE {PickAgreedReply(cands)}
             r == [chat[c] EXCEPT !.at = "answered", !.answer = answer]
  <1>1. /\ UNCHANGED <<setup, call>> /\ chat[c].at = "join" /\ call[<<c, Home(c)>>].at = "done"
        /\ chat' = [chat EXCEPT ![c].at = "answered", ![c].answer = answer]
    BY DEF Join, runtimeVars
  <1>2. c \in Chat /\ DOMAIN chat = Chat /\ Collected(c, chat[c]) /\ setup \in Setups
    BY CallFacts, Zenon DEF AInv, CInv, IsChat, PInv
  <1>3. cands # <<>> => Len(cands) # 0
    <2>1. chat[c].replies \in Seq(Others(c))
      BY <1>2 DEF Collected
    <2> QED BY <1>2, <2>1, CandidatesAre, Zenon
  <1> HIDE DEF answer
  <1>4. Collected(c, r) /\ r.answer = answer /\ r.replies = chat[c].replies
    BY <1>2 DEF Collected, ChatFields, ChatStates
  <1>5. chat' = [chat EXCEPT ![c] = r]
    BY <1>1, <1>2, Zenon
  <1> HIDE DEF r
  <1>6. chat'[c] = r
    BY <1>2, <1>5
  <1>7. Chosen(c)'
    <2>1. Home(c)' = Home(c) /\ \A n : Text(n)' = Text(n)
      BY <1>1 DEF Home, Text, Enabled, StubText
    <2>2. Candidates(c)' = cands
      BY <1>1, <1>4, <1>6, <2>1, Zenon DEF Candidates
    <2>3. PickAgreedReply(Candidates(c))' = PickAgreedReply(cands)
      BY <2>2
    <2>4. chat'[c].answer # {} => cands # <<>> /\ chat'[c].answer = {PickAgreedReply(cands)}
      BY <1>4, <1>6 DEF answer
    <2> HIDE DEF cands
    <2> QED
      BY <1>1, <1>3, <2>1, <2>2, <2>3, <2>4, Zenon DEF Chosen
  <1> QED
    BY <1>1, <1>4, <1>5, <1>7, AnswerStep, Zenon

LEMMA CrashAnswers ==
    ASSUME AInv, PInv, NEW n \in Node, NodeCrashes(n)
    PROVE  PInv'
  <1>1. NodeKilled(n) /\ UNCHANGED setup
    BY Zenon DEF NodeCrashes
  <1>2. \A j \in Call : call[j].at = "done" => call'[j] = call[j]
    BY <1>1, RuntimeSteps, Zenon DEF RuntimeStep, AInv
  <1>3. chat' = [c \in Chat |->
            IF c \in Made /\ Home(c) = n /\ chat[c].at \in {"collect", "join"}
            THEN [chat[c] EXCEPT !.at = "left", !.inbox = <<>>] ELSE chat[c]]
    BY Zenon DEF NodeCrashes
  <1>4. ASSUME NEW c \in Chat
        PROVE  /\ Collected(c, chat'[c])
               /\ chat'[c].answer = chat[c].answer /\ chat'[c].replies = chat[c].replies
    <2> DEFINE r == [chat[c] EXCEPT !.at = "left", !.inbox = <<>>]
    <2>1. Collected(c, chat[c]) /\ <<>> \in Seq(Others(c))
      BY DEF PInv
    <2>2. chat[c].at \in {"collect", "join"} => Collected(c, r)
      BY <2>1 DEF Collected, ChatFields, ChatStates
    <2>3. r.answer = chat[c].answer /\ r.replies = chat[c].replies
      BY <2>1 DEF Collected, ChatFields
    <2>4. chat'[c] = chat[c] \/ (chat[c].at \in {"collect", "join"} /\ chat'[c] = r)
      BY <1>3, Zenon
    <2> HIDE DEF r
    <2> QED BY <2>1, <2>2, <2>3, <2>4
  <1>5. \A d, q : Collected(d, q)' <=> Collected(d, q)
    BY <1>1 DEF Collected, Others, Made, Home
  <1>6. ASSUME NEW d \in Chat PROVE Collected(d, chat[d])'
    BY <1>4, <1>5
  <1>7. ASSUME NEW d \in Made PROVE Chosen(d)'
    <2>1. d \in Chat /\ <<d, Home(d)>> \in Call /\ Chosen(d)
      BY CallFacts, Zenon DEF AInv, CInv, PInv
    <2> QED
      BY <1>1, <1>2, <1>4, <2>1, ChoiceStays, Zenon
  <1>8. Made' = Made
    BY <1>1 DEF Made
  <1> QED
    BY <1>6, <1>7, <1>8 DEF PInv

LEMMA AnswersKept ==
    ASSUME AInv, PInv, [ApiNext]_apiVars
    PROVE  PInv'
  <1>1. ASSUME UNCHANGED <<setup, chat>>, \A j \in Call : call[j].at = "done" => call'[j] = call[j]
        PROVE  PInv'
    <2>1. \A d \in Made : <<d, Home(d)>> \in Call
      BY CallFacts, Zenon DEF AInv, CInv
    <2> QED
      BY <1>1, <2>1, AnswersRest, Zenon
  <1>2. ASSUME UNCHANGED <<setup, chat, call>> PROVE PInv'
    BY <1>1, <1>2
  <1>3. ASSUME RuntimeStep, UNCHANGED <<setup, chat>> PROVE PInv'
    BY <1>1, <1>3, RuntimeSteps, Zenon DEF AInv
  <1>4. CASE UNCHANGED vars
    BY <1>2, <1>4 DEF vars, inferVars
  <1>5. ASSUME NEW k \in Call, Receive(k) \/ Busy(k) \/ Respond(k) \/ Finish(k) PROVE PInv'
    BY <1>2, <1>5 DEF Receive, Busy, Respond, Finish, runtimeVars
  <1>6. ASSUME NEW k \in Call, CompleteLocal(k) PROVE PInv'
    <2>1. F!Present(k[2], call[k].model) \in BOOLEAN
      BY DEF F!Present
    <2>2. RuntimeStep /\ UNCHANGED <<setup, chat>>
      BY <1>6, <2>1 DEF CompleteLocal, RuntimeStep, inferVars
    <2> QED
      BY <1>3, <2>2
  <1>7. ASSUME NEW u, ChangeFiles(u) \/ UploaderLeaves(u) PROVE PInv'
    BY <1>2, <1>7 DEF ChangeFiles, UploaderLeaves, inferVars, runtimeVars
  <1>8. ASSUME NEW n, NEW m, DeleteModel(n, m) PROVE PInv'
    BY <1>2, <1>8 DEF DeleteModel, inferVars, runtimeVars
  <1>9. ASSUME NEW n \in Node, NEW p \in Port, ServerComesUp(n, p) \/ ServerCrashes(n, p) PROVE PInv'
    BY <1>3, <1>9 DEF ServerComesUp, ServerCrashes, RuntimeStep, inferVars
  <1>10. CASE Task
    BY <1>5, <1>6, <1>7, <1>10, HandlerAnswers, StartAnswers, JoinAnswers, AcquireAnswers, Zenon DEF Task
  <1>11. CASE Environment
    <2>1. setup.nodes \subseteq Node
      BY SetupsAssumption DEF AInv, CInv
    <2> QED
      BY <1>5, <1>7, <1>8, <1>9, <1>11, <2>1, HandlerAnswers, ArriveAnswers, CrashAnswers, Zenon
      DEF Environment
  <1> QED
    BY <1>4, <1>10, <1>11 DEF ApiNext, ApiTask, ApiEnvironment, apiVars

LEMMA AnswersInit ==
    ASSUME ApiInit
    PROVE  PInv
  <1>1. setup \in Setups
    BY DEF ApiInit, Init
  <1>2. \A c \in Chat : chat[c] = [at |-> "new", expected |-> 0, inbox |-> <<>>, seen |-> {},
                                   replies |-> <<>>, answer |-> {}]
    BY Zenon DEF ApiInit, Init
  <1>3. ASSUME NEW c \in Chat PROVE Collected(c, chat[c]) /\ chat[c].answer = {}
    <2>1. <<>> \in Seq(Others(c)) /\ Len(<<>>) = 0 /\ Cardinality({}) = 0
      BY FS_EmptySet
    <2> DEFINE r == [at |-> "new", expected |-> 0, inbox |-> <<>>, seen |-> {}, replies |-> <<>>,
                     answer |-> {}]
    <2>2. /\ DOMAIN r = ChatFields /\ r.at = "new" /\ r.inbox = <<>> /\ r.seen = {}
          /\ r.replies = <<>> /\ r.answer = {}
      BY DEF ChatFields
    <2>3. "new" \in ChatStates /\ 0 <= 0 /\ {} \in SUBSET Others(c)
      BY DEF ChatStates
    <2>4. chat[c] = r
      BY <1>2, Zenon
    <2> HIDE DEF r
    <2> QED
      BY <2>1, <2>2, <2>3, <2>4, Zenon DEF Collected
  <1>4. ASSUME NEW c \in Made PROVE Chosen(c)
    BY <1>1, <1>3, CallFacts DEF Chosen
  <1> QED
    BY <1>3, <1>4 DEF PInv

LEMMA AlwaysAnswers == ApiSpec => []PInv
  BY AnswersInit, AnswersKept, AlwaysAll, PTL DEF ApiSpec

\* pick_agreed_reply gives the client the reply with the most agreement, ties
\* broken by length and then the local node, for any number of peers, whatever
\* they reply and in whatever order it arrives.
THEOREM ApiAnswerAgreed == ApiSpec => []AnswerAgreed
  <1>1. ASSUME AInv, PInv PROVE AnswerAgreed
    <2> SUFFICES ASSUME NEW c \in Made, NEW a \in chat[c].answer
                 PROVE  /\ a.at \in DOMAIN Candidates(c)
                        /\ \A i \in DOMAIN Candidates(c) : ~Outranks(Candidates(c), i, a.at)
                        /\ \A i \in 1 .. a.at - 1 : Outranks(Candidates(c), a.at, i)
      BY Zenon DEF AnswerAgreed
    <2> DEFINE cands == Candidates(c)
    <2>1. a = PickAgreedReply(cands) /\ Len(cands) # 0
      BY <1>1, Zenon DEF PInv, Chosen
    <2>2. setup \in Setups /\ c \in Chat /\ chat[c].replies \in Seq(Others(c))
      BY <1>1, CallFacts DEF AInv, CInv, PInv, Collected
    <2>3. /\ Len(cands) \in Nat /\ DOMAIN cands = 1 .. Len(cands)
          /\ \A i \in DOMAIN cands : cands[i].text.len \in Nat
      BY <2>2, CandidatesAre, Zenon
    <2> HIDE DEF cands
    <2>4. Leads(cands, Len(cands), a)
      BY <2>1, <2>3, PickedLeads, Zenon
    <2> QED
      BY <2>3, <2>4, Zenon DEF Leads, cands
  <1> QED
    BY <1>1, AlwaysAll, AlwaysAnswers, PTL

\* The state of chats, requests, claims and runtimes has its type; and a
\* handler keeps fewer replies than there are nodes, one of each other node,
\* however often a response arrives.
THEOREM ApiTypeCorrect == ApiSpec => []TypeOK
  <1>1. ASSUME AInv, PInv PROVE TypeOK
    <2>1. RuntimeTypeOK
      BY <1>1 DEF AInv, RInv
    <2>2. ASSUME NEW c \in Chat
          PROVE  chat[c].at \in ChatStates /\ Len(chat[c].replies) < Cardinality(Node)
      <3>1. Collected(c, chat[c]) /\ setup \in Setups
        BY <1>1 DEF AInv, CInv, PInv
      <3>2. /\ chat[c].at \in ChatStates /\ chat[c].seen \in SUBSET Others(c)
            /\ Len(chat[c].replies) <= Cardinality(chat[c].seen) /\ Len(chat[c].replies) \in Nat
        BY <3>1 DEF Collected
      <3>3. /\ IsFiniteSet(Others(c)) /\ Cardinality(Others(c)) \in Nat /\ Cardinality(Node) \in Nat
            /\ Cardinality(Others(c)) < Cardinality(Node)
        BY <3>1, OthersFew, Zenon
      <3>4. Cardinality(chat[c].seen) <= Cardinality(Others(c)) /\ Cardinality(chat[c].seen) \in Nat
        BY <3>2, <3>3, FS_Subset, FS_CardinalityType
      <3> QED BY <3>2, <3>3, <3>4
    <2>3. open \subseteq Made
      BY <1>1 DEF AInv, CInv, EntriesHeld, PInv, Collected
    <2>4. \A k \in Call : job[k].at \in JobStates /\ claims[k] \in {0, 1}
      BY <1>1 DEF AInv, CInv, JobType
    <2> QED
      BY <2>1, <2>2, <2>3, <2>4 DEF TypeOK, ChatStates, JobStates
  <1> QED
    BY <1>1, AlwaysAll, AlwaysAnswers, PTL
=============================================================================
