-------------------------------- MODULE Api --------------------------------
(* The handlers of the HTTP API that change state, together: chats and model *)
(* files on all nodes, and the event stream of one of them.                  *)
EXTENDS Inference

CONSTANTS Stream, Capacity, MaxCommits

ASSUME StreamsAssumption ==
    Capacity \in Nat \ {0} /\ \A s \in Setups : s.streams \subseteq Stream

VARIABLES stored, held, due, told, hooks, stream

E == INSTANCE EventStream

streamVars == <<stored, held, due, told, hooks, stream>>
apiVars == <<vars, streamVars>>

StreamTask ==
    \/ E!Drain
    \/ \E calls \in due : E!Tell(calls)
    \/ \E s \in setup.streams : E!StreamStep(s)

ApiTask ==
    \/ Task /\ UNCHANGED streamVars
    \/ StreamTask /\ UNCHANGED vars

\* Commits happen, and clients come and go.
ApiEnvironment ==
    \/ Environment /\ UNCHANGED streamVars
    \/ /\ \/ stored < setup.commits /\ E!Store
          \/ \E s \in setup.streams : E!Leave(s)
       /\ UNCHANGED vars

ApiInit == Init /\ E!StreamInit
ApiNext == ApiTask \/ ApiEnvironment
ApiSpec == ApiInit /\ [][ApiNext]_apiVars /\ WF_apiVars(ApiTask)

\* See EventStream.
GapsMarked == E!GapsMarked
StreamsFollow == E!StreamsFollow
=============================================================================
