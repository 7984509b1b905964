------------------------------ MODULE IdPromise ------------------------------
(***************************************************************************)
(* What both ways of giving ring members their ids promise, the counter of *)
(* parser.h and the composed ids of parser-7thread.h, with no filter, map  *)
(* or thread in it.  An id that is given names one key.  Its pair waits    *)
(* until the store has it; only a pair of the same key, given later, can   *)
(* take its place while it waits.  Once the store is closed pairs may be   *)
(* lost.  A process that starts again knows nothing but the store.         *)
(***************************************************************************)
VARIABLES
    given,      \* the pairs <<key, id>> given in this process
    waiting,    \* those that are on their way to the store
    store,      \* key -> id
    closed      \* the store has been closed

PromiseInit ==
    /\ given = {}
    /\ waiting = {}
    /\ DOMAIN store = {}
    /\ closed = FALSE

\* A key gets an id that nobody has in this process.
Give ==
    /\ ~closed
    /\ \E pair \in given' \ given :
          /\ given' = given \cup {pair}
          /\ \A other \in given : other[2] # pair[2]
          /\ pair \in waiting' /\ waiting' \subseteq waiting \cup {pair}
          /\ \A replaced \in waiting \ waiting' : replaced[1] = pair[1]
    /\ UNCHANGED <<store, closed>>

\* A pair reaches the store.
Keep ==
    /\ ~closed
    /\ \E pair \in waiting :
          /\ waiting' = waiting \ {pair}
          /\ store' = [k \in DOMAIN store \cup {pair[1]} |->
                          IF k = pair[1] THEN pair[2] ELSE store[k]]
    /\ UNCHANGED <<given, closed>>

Close ==
    /\ closed' = TRUE
    /\ UNCHANGED <<given, waiting, store>>

Lose ==
    /\ closed
    /\ \E pair \in waiting : waiting' = waiting \ {pair}
    /\ UNCHANGED <<given, store, closed>>

\* The process dies, and another one begins.
Restart ==
    /\ given' = {} /\ waiting' = {} /\ closed' = FALSE
    /\ UNCHANGED store

PromiseNext == Give \/ Keep \/ Close \/ Lose \/ Restart

PromiseSpec == PromiseInit /\ [][PromiseNext]_<<given, waiting, store, closed>>
=============================================================================
