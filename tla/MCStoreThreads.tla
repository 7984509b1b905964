--------------------------- MODULE MCStoreThreads ---------------------------
(***************************************************************************)
(* StoreThreads for TLC.  A cfg names the threads; their vectors, loops    *)
(* and exit tests, and the order of the pushes, come from ParserTopology.  *)
(***************************************************************************)
EXTENDS StoreThreads, ParserTopology

\* The vectors a run keeps: leaving one out forgets its rows, the visits to it
\* and the reads of it, and keeps everything the others can see.
CONSTANT Kept
AllVectors == HashVectors \cup DataVectors

LoopOf ==
    [runBlockMainThread            |-> runBlockMainThread,
     runTxMainThread               |-> runTxMainThread,
     runKeyImageMainThread         |-> runKeyImageMainThread,
     runSAIdHashMappingThread      |-> runSAIdHashMappingThread,
     runSaDataStoreThread          |-> runSaDataStoreThread,
     runSAIndexStoreThread         |-> runSAIndexStoreThread,
     runRingMemberStoreThread      |-> runRingMemberStoreThread,
     runRMIndexStoreThread         |-> runRMIndexStoreThread,
     dataConsumerThread            |-> dataConsumerThread]

\* TLC evaluates these definitions once; the values of the constants are the
\* names below, which a cfg substitutes for the constants.
Vectors   == {q \in Kept : \E t \in Thread, i \in 1 .. 13 :
                            i <= Len(LoopOf[t].body) /\ LoopOf[t].body[i] = q}
Visited(q) == q \in Kept
Read(r)    == r \in Kept \cup {Flag}
Bodies    == [t \in Thread |-> SelectSeq(LoopOf[t].body, Visited)]
ExitTests == [t \in Thread |-> SelectSeq(LoopOf[t].exit, Read)]
ElseExits == {t \in Thread : LoopOf[t].elseExit}
Hashes    == Vectors \cap HashVectors
Pushes    == PushOrder(Vectors)

\* Threads see none of each other's vectors.  So that they need not be interleaved,
\* a behaviour may have the pushes onto the vectors of one thread, which are all that
\* this thread can see, while the others find theirs empty.
OneThreadsVectors ==
    {Vectors \cap {LoopOf[t].body[i] : i \in 1 .. Len(LoopOf[t].body)} : t \in Thread}
PushesOfOne == UNION {PushOrder(S) : S \in OneThreadsVectors}

MCQueue    == Vectors
MCBody     == Bodies
MCExitTest == ExitTests
MCElseExit == ElseExits
MCOneByOne == Hashes
MCFollows  == Pushes
MCFollowsOne == PushesOfOne
=============================================================================
