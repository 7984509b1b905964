------------------------------- MODULE MCParts -------------------------------
(***************************************************************************)
(* The parts that share no state, checked in one run.  The first state     *)
(* says which of them runs; the others stay in their initial states.  A    *)
(* property speaks of one part, and a step of another part would leave all *)
(* that it mentions alone, so that nothing is lost by not interleaving     *)
(* them.                                                                   *)
(***************************************************************************)
EXTENDS ProducerRanges, StorePool, PoolTopology, SharedFilter, SqliteBatches, RollingHash,
        TableRows

VARIABLE part

rangesVars == vars
partsVars == <<part, rangesVars, poolVars, memberVars, batchVars, rollingVars, rowsVars>>

\* One vector with one thread, one with a pool of which two threads are kept.
Groups     == {runBlockDataStoreThread, runSaDataStoreThread}
MCVectors  == {g.vector : g \in Groups}
MCThreads  == UNION {ThreadsOf(g, 2) : g \in Groups}
MCVectorOf == [t \in MCThreads |-> t[1]]
MCLookers  == UNION {ThreadsOf(g, 2) : g \in {h \in Groups : h.looks}}

\* Key 1 sets two bits of the byte, and covers the bits of key 2.
MCBitsOf   == << << <<0, 0>>, <<0, 1>> >>, << <<0, 1>>, <<0, 1>> >> >>
MCProducers == {"p", "q"}
MCMixinsOf == [p \in MCProducers |-> IF p = "p" THEN 2 ELSE 1]

MCPrimes   == <<13, 53>>

MCInit ==
    /\ part \in {"ranges", "pool", "members", "batches", "rolling", "rows"}
    /\ Init /\ (part # "ranges" => numProducer = 1 /\ height = 0)
    /\ PoolInit
    /\ MembersInit /\ (part # "members" => \A p \in Producers : \A n \in DOMAIN met[p] : met[p][n] = 1)
    /\ BatchesInit
    /\ RollingInit /\ (part # "rolling" => text = <<97, 97>> /\ added = <<97, 97, 97>>)
    /\ RowsInit

InPart(name, step, others) == part = name /\ step /\ UNCHANGED <<part, others>>

PoolThread(t) ==
    InPart("pool", PoolStep(t), <<rangesVars, memberVars, batchVars, rollingVars, rowsVars>>)

MCNext ==
    \/ InPart("ranges", Next, <<poolVars, memberVars, batchVars, rollingVars, rowsVars>>)
    \/ InPart("pool", PoolNext, <<rangesVars, memberVars, batchVars, rollingVars, rowsVars>>)
    \/ InPart("members", MembersNext, <<rangesVars, poolVars, batchVars, rollingVars, rowsVars>>)
    \/ InPart("batches", BatchesNext, <<rangesVars, poolVars, memberVars, rollingVars, rowsVars>>)
    \/ InPart("rolling", RollingNext, <<rangesVars, poolVars, memberVars, batchVars, rowsVars>>)
    \/ InPart("rows", RowsNext, <<rangesVars, poolVars, memberVars, batchVars, rollingVars>>)

MCSpec ==
    /\ MCInit /\ [][MCNext]_partsVars
    /\ \A t \in Threads : WF_partsVars(PoolThread(t))
=============================================================================
