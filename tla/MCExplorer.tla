------------------------------ MODULE MCExplorer ------------------------------
(***************************************************************************)
(* The parts that read the node's chain and pool, checked in one run: the  *)
(* first state says which of them runs, as in MCParts.                     *)
(***************************************************************************)
EXTENDS EmissionMonitor, MempoolMonitor, BlockPages, NodeRequests, OutputSearch

CONSTANTS t1, t2, bad, u1

VARIABLE running

readersVars == <<running, emissionVars, mempoolVars, pagesVars, requestVars, searchVars>>

\* Neither a part of the first pool nor of the second one is a pool.
MCPools == {{}, {t1, t2}, {t1, bad}}

MCInit ==
    /\ running \in {"emission", "mempool", "pages", "requests", "search"}
    /\ EmissionInit
    /\ MempoolInit /\ (running # "mempool" => ~up)
    /\ PagesInit
    /\ RequestsInit /\ (running # "requests" => \A h \in DOMAIN node : node[h].spends)
    /\ SearchInit /\ (running # "search" => undecodable = {})

Running(name, step, others) == running = name /\ step /\ UNCHANGED <<running, others>>

RunEmissionThread == Running("emission", EmissionThread, <<mempoolVars, pagesVars, requestVars, searchVars>>)
RunMempoolThread  == Running("mempool", MempoolThread, <<emissionVars, pagesVars, requestVars, searchVars>>)
RunLoadInfo       == Running("mempool", LoadInfo, <<emissionVars, pagesVars, requestVars, searchVars>>)

MCNext ==
    \/ Running("emission", EmissionNext, <<mempoolVars, pagesVars, requestVars, searchVars>>)
    \/ Running("mempool", MempoolNext, <<emissionVars, pagesVars, requestVars, searchVars>>)
    \/ Running("pages", PagesNext, <<emissionVars, mempoolVars, requestVars, searchVars>>)
    \/ Running("requests", RequestsNext, <<emissionVars, mempoolVars, pagesVars, searchVars>>)
    \/ Running("search", SearchNext, <<emissionVars, mempoolVars, pagesVars, requestVars>>)

\* The threads go on, and a page that was asked for reads the network information.
MCSpec ==
    /\ MCInit /\ [][MCNext]_readersVars
    /\ WF_readersVars(RunEmissionThread)
    /\ WF_readersVars(RunMempoolThread)
    /\ WF_readersVars(RunLoadInfo)
=============================================================================
