----------------------------- MODULE OutputSearch -----------------------------
(***************************************************************************)
(* json_outputsblocks: the outputs of one address among the transactions   *)
(* that wait in the node's pool and those of the last few blocks.  The     *)
(* pool is read from the copy that the mempool status thread keeps         *)
(* (MempoolMonitor), then the height, then block after block from the top. *)
(* Meanwhile the node (external) takes transactions into its pool, mines   *)
(* them, and puts them back when it removes blocks.                        *)
(*                                                                         *)
(* Each transaction here has an output of the address.  The outputs of an  *)
(* undecodable one cannot be read.                                         *)
(***************************************************************************)
EXTENDS Integers, Sequences

CONSTANTS
    OurTxs,         \* transactions with an output of the address
    LastBlocks,     \* no_of_last_blocks
    ShortLedgers,   \* bound: heights of the chain at the start
    LongestLedger,  \* bound: height of the chain
    Rewound,        \* bound: blocks that a reorganisation removes
    MaxRewinds      \* bound: reorganisations

ASSUME SearchOK ==
    /\ LastBlocks \in 0 .. 5
    /\ ShortLedgers \subseteq 1 .. LongestLedger
    /\ Rewound \in Nat /\ MaxRewinds \in Nat

VARIABLES
    undecodable,    \* the transactions of which decode_ringct fails
    ledger,         \* the chain: the transactions of each block
    rewinds,        \* reorganisations so far
    nodePool,       \* the node's pool
    fetched,        \* what the mempool thread has read of it and not yet published
    poolCopy,       \* what it has published
    search          \* the search under way

\* A copy of the pool has a history: what was in the pool or the chain when it was made,
\* and how many reorganisations there had been.
nodeSide   == <<undecodable, ledger, rewinds, nodePool>>
searchVars == <<nodeSide, fetched, poolCopy, search>>

NoCopy   == [txs |-> {}, known |-> {}, rewinds |-> 0]
NoSearch == [step |-> "none", in_mempool |-> FALSE, height |-> 0, start_height |-> 0,
             block_no |-> 0, blk |-> {}, outputs |-> {}, copy |-> NoCopy, asked |-> 0]

Mined    == UNION {ledger[n] : n \in DOMAIN ledger}

SearchInit ==
    /\ undecodable \in SUBSET OurTxs
    /\ ledger \in {[n \in 1 .. h |-> {}] : h \in ShortLedgers}
    /\ rewinds = 0
    /\ nodePool = {}
    /\ fetched = NoCopy /\ poolCopy = NoCopy
    /\ search = NoSearch
-----------------------------------------------------------------------------
\* The node.
TxArrives ==
    /\ \E tx \in OurTxs \ (nodePool \cup Mined) : nodePool' = nodePool \cup {tx}
    /\ UNCHANGED <<undecodable, ledger, rewinds, fetched, poolCopy, search>>

TxExpires ==
    /\ \E tx \in nodePool : nodePool' = nodePool \ {tx}
    /\ UNCHANGED <<undecodable, ledger, rewinds, fetched, poolCopy, search>>

BlockMined ==
    /\ Len(ledger) < LongestLedger
    /\ \E S \in SUBSET nodePool : ledger' = Append(ledger, S) /\ nodePool' = nodePool \ S
    /\ UNCHANGED <<undecodable, rewinds, fetched, poolCopy, search>>

BlocksRewound ==
    /\ rewinds < MaxRewinds
    /\ \E n \in 1 .. Rewound :
          /\ n < Len(ledger)
          /\ ledger' = SubSeq(ledger, 1, Len(ledger) - n)
          /\ nodePool' = nodePool \cup UNION {ledger[k] : k \in Len(ledger) - n + 1 .. Len(ledger)}
    /\ rewinds' = rewinds + 1
    /\ UNCHANGED <<undecodable, fetched, poolCopy, search>>
-----------------------------------------------------------------------------
\* read_mempool: the answer of the node, and later the vector that the pages find.
FetchPool ==
    /\ fetched' = [txs |-> nodePool, known |-> nodePool \cup Mined, rewinds |-> rewinds]
    /\ UNCHANGED <<nodeSide, poolCopy, search>>

PublishPool ==
    /\ poolCopy' = fetched
    /\ UNCHANGED <<nodeSide, fetched, search>>
-----------------------------------------------------------------------------
SearchOnly == UNCHANGED <<nodeSide, fetched, poolCopy>>

\* What cannot be parsed of the request is refused before anything is read.
AskForOutputs ==
    /\ search.step = "none"
    /\ \E in_mempool \in BOOLEAN :
          search' = [NoSearch EXCEPT !.step = IF in_mempool THEN "pool" ELSE "height",
                                     !.in_mempool = in_mempool, !.asked = rewinds]
    /\ SearchOnly

\* The outputs found are listed one by one; one that cannot be decoded ends the search.
find_our_outputs(page, txs, is_mempool) ==
    IF txs \cap undecodable # {} THEN [page EXCEPT !.step = "undecoded"]
    ELSE [page EXCEPT !.outputs = @ \cup
             {[tx |-> tx, in_mempool |-> is_mempool, block_no |-> page.block_no] : tx \in txs}]

SearchPool ==
    /\ search.step = "pool"
    /\ search' = find_our_outputs([search EXCEPT !.step = "height", !.copy = poolCopy],
                                  poolCopy.txs, TRUE)
    /\ SearchOnly

\* Seeded fault: the range begins one block late.
firstBlockLate(height) == IF height < LastBlocks THEN 0 ELSE height - LastBlocks + 1

\* The difference is unsigned, and signed again when it is compared.
firstBlock(height) == IF height < LastBlocks THEN 0 ELSE height - LastBlocks

\* Seeded fault: the newest block is left out.
endBlockEarly(height) == firstBlock(height) + LastBlocks - 2

endBlock(height) == firstBlock(height) + LastBlocks - 1

SearchHeight ==
    /\ search.step = "height"
    /\ search' = [search EXCEPT !.step = "block", !.height = Len(ledger),
                                !.start_height = firstBlock(Len(ledger)),
                                !.block_no = endBlock(Len(ledger))]
    /\ SearchOnly

SearchBlock ==
    /\ search.step = "block" /\ search.block_no >= search.start_height
    /\ search' = IF search.block_no < Len(ledger)
                 THEN [search EXCEPT !.step = "txs", !.blk = ledger[search.block_no + 1]]
                 ELSE [search EXCEPT !.step = "no block"]
    /\ SearchOnly

\* get_transactions: those that are gone by now are missed_txs, which nobody reads.
SearchTxs ==
    /\ search.step = "txs"
    /\ LET read == find_our_outputs([search EXCEPT !.step = "block"], search.blk \cap Mined, FALSE)
       IN  search' = [read EXCEPT !.block_no = @ - 1]
    /\ SearchOnly

Complete == search.step = "block" /\ search.block_no < search.start_height

\* The answer, be it a list or an error.
AnswerSearch ==
    /\ Complete \/ search.step \in {"no block", "undecoded"}
    /\ search' = NoSearch
    /\ SearchOnly

SearchStep == AskForOutputs \/ SearchPool \/ SearchHeight \/ SearchBlock \/ SearchTxs \/ AnswerSearch

SearchNext ==
    \/ TxArrives \/ TxExpires \/ BlockMined \/ BlocksRewound
    \/ FetchPool \/ PublishPool
    \/ SearchStep

SearchSpec == SearchInit /\ [][SearchNext]_searchVars
-----------------------------------------------------------------------------
LastTxs == UNION {ledger[n] : n \in {m \in DOMAIN ledger : m > Len(ledger) - LastBlocks}}

\* No transaction slips through between the copy of the pool and the blocks: one that the
\* node had when it was asked for the pool that the search reads, and that is still in its
\* pool or its last blocks when the search ends, is found, however late the copy and
\* whatever was mined meanwhile; unless blocks were removed (page.h:5244-5311: the pool is
\* searched before the height is read).
SearchMissesNothing ==
    (Complete /\ search.in_mempool /\ rewinds = search.copy.rewinds) =>
        search.copy.known \cap (nodePool \cup LastTxs) \subseteq {o.tx : o \in search.outputs}

\* An output is listed twice only as waiting and mined, or after blocks were removed; and
\* a block cannot be read only when blocks were removed or the chain is shorter than the
\* blocks to search (page.h:5282-5308).
SearchIsExplained ==
    rewinds = search.asked =>
        /\ \A o, p \in search.outputs :
              o.tx = p.tx /\ o # p => {o.in_mempool, p.in_mempool} = BOOLEAN
        /\ search.step = "no block" => search.height < LastBlocks
=============================================================================
