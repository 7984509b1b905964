----------------------------- MODULE NodeRequests -----------------------------
(***************************************************************************)
(* What the parsing thread asks of the blockchain for one block after the  *)
(* other (json_block, json_detailedtransaction), while the node (external) *)
(* goes on writing the same database: it adds blocks, and a reorganisation *)
(* removes the top ones.  Each read sees the chain as it is then.  An      *)
(* answer that is an error lacks what xmrProcessor takes out of it with    *)
(* at(), which throws and ends the program.                                *)
(*                                                                         *)
(* A block is known by its height and the number of reorganisations before *)
(* it.  It holds a coinbase of its own, and it may hold a transaction that *)
(* spends an output RingAge blocks below and is known by the height: the   *)
(* block that replaces it may hold the same one.                           *)
(***************************************************************************)
EXTENDS Integers, Sequences

CONSTANTS
    First, End,     \* heights of the range
    RingAge,        \* how far below a ring member's output is
    InitialHeight,  \* bound: height of the chain at the start
    TopHeight,      \* bound: height of the chain
    MaxCut,         \* bound: blocks that a reorganisation removes
    MaxCuts         \* bound: reorganisations

ASSUME RequestsOK ==
    /\ First \in Nat /\ End \in Nat /\ RingAge \in 1 .. First
    /\ InitialHeight \in 1 .. TopHeight /\ MaxCut \in Nat /\ MaxCuts \in Nat

VARIABLES
    node, cuts,     \* the chain: [fork, spends] by height + 1; reorganisations
    at,             \* what the parsing thread does next
    x,              \* the height it works on
    top,            \* current_blockchain_height of json_block
    blk, hash,      \* the block and the fork of the hash it has read
    txs,            \* transactions of the block still to be asked for
    input,          \* the input of the transaction: none, kept, dropped or blank
    ring,           \* fork of the block whose output is the ring member
    blockRows, txRows   \* the rows pushed

askedVars   == <<x, top, blk, hash, txs, input, ring>>
requestVars == <<node, cuts, at, askedVars, blockRows, txRows>>

null == -1
Block(fork, spends) == [fork |-> fork, spends |-> spends]
InNode(h) == h \in 0 .. Len(node) - 1

RequestsInit ==
    /\ node \in [1 .. InitialHeight -> {Block(0, spends) : spends \in BOOLEAN}]
    /\ cuts = 0
    /\ at = "height"
    /\ x = First /\ top = 0
    /\ blk = Block(0, FALSE) /\ hash = null
    /\ txs = << >> /\ input = "none" /\ ring = null
    /\ blockRows = << >> /\ txRows = << >>
-----------------------------------------------------------------------------
NodeAppends ==
    /\ Len(node) < TopHeight
    /\ \E spends \in BOOLEAN : node' = Append(node, Block(cuts, spends))
    /\ UNCHANGED <<cuts, at, askedVars, blockRows, txRows>>

NodeCuts ==
    /\ cuts < MaxCuts
    /\ \E n \in 1 .. MaxCut : n < Len(node) /\ node' = SubSeq(node, 1, Len(node) - n)
    /\ cuts' = cuts + 1
    /\ UNCHANGED <<at, askedVars, blockRows, txRows>>
-----------------------------------------------------------------------------
\* at() throws in the parsing thread: the program ends.
Throws ==
    /\ at' = "dead"
    /\ UNCHANGED <<node, cuts, askedVars, blockRows, txRows>>

\* json_block: the height of the chain.  The block at that very height is asked for too.
GetHeight ==
    /\ at = "height"
    /\ top' = Len(node)
    /\ at' = IF x > Len(node) THEN "dead" ELSE "block"
    /\ UNCHANGED <<node, cuts, x, blk, hash, txs, input, ring, blockRows, txRows>>

get_block_by_height ==
    /\ at = "block"
    /\ IF InNode(x)
       THEN /\ blk' = node[x + 1]
            /\ at' = "hash"
            /\ UNCHANGED <<node, cuts, x, top, hash, txs, input, ring, blockRows, txRows>>
       ELSE Throws

\* Seeded fault: the next block must be there when the height says so.
get_block_idStrict ==
    /\ at = "hash"
    /\ IF InNode(x) /\ (x + 1 <= top => InNode(x + 1))
       THEN /\ hash' = node[x + 1].fork
            /\ at' = "txs"
            /\ UNCHANGED <<node, cuts, x, top, blk, txs, input, ring, blockRows, txRows>>
       ELSE Throws

\* The hash and the size, by the height again; the size of a block that is gone throws.
\* The hash of the next block, which need not exist, is null then.
get_block_id ==
    /\ at = "hash"
    /\ IF InNode(x)
       THEN /\ hash' = node[x + 1].fork
            /\ at' = "txs"
            /\ UNCHANGED <<node, cuts, x, top, blk, txs, input, ring, blockRows, txRows>>
       ELSE Throws

\* The coinbase is in the chain as long as its block is; the other transaction as long
\* as the block at its height holds it.
Coinbase(b) == [kind |-> "coinbase", fork |-> b.fork]
Spending    == [kind |-> "spending", fork |-> null]
have_tx(tx) == InNode(x) /\ IF tx.kind = "coinbase" THEN node[x + 1].fork = tx.fork
                                                    ELSE node[x + 1].spends

\* The details of the transactions but the coinbase, and the answer; then xmrProcessor
\* pushes the rows of the block before it asks for a transaction.
AnswerBlock ==
    /\ at = "txs"
    /\ IF blk.spends => have_tx(Spending)
       THEN /\ txs' = <<Coinbase(blk)>> \o (IF blk.spends THEN <<Spending>> ELSE << >>)
            /\ blockRows' = Append(blockRows, [height |-> x, block |-> blk.fork, hash |-> hash])
            /\ at' = "find"
            /\ UNCHANGED <<node, cuts, x, top, blk, hash, input, ring, txRows>>
       ELSE Throws

\* Seeded fault: the transaction that json_block has read is used again.
find_txKept ==
    /\ at = "find"
    /\ txs # << >>
    /\ input' = IF Head(txs).kind = "coinbase" THEN "none" ELSE "kept"
    /\ at' = IF Head(txs).kind = "coinbase" THEN "push" ELSE "offsets"
    /\ UNCHANGED <<node, cuts, x, top, blk, hash, txs, ring, blockRows, txRows>>

\* json_detailedtransaction: the transaction in the chain.  The copy of the mempool,
\* where it is looked for otherwise, is empty: no thread fills it.
find_tx ==
    /\ at = "find"
    /\ txs # << >>
    /\ IF have_tx(Head(txs))
       THEN /\ input' = IF Head(txs).kind = "coinbase" THEN "none" ELSE "kept"
            /\ at' = IF Head(txs).kind = "coinbase" THEN "push" ELSE "offsets"
            /\ UNCHANGED <<node, cuts, x, top, blk, hash, txs, ring, blockRows, txRows>>
       ELSE Throws

\* Seeded fault: outputs of the last blocks are taken for too new.
are_absolute_offsets_goodNew ==
    /\ at = "offsets"
    /\ IF InNode(x + 1) THEN at' = "output" /\ UNCHANGED input
                        ELSE at' = "push" /\ input' = "dropped"
    /\ UNCHANGED <<node, cuts, x, top, blk, hash, txs, ring, blockRows, txRows>>

\* construct_tx_context: when the chain has fewer outputs, the input is left out.
are_absolute_offsets_good ==
    /\ at = "offsets"
    /\ IF InNode(x - RingAge) THEN at' = "output" /\ UNCHANGED input
                              ELSE at' = "push" /\ input' = "dropped"
    /\ UNCHANGED <<node, cuts, x, top, blk, hash, txs, ring, blockRows, txRows>>

\* An output that is gone by now makes the answer end before its outputs.
get_output_key ==
    /\ at = "output"
    /\ IF InNode(x - RingAge)
       THEN /\ ring' = node[x - RingAge + 1].fork
            /\ at' = "mixin"
            /\ UNCHANGED <<node, cuts, x, top, blk, hash, txs, input, blockRows, txRows>>
       ELSE Throws

\* The block and the transaction of the ring member: when they cannot be read, the row
\* is filled with default values, and the mark of the error is erased from the answer.
GetMixin ==
    /\ at = "mixin"
    /\ input' = IF InNode(x - RingAge) /\ node[x - RingAge + 1].fork = ring THEN "kept" ELSE "blank"
    /\ at' = "push"
    /\ UNCHANGED <<node, cuts, x, top, blk, hash, txs, ring, blockRows, txRows>>

PushTx ==
    /\ at = "push"
    /\ txRows' = Append(txRows, [height |-> x, tx |-> Head(txs), block |-> blk.fork, input |-> input])
    /\ txs' = Tail(txs)
    /\ at' = "find"
    /\ UNCHANGED <<node, cuts, x, top, blk, hash, input, ring, blockRows>>

\* The next block, or the end of the range.
NextHeight ==
    /\ at = "find"
    /\ txs = << >>
    /\ IF x < End THEN x' = x + 1 /\ at' = "height" ELSE at' = "done" /\ UNCHANGED x
    /\ UNCHANGED <<node, cuts, top, blk, hash, txs, input, ring, blockRows, txRows>>

AskNode ==
    \/ GetHeight \/ get_block_by_height \/ get_block_id \/ AnswerBlock
    \/ find_tx \/ are_absolute_offsets_good \/ get_output_key \/ GetMixin
    \/ PushTx \/ NextHeight

RequestsNext == NodeAppends \/ NodeCuts \/ AskNode

RequestsSpec == RequestsInit /\ [][RequestsNext]_requestVars
-----------------------------------------------------------------------------
\* The program only ends early when a block was removed from the chain, or when the
\* range goes on past it: main.cpp asks for 300 blocks whatever the height
\* (parser.h:302-304, page.h:4398-4413).
OnlyRemovedBlocksEndIt == (at = "dead" /\ cuts = 0) => x >= top

\* A block row that joins a block with the hash of its replacement is the last one: the
\* program ends before a row of its transactions is pushed, because the first of them
\* is the coinbase, which is in no other block (parser.h:304-342, page.h:4405-4413).
MixedBlockIsTheLast ==
    \A k \in DOMAIN blockRows :
        blockRows[k].hash # blockRows[k].block =>
            /\ k = Len(blockRows)
            /\ \A n \in DOMAIN txRows : txRows[n].height # blockRows[k].height

\* A transaction is stored without an input, or with a blank ring member, only if its
\* block has left the chain for good (page.h:5891-5892, 5989-6015, 4346-4347).
OnlyOrphansLoseInputs ==
    \A n \in DOMAIN txRows :
        txRows[n].input \in {"dropped", "blank"} =>
            ~(InNode(txRows[n].height) /\ node[txRows[n].height + 1].fork = txRows[n].block)
=============================================================================
