------------------------------ MODULE TableRows ------------------------------
(***************************************************************************)
(* What one block turns into: the loops of xmrProcessor over transactions, *)
(* outputs, inputs and ring members, the seven counters they move on, the  *)
(* rows they push, and the columns that the insert functions bind the rows *)
(* to.  Nothing but integers joins the tables, and no foreign key of       *)
(* SQLite checks them.                                                     *)
(*                                                                         *)
(* A row with details carries its own identity as "of": the places of the  *)
(* block, transaction, input and so on that it comes from.  An index row   *)
(* has only ids.  Storing the rows is StoreThreads', starting again        *)
(* Ingest's; which id a known ring member gets is RingMembers', and a      *)
(* choice here: its own, or after a miss the next one.                     *)
(***************************************************************************)
EXTENDS Integers, Sequences, FiniteSets, SequencesExt

CONSTANTS
    PublicKeys,     \* keys of outputs and of ring members
    MaxBlocks,      \* bound: blocks
    MaxTxs,         \* bound: transactions of a block
    MaxOutputs,     \* bound: outputs in all
    MaxInputs,      \* bound: inputs of a transaction
    MaxMixins       \* bound: ring members in all

ASSUME RowsOK ==
    /\ MaxBlocks \in Nat /\ MaxTxs \in Nat \ {0}
    /\ MaxOutputs \in Nat /\ MaxInputs \in Nat /\ MaxMixins \in Nat

VARIABLES
    last,       \* the counters lastBlockId, lastTransactionId, ...
    loop,       \* the innermost loop xmrProcessor is in
    place,      \* its places in the chain: block, transaction, output, input, mixin
    shape,      \* the answers of the node: how many there are of each
    vectors,    \* the rows pushed, a sequence for each vector
    ringIds     \* the ids of the ring members met so far

rowsVars == <<last, loop, place, shape, vectors, ringIds>>

VectorNames == {"blockHashIdVector", "outputOfBlock", "outputIndexOfBlock",
            "txHashIdVector", "outputOfTx", "outputIndexOfTx",
            "saHashIdVector", "outputOfStealthAddresses", "outputIndexOfStealthAddresses",
            "keyImageHashIdVector", "outputOfKeyImages",
            "outputOfRingMembers", "outputIndexOfRingMembers"}

ThisBlock == <<place.block>>
ThisTx    == <<place.block, place.tx>>

RowsInit ==
    /\ last = [block |-> 1, transaction |-> 1, stealthAddress |-> 1, output |-> 1,
               keyImage |-> 1, input |-> 1, ringMember |-> 1]
    /\ loop = "blocks"
    /\ place = [block |-> 0, tx |-> 0, output |-> 0, input |-> 0, mixin |-> 0]
    /\ shape = [txs |-> 0, outputs |-> 0, rings |-> <<>>]
    /\ vectors = [v \in VectorNames |-> <<>>]
    /\ ringIds = [k \in {} |-> 0]

\* The rows of a function are pushed onto their vectors.
PushBack(rows) ==
    vectors' = [v \in VectorNames |-> IF v \in DOMAIN rows THEN Append(vectors[v], rows[v]) ELSE vectors[v]]
-----------------------------------------------------------------------------
\* The rows of the block, then its transactions.
BlockRows ==
    /\ loop = "blocks"
    /\ place.block < MaxBlocks
    /\ loop' = "txs"
    /\ place' = [block |-> place.block + 1, tx |-> 0, output |-> 0, input |-> 0, mixin |-> 0]
    /\ \E n \in 1 .. MaxTxs : shape' = [shape EXCEPT !.txs = n]
    /\ PushBack([blockHashIdVector  |-> <<<<place.block + 1>>, last.block>>,
                 outputOfBlock      |-> [lastBlockId |-> last.block, txCount |-> shape'.txs,
                                         of |-> <<place.block + 1>>],
                 outputIndexOfBlock |-> <<last.block>>])
    /\ UNCHANGED <<last, ringIds>>

\* The next transaction: its hash, then its outputs.
TxHash ==
    /\ loop = "txs"
    /\ place.tx < shape.txs
    /\ loop' = "outputs"
    /\ place' = [place EXCEPT !.tx = @ + 1, !.output = 0, !.input = 0, !.mixin = 0]
    /\ \E n \in 1 .. MaxOutputs - last.output + 1, i \in 0 .. MaxInputs :
          \E rings \in [1 .. i -> 1 .. MaxMixins] :
             /\ last.input + FoldSeq(LAMBDA m, sum : m + sum, 0, rings) <= MaxMixins + 1
             /\ shape' = [shape EXCEPT !.outputs = n, !.rings = rings]
    /\ PushBack([txHashIdVector |-> <<<<place.block, place.tx + 1>>, last.transaction>>])
    /\ UNCHANGED <<last, ringIds>>

\* Seeded fault: the hash gets the id after the one of the index row.
OutputRowsLate(k) ==
    LET of == Append(ThisTx, place.output + 1)
    IN  /\ loop = "outputs"
        /\ place.output < shape.outputs
        /\ place' = [place EXCEPT !.output = @ + 1]
        /\ PushBack([saHashIdVector |-> <<k, last.stealthAddress + 1>>,
                     outputOfStealthAddresses |-> [lastSAId |-> last.output, out_pub_key |-> k, of |-> of],
                     outputIndexOfStealthAddresses |->
                         <<last.transaction, last.stealthAddress, last.output, last.block>>])
        /\ last' = [last EXCEPT !.stealthAddress = @ + 1, !.output = @ + 1]
        /\ UNCHANGED <<loop, shape, ringIds>>

\* An output, whose key may have been seen before.
OutputRows(k) ==
    LET of == Append(ThisTx, place.output + 1)
    IN  /\ loop = "outputs"
        /\ place.output < shape.outputs
        /\ place' = [place EXCEPT !.output = @ + 1]
        /\ PushBack([saHashIdVector |-> <<k, last.stealthAddress>>,
                     outputOfStealthAddresses |-> [lastSAId |-> last.output, out_pub_key |-> k, of |-> of],
                     outputIndexOfStealthAddresses |->
                         <<last.transaction, last.stealthAddress, last.output, last.block>>])
        /\ last' = [last EXCEPT !.stealthAddress = @ + 1, !.output = @ + 1]
        /\ UNCHANGED <<loop, shape, ringIds>>

\* An input: its key image, then its ring members.
KeyImageRows ==
    LET of == Append(ThisTx, place.input + 1)
    IN  /\ loop = "outputs"
        /\ place.output = shape.outputs
        /\ place.input < Len(shape.rings)
        /\ loop' = "mixins"
        /\ place' = [place EXCEPT !.input = @ + 1, !.mixin = 0]
        /\ PushBack([keyImageHashIdVector |-> <<of, last.keyImage>>,
                     outputOfKeyImages |-> <<last.keyImage, of, last.block, last.transaction,
                                             Len(of), place.input, shape.rings[place.input + 1]>>])
        /\ UNCHANGED <<last, shape, ringIds>>

\* A ring member with the id it gets: the next one when its key is new, and also, without
\* counting on, when its key is known but neither the map nor the store has it.
RingMemberRows(k, missed) ==
    LET known == k \in DOMAIN ringIds
        id    == IF known /\ ~missed THEN ringIds[k] ELSE last.ringMember
    IN  /\ loop = "mixins"
        /\ place.mixin < shape.rings[place.input]
        /\ missed => known
        /\ place' = [place EXCEPT !.mixin = @ + 1]
        /\ PushBack([outputOfRingMembers |->
                         [lastRingId |-> last.input, mix_pub_key |-> k, missed |-> missed,
                          of |-> ThisTx \o <<place.input, place.mixin + 1>>],
                     outputIndexOfRingMembers |->
                         <<last.input, last.transaction, last.keyImage, id, last.block>>])
        /\ ringIds' = IF known THEN ringIds
                      ELSE [j \in DOMAIN ringIds \cup {k} |-> IF j = k THEN id ELSE ringIds[j]]
        /\ last' = [last EXCEPT !.input = @ + 1, !.ringMember = IF known THEN @ ELSE @ + 1]
        /\ UNCHANGED <<loop, shape>>

InputDone ==
    /\ loop = "mixins"
    /\ place.mixin = shape.rings[place.input]
    /\ loop' = "outputs"
    /\ last' = [last EXCEPT !.keyImage = @ + 1]
    /\ UNCHANGED <<place, shape, vectors, ringIds>>

\* The rows of the transaction come last.
TxRows ==
    /\ loop = "outputs"
    /\ place.output = shape.outputs
    /\ place.input = Len(shape.rings)
    /\ loop' = "txs"
    /\ PushBack([outputOfTx |-> [lastTxId |-> last.transaction, inputs_no |-> Len(shape.rings),
                                 outputs_no |-> shape.outputs, of |-> ThisTx],
                 outputIndexOfTx |-> <<last.transaction, last.block, last.transaction>>])
    /\ last' = [last EXCEPT !.transaction = @ + 1]
    /\ UNCHANGED <<place, shape, ringIds>>

BlockDone ==
    /\ loop = "txs"
    /\ place.tx = shape.txs
    /\ loop' = "blocks"
    /\ last' = [last EXCEPT !.block = @ + 1]
    /\ UNCHANGED <<place, shape, vectors, ringIds>>

\* All blocks are parsed, or there is no room for the outputs of one more transaction.
RowsEnded ==
    /\ \/ loop = "blocks" /\ place.block = MaxBlocks
       \/ loop = "txs" /\ place.tx < shape.txs /\ last.output > MaxOutputs
    /\ UNCHANGED rowsVars

RowsNext ==
    \/ BlockRows \/ TxHash
    \/ \E k \in PublicKeys : OutputRows(k)
    \/ KeyImageRows
    \/ \E k \in PublicKeys, missed \in BOOLEAN : RingMemberRows(k, missed)
    \/ InputDone \/ TxRows \/ BlockDone \/ RowsEnded

RowsSpec == RowsInit /\ [][RowsNext]_rowsVars
-----------------------------------------------------------------------------
\* The columns that the insert functions bind.
insertBlockData(v) == [DATA_ID |-> v.lastBlockId, TX_COUNT |-> v.txCount, of |-> v.of]
insertBlockIndex(v) == [ID |-> v[1], HASH_ID |-> v[1], DATA_ID |-> v[1]]
insertTxData(v) == [DATA_ID |-> v.lastTxId, INPUT_COUNT |-> v.inputs_no,
                    OUTPUT_COUNT |-> v.outputs_no, of |-> v.of]
insertTxIndex(v) == [DATA_ID |-> v[1], BLOCK_ID |-> v[2], HASH_ID |-> v[3]]
insertSAData(v) == [DATA_ID |-> v.lastSAId, P_KEY |-> v.out_pub_key, of |-> v.of]

insertSAIndex(v) == [DATA_ID |-> v[3], BLOCK_ID |-> v[4], TX_ID |-> v[1], HASH_ID |-> v[2]]
insertKIData(v) == [DATA_ID |-> v[1], BLOCK_ID |-> v[3], TX_ID |-> v[4], MIXIN_COUNT |-> v[7], of |-> v[2]]
insertRMData(v) == [DATA_ID |-> v.lastRingId, P_KEY |-> v.mix_pub_key, missed |-> v.missed, of |-> v.of]

\* Seeded fault: the columns are bound in the order of the vector.
insertRMIndexInOrder(v) ==
    [DATA_ID |-> v[1], BLOCK_ID |-> v[2], TX_ID |-> v[3], KEY_IMAGE |-> v[4], HASH_ID |-> v[5]]

insertRMIndex(v) ==
    [DATA_ID |-> v[1], BLOCK_ID |-> v[5], TX_ID |-> v[2], KEY_IMAGE |-> v[3], HASH_ID |-> v[4]]

RowsIn(vector, insert(_)) == {insert(v) : v \in ToSet(vectors[vector])}
BLOCK_DATA  == RowsIn("outputOfBlock", insertBlockData)
BLOCK_INDEX == RowsIn("outputIndexOfBlock", insertBlockIndex)
TX_DATA     == RowsIn("outputOfTx", insertTxData)
TX_INDEX    == RowsIn("outputIndexOfTx", insertTxIndex)
SA_DATA     == RowsIn("outputOfStealthAddresses", insertSAData)
SA_INDEX    == RowsIn("outputIndexOfStealthAddresses", insertSAIndex)
KI_DATA     == RowsIn("outputOfKeyImages", insertKIData)
RM_DATA     == RowsIn("outputOfRingMembers", insertRMData)
RM_INDEX    == RowsIn("outputIndexOfRingMembers", insertRMIndex)

\* The id a hash map gives in the end: of several pairs with one key, the last.
IdOfHash(vector, k) ==
    LET pairs == vectors[vector]
    IN  pairs[CHOOSE n \in DOMAIN pairs :
                 pairs[n][1] = k /\ \A m \in DOMAIN pairs : pairs[m][1] = k => m <= n][2]

BlockOf(of) == SubSeq(of, 1, 1)
TxOf(of)    == SubSeq(of, 1, 2)
InputOf(of) == SubSeq(of, 1, 3)
Finished    == {t.of : t \in TX_DATA}
-----------------------------------------------------------------------------
\* Joining the tables gives each output of a transaction that has its row with that very
\* transaction and block, and nothing else (parser.h:366-379, indexmapper.h:268-271).
OutputsJoin ==
    {<<j[1].of, j[2].of, j[3].of>> : j \in
        {i \in SA_DATA \X TX_DATA \X BLOCK_DATA :
            \E r \in SA_INDEX : r.DATA_ID = i[1].DATA_ID /\ r.TX_ID = i[2].DATA_ID
                                /\ r.BLOCK_ID = i[3].DATA_ID}}
    = {<<d.of, TxOf(d.of), BlockOf(d.of)>> : d \in {e \in SA_DATA : TxOf(e.of) \in Finished}}

\* The same of ring members, with their input and transaction; and a row has the id of
\* its key, but for a missed one (parser.h:405-467, indexmapper.h:406-410).
RingMembersJoin ==
    /\ {<<j[1].of, j[2].of, j[3].of>> : j \in
          {i \in RM_DATA \X KI_DATA \X TX_DATA :
              \E r \in RM_INDEX :
                 /\ r.DATA_ID = i[1].DATA_ID /\ r.KEY_IMAGE = i[2].DATA_ID
                 /\ r.TX_ID = i[3].DATA_ID /\ i[2].TX_ID = r.TX_ID /\ i[2].BLOCK_ID = r.BLOCK_ID}}
       = {<<d.of, InputOf(d.of), TxOf(d.of)>> : d \in {e \in RM_DATA : TxOf(e.of) \in Finished}}
    /\ \A d \in RM_DATA, r \in RM_INDEX :
          (r.DATA_ID = d.DATA_ID /\ ~d.missed) => r.HASH_ID = ringIds[d.P_KEY]

\* The numbers in the detail rows are the numbers of rows that join with them
\* (parser.h:331-486, page.h:4521).
CountsAreRows ==
    /\ \A t \in TX_DATA :
          /\ t.OUTPUT_COUNT = Cardinality({r \in SA_INDEX : r.TX_ID = t.DATA_ID})
          /\ t.INPUT_COUNT = Cardinality({k \in KI_DATA : k.TX_ID = t.DATA_ID})
    /\ \A k \in KI_DATA :
          TxOf(k.of) \in Finished =>
              k.MIXIN_COUNT = Cardinality({r \in RM_INDEX : r.KEY_IMAGE = k.DATA_ID})
    /\ loop = "blocks" => \A b \in BLOCK_DATA :
          b.TX_COUNT = Cardinality({r \in TX_INDEX : r.BLOCK_ID = b.DATA_ID})

\* What a row is told to belong to is what it came from, and all of it is there
\* (parser.h:299-486).
RowsJoin == OutputsJoin /\ RingMembersJoin /\ CountsAreRows

\* A hash leads through its map and the index to the row it belongs to.  A key that is an
\* output's again leads to the newest of its outputs only: the pair is overwritten
\* (parser.h:307-316, 342-363, 395-407).
HashesLeadToRows ==
    /\ \A b \in BLOCK_DATA :
          {r.DATA_ID : r \in {i \in BLOCK_INDEX : i.HASH_ID = IdOfHash("blockHashIdVector", b.of)}}
          = {b.DATA_ID}
    /\ \A t \in TX_DATA :
          {r.DATA_ID : r \in {i \in TX_INDEX : i.HASH_ID = IdOfHash("txHashIdVector", t.of)}}
          = {t.DATA_ID}
    /\ \A d \in SA_DATA :
          {r.DATA_ID : r \in {i \in SA_INDEX : i.HASH_ID = IdOfHash("saHashIdVector", d.P_KEY)}}
          = {CHOOSE n \in {e.DATA_ID : e \in {f \in SA_DATA : f.P_KEY = d.P_KEY}} :
                \A e \in SA_DATA : e.P_KEY = d.P_KEY => e.DATA_ID <= n}
    /\ \A k \in KI_DATA : IdOfHash("keyImageHashIdVector", k.of) = k.DATA_ID
=============================================================================
