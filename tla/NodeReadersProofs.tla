-------------------------- MODULE NodeReadersProofs --------------------------
(***************************************************************************)
(* Proofs about the parts that read the node's chain and pool while the    *)
(* node goes on: NodeRequests, OutputSearch, EmissionMonitor, BlockPages   *)
(* and MempoolMonitor.  They hold for every length of the chain, every     *)
(* depth and number of reorganisations and every value of the sizes that   *)
(* the code fixes.                                                         *)
(***************************************************************************)
EXTENDS EmissionMonitor, MempoolMonitor, BlockPages, NodeRequests, OutputSearch,
        FiniteSetTheorems, SequenceTheorems, TLAPS

-----------------------------------------------------------------------------
(* A chain that grows at its end and is cut there.                         *)

LEMMA Grown ==
    ASSUME NEW S, NEW s \in Seq(S), NEW e \in S
    PROVE  /\ Append(s, e) \in Seq(S)
           /\ Len(s) \in Nat /\ DOMAIN s = 1 .. Len(s)
           /\ Len(Append(s, e)) = Len(s) + 1 /\ DOMAIN Append(s, e) = 1 .. Len(s) + 1
           /\ \A n \in 1 .. Len(s) : Append(s, e)[n] = s[n] /\ s[n] \in S
           /\ Append(s, e)[Len(s) + 1] = e
BY AppendProperties, LenProperties, ElementOfSeq

LEMMA CutShort ==
    ASSUME NEW S, NEW s \in Seq(S), NEW k \in 0 .. Len(s)
    PROVE  /\ SubSeq(s, 1, k) \in Seq(S)
           /\ Len(s) \in Nat /\ DOMAIN s = 1 .. Len(s)
           /\ Len(SubSeq(s, 1, k)) = k /\ DOMAIN SubSeq(s, 1, k) = 1 .. k
           /\ \A n \in 1 .. k : SubSeq(s, 1, k)[n] = s[n] /\ s[n] \in S
<1>1. Len(s) \in Nat /\ DOMAIN s = 1 .. Len(s) /\ \A n \in 1 .. Len(s) : s[n] \in S
  BY LenProperties, ElementOfSeq
<1>2. k \in Nat /\ \A n \in 1 .. k : s[n] \in S
  BY <1>1
<1>3. /\ SubSeq(s, 1, k) \in Seq(S)
      /\ Len(SubSeq(s, 1, k)) = IF 1 <= k THEN k - 1 + 1 ELSE 0
      /\ \A n \in 1 .. k - 1 + 1 : SubSeq(s, 1, k)[n] = s[1 + n - 1]
  BY <1>2, SubSeqProperties
<1>4. Len(SubSeq(s, 1, k)) = k /\ \A n \in 1 .. k : SubSeq(s, 1, k)[n] = s[n]
  BY <1>2, <1>3
<1>5. DOMAIN SubSeq(s, 1, k) = 1 .. k
  BY <1>3, <1>4, LenProperties
<1>6. QED
  BY <1>1, <1>2, <1>3, <1>4, <1>5

-----------------------------------------------------------------------------
(* NodeRequests.                                                           *)

BlockType == [fork : Nat, spends : BOOLEAN]
TxType    == [kind : {"coinbase", "spending"}, fork : Int]
Inputs    == {"none", "kept", "dropped", "blank"}
BlockRowType == [height : Nat, block : Nat, hash : Int]
TxRowType    == [height : Nat, tx : TxType, block : Nat, input : Inputs]

ChainTypes ==
    /\ node \in Seq(BlockType) /\ cuts \in Nat
    /\ \A n \in DOMAIN node : node[n].fork <= cuts
RequestTypes ==
    /\ ChainTypes
    /\ x \in Nat /\ First <= x /\ top \in Nat
    /\ blk \in BlockType /\ blk.fork <= cuts /\ hash \in Int
    /\ txs \in Seq(TxType) /\ input \in Inputs
    /\ blockRows \in Seq(BlockRowType) /\ txRows \in Seq(TxRowType)

\* The block of a fork is at its height, or it is not and never will be again.
Stands(h, f) == InNode(h) /\ node[h + 1].fork = f
Gone(h, f)   == f < cuts /\ ~Stands(h, f)

HasBlock == {"hash", "txs", "find", "offsets", "output", "mixin", "push"}
HasTxs   == {"find", "offsets", "output", "mixin", "push"}

BlockStandsOrGone == at \in HasBlock => Stands(x, blk.fork) \/ Gone(x, blk.fork)
OtherHashIsGone   == at = "txs" /\ hash # blk.fork => Gone(x, blk.fork)
TxsOfBlock ==
    /\ at \in HasTxs \ {"find"} => txs # << >>
    /\ at \in HasTxs => \A n \in DOMAIN txs :
          txs[n] = Coinbase(blk) \/ (blk.spends /\ txs[n] = Spending)
RowHeights ==
    \A n \in DOMAIN txRows :
        /\ txRows[n].height <= x
        /\ at \in {"height", "block", "hash", "txs"} => txRows[n].height < x
RingStandsOrGone == at = "mixin" => Stands(x - RingAge, ring) \/ Gone(x, blk.fork)
LosersAreGone ==
    /\ at = "push" /\ input \in {"dropped", "blank"} => Gone(x, blk.fork)
    /\ \A n \in DOMAIN txRows :
          txRows[n].input \in {"dropped", "blank"} => Gone(txRows[n].height, txRows[n].block)

\* After a row with the hash of another block the coinbase is asked for, in vain.
MixedStops ==
    \A k \in DOMAIN blockRows : blockRows[k].hash # blockRows[k].block =>
        /\ k = Len(blockRows)
        /\ \A n \in DOMAIN txRows : txRows[n].height # blockRows[k].height
        /\ \/ at = "dead"
           \/ /\ at = "find" /\ txs # << >> /\ Head(txs) = Coinbase(blk)
              /\ blockRows[k].height = x /\ Gone(x, blk.fork)

\* As long as no block is removed, what was read is as it was.
NothingRemoved ==
    cuts = 0 =>
        /\ Len(node) >= top
        /\ at \in HasBlock => InNode(x) /\ node[x + 1] = blk
        /\ at = "dead" => x >= top

RequestInv ==
    /\ RequestTypes /\ BlockStandsOrGone /\ OtherHashIsGone /\ TxsOfBlock /\ RowHeights
    /\ RingStandsOrGone /\ LosersAreGone /\ MixedStops /\ NothingRemoved

\* The node adds a block of the newest fork, or removes some of the top ones.
LEMMA NodeSteps ==
    ASSUME RequestTypes, NodeAppends \/ NodeCuts
    PROVE  /\ RequestTypes'
           /\ UNCHANGED <<at, x, top, blk, hash, txs, input, ring, blockRows, txRows>>
           /\ \A h, f \in Nat : Gone(h, f) => Gone(h, f)'
           /\ \A h, f \in Nat : f <= cuts /\ Stands(h, f) => Stands(h, f)' \/ Gone(h, f)'
           /\ \A h \in Nat : InNode(h) =>
                 \/ InNode(h)' /\ node'[h + 1] = node[h + 1]
                 \/ cuts' = cuts + 1 /\ \A g \in Nat : g >= h => ~InNode(g)'
           /\ cuts' = 0 => cuts = 0 /\ Len(node') >= Len(node)
<1>0. UNCHANGED <<at, x, top, blk, hash, txs, input, ring, blockRows, txRows>>
  BY DEF NodeAppends, NodeCuts, askedVars
<1>a. ChainTypes' /\ cuts' >= cuts => RequestTypes'
  BY <1>0 DEF RequestTypes, ChainTypes, BlockType
<1>b. \A n \in 1 .. Len(node) : node[n].fork \in Nat /\ node[n].fork <= cuts
  <2>1. \A n \in 1 .. Len(node) : node[n] \in BlockType /\ n \in DOMAIN node
    BY LenProperties, ElementOfSeq DEF RequestTypes, ChainTypes
  <2>2. QED
    BY <2>1 DEF BlockType, RequestTypes, ChainTypes
<1>1. CASE NodeAppends
  <2>1. PICK spends \in BOOLEAN : node' = Append(node, Block(cuts, spends))
    BY <1>1 DEF NodeAppends
  <2>2. cuts' = cuts /\ cuts \in Nat /\ node \in Seq(BlockType)
    BY <1>1 DEF NodeAppends, RequestTypes, ChainTypes
  <2>3. Block(cuts, spends) \in BlockType /\ Block(cuts, spends).fork = cuts
    BY <2>2 DEF Block, BlockType
  <2>4. /\ node' \in Seq(BlockType)
        /\ Len(node) \in Nat /\ DOMAIN node = 1 .. Len(node)
        /\ Len(node') = Len(node) + 1 /\ DOMAIN node' = 1 .. Len(node) + 1
        /\ \A n \in 1 .. Len(node) : node'[n] = node[n]
        /\ node'[Len(node) + 1].fork = cuts
    BY <2>1, <2>2, <2>3, Grown
  <2>5. RequestTypes'
    <3>1. \A n \in DOMAIN node' : node'[n].fork <= cuts'
      BY <1>b, <2>2, <2>4
    <3>2. QED
      BY <1>a, <2>2, <2>4, <3>1 DEF ChainTypes
  <2>6. \A h \in Nat : InNode(h) => InNode(h)' /\ node'[h + 1] = node[h + 1]
    BY <2>4 DEF InNode
  <2>7. \A h \in Nat : InNode(h)' => InNode(h) \/ node'[h + 1].fork = cuts
    BY <2>4 DEF InNode
  <2>8. \A h, f \in Nat : Gone(h, f) => Gone(h, f)'
    BY <2>2, <2>6, <2>7 DEF Gone, Stands
  <2>9. \A h, f \in Nat : Stands(h, f) => Stands(h, f)'
    BY <2>6 DEF Stands
  <2>10. QED
    BY <1>0, <2>2, <2>4, <2>5, <2>6, <2>8, <2>9
<1>2. CASE NodeCuts
  <2>1. PICK n \in 1 .. MaxCut : n < Len(node) /\ node' = SubSeq(node, 1, Len(node) - n)
    BY <1>2 DEF NodeCuts
  <2>2. cuts' = cuts + 1 /\ cuts \in Nat /\ node \in Seq(BlockType) /\ Len(node) \in Nat
    BY <1>2 DEF NodeCuts, RequestTypes, ChainTypes
  <2>3. PICK k \in 0 .. Len(node) : k = Len(node) - n
    BY <2>1, <2>2, RequestsOK DEF RequestsOK
  <2>4. /\ node' \in Seq(BlockType)
        /\ DOMAIN node = 1 .. Len(node)
        /\ Len(node') = k /\ DOMAIN node' = 1 .. k
        /\ \A m \in 1 .. k : node'[m] = node[m]
    BY <2>1, <2>2, <2>3, CutShort
  <2>5. RequestTypes'
    <3>1. \A m \in DOMAIN node' : m \in 1 .. Len(node) /\ node'[m] = node[m]
      BY <2>2, <2>3, <2>4
    <3>2. \A m \in DOMAIN node' : node'[m].fork \in Nat /\ node'[m].fork <= cuts
      BY <1>b, <3>1
    <3>3. \A m \in DOMAIN node' : node'[m].fork <= cuts'
      BY <2>2, <3>2
    <3>4. QED
      BY <1>a, <2>2, <2>4, <3>3 DEF ChainTypes
  <2>6. \A h \in Nat : InNode(h)' => InNode(h) /\ node'[h + 1] = node[h + 1]
    BY <2>3, <2>4 DEF InNode
  <2>7. \A h, f \in Nat : Gone(h, f) => Gone(h, f)'
    BY <2>2, <2>6 DEF Gone, Stands
  <2>8. \A h, f \in Nat : f <= cuts => Stands(h, f)' \/ Gone(h, f)'
    BY <2>2 DEF Gone
  <2>9. \A h \in Nat : ~InNode(h)' => \A g \in Nat : g >= h => ~InNode(g)'
    BY <2>3, <2>4 DEF InNode
  <2>10. cuts' # 0
    BY <2>2
  <2>11. QED
    BY <1>0, <2>2, <2>5, <2>6, <2>7, <2>8, <2>9, <2>10
<1>3. QED
  BY <1>1, <1>2

LEMMA NodeKeepsRequests ==
    ASSUME RequestInv, NodeAppends \/ NodeCuts
    PROVE  RequestInv'
<1> USE DEF RequestInv
<1>0. /\ RequestTypes'
      /\ UNCHANGED <<at, x, top, blk, hash, txs, input, ring, blockRows, txRows>>
  BY NodeSteps
<1>1. \A h, f \in Nat : Gone(h, f) => Gone(h, f)'
  BY NodeSteps
<1>2. \A h, f \in Nat : f <= cuts /\ Stands(h, f) => Stands(h, f)' \/ Gone(h, f)'
  BY NodeSteps
<1>3. \A h \in Nat : InNode(h) =>
          \/ InNode(h)' /\ node'[h + 1] = node[h + 1]
          \/ cuts' = cuts + 1 /\ \A g \in Nat : g >= h => ~InNode(g)'
  BY NodeSteps
<1>4. x \in Nat /\ blk.fork \in Nat /\ blk.fork <= cuts /\ cuts \in Nat /\ First <= x
  BY DEF RequestTypes, ChainTypes, BlockType
<1>5. \A n \in DOMAIN txRows : txRows[n].height \in Nat /\ txRows[n].block \in Nat
  <2>1. txRows \in Seq(TxRowType)
    BY DEF RequestTypes
  <2>2. \A n \in DOMAIN txRows : txRows[n] \in TxRowType
    BY <2>1, LenProperties, ElementOfSeq
  <2>3. QED
    BY <2>2 DEF TxRowType
<1>6. BlockStandsOrGone' /\ OtherHashIsGone'
  BY <1>0, <1>1, <1>2, <1>4 DEF BlockStandsOrGone, OtherHashIsGone, HasBlock
<1>7. TxsOfBlock' /\ RowHeights'
  BY <1>0 DEF TxsOfBlock, RowHeights, Coinbase, Spending
<1>8. LosersAreGone'
  BY <1>0, <1>1, <1>4, <1>5 DEF LosersAreGone
<1>9. RingStandsOrGone'
  <2> SUFFICES ASSUME at = "mixin"
               PROVE  Stands(x - RingAge, ring)' \/ Gone(x, blk.fork)'
    BY <1>0 DEF RingStandsOrGone
  <2>1. CASE Gone(x, blk.fork)
    BY <1>0, <1>1, <1>4, <2>1
  <2>2. CASE Stands(x - RingAge, ring)
    <3>1. PICK h \in Nat : h = x - RingAge /\ x >= h
      BY <1>4, RequestsOK DEF RequestsOK
    <3>2. CASE InNode(h)' /\ node'[h + 1] = node[h + 1]
      BY <1>0, <2>2, <3>1, <3>2 DEF Stands
    <3>3. CASE cuts' = cuts + 1 /\ ~InNode(x)'
      BY <1>0, <1>4, <3>3 DEF Gone, Stands
    <3>4. InNode(h)
      BY <2>2, <3>1 DEF Stands
    <3>5. QED
      BY <1>0, <1>3, <1>4, <3>1, <3>2, <3>3, <3>4
  <2>3. QED
    BY <2>1, <2>2 DEF RingStandsOrGone
<1>10. MixedStops'
  <2>1. Gone(x, blk.fork) => Gone(x, blk.fork)'
    BY <1>0, <1>1, <1>4
  <2>2. QED
    BY <1>0, <2>1 DEF MixedStops, Coinbase
<1>11. NothingRemoved'
  BY <1>0, <1>3, <1>4, NodeSteps DEF NothingRemoved, HasBlock, RequestTypes, ChainTypes
<1>12. QED
  BY <1>0, <1>6, <1>7, <1>8, <1>9, <1>10, <1>11

\* What a step of the parsing thread leaves alone.
LEMMA ThreadKeepsNode ==
    ASSUME UNCHANGED <<node, cuts>>
    PROVE  \A h, f : /\ InNode(h)' <=> InNode(h)
                     /\ Stands(h, f)' <=> Stands(h, f)
                     /\ Gone(h, f)' <=> Gone(h, f)
BY DEF InNode, Stands, Gone

LEMMA ThrowsKeepsRequests ==
    ASSUME RequestInv, Throws, at # "dead", cuts = 0 => x >= top,
           \A k \in DOMAIN blockRows : blockRows[k].hash # blockRows[k].block =>
               at = "find" /\ txs # << >> /\ Head(txs) = Coinbase(blk)
    PROVE  RequestInv'
<1>0. at' = "dead" /\ UNCHANGED <<node, cuts, x, top, blk, hash, txs, input, ring, blockRows, txRows>>
  BY DEF Throws, askedVars
<1>1. \A h, f : Gone(h, f)' <=> Gone(h, f)
  BY <1>0, ThreadKeepsNode
<1>2. RequestTypes' /\ BlockStandsOrGone' /\ OtherHashIsGone' /\ TxsOfBlock' /\ RowHeights'
      /\ RingStandsOrGone'
  BY <1>0 DEF RequestInv, RequestTypes, ChainTypes, BlockStandsOrGone, OtherHashIsGone, TxsOfBlock,
     RowHeights, RingStandsOrGone, HasBlock, HasTxs
<1>3. LosersAreGone' /\ MixedStops' /\ NothingRemoved'
  BY <1>0, <1>1 DEF RequestInv, LosersAreGone, MixedStops, NothingRemoved, HasBlock
<1>4. QED
  BY <1>2, <1>3 DEF RequestInv

\* A step that pushes no row and asks for another thing of the same block.
LEMMA QuietKeepsRows ==
    ASSUME RequestInv,
           UNCHANGED <<node, cuts, x, blk, txs, blockRows, txRows>>,
           at \notin {"find", "dead"}, at' # "dead",
           at' \in {"height", "block", "hash", "txs"} =>
               at \in {"height", "block", "hash", "txs"}
    PROVE  /\ RowHeights' /\ MixedStops'
           /\ \A n \in DOMAIN txRows :
                 txRows[n].input \in {"dropped", "blank"} => Gone(txRows[n].height, txRows[n].block)'
<1>1. \A h, f : Gone(h, f)' <=> Gone(h, f)
  BY ThreadKeepsNode
<1>2. RowHeights'
  BY DEF RequestInv, RowHeights
<1>3. MixedStops'
  BY DEF RequestInv, MixedStops
<1>4. QED
  BY <1>1, <1>2, <1>3 DEF RequestInv, LosersAreGone

LEMMA GetHeightStep ==
    ASSUME RequestInv, GetHeight
    PROVE  RequestInv'
<1>0. /\ at = "height" /\ at' \in {"dead", "block"} /\ top' = Len(node)
      /\ (at' = "dead" => x > Len(node))
      /\ UNCHANGED <<node, cuts, x, blk, hash, txs, input, ring, blockRows, txRows>>
      /\ Len(node) \in Nat /\ x \in Nat
  BY LenProperties DEF GetHeight, RequestInv, RequestTypes, ChainTypes
<1>1. \A h, f : Gone(h, f)' <=> Gone(h, f)
  BY <1>0, ThreadKeepsNode
<1>2. RequestTypes' /\ BlockStandsOrGone' /\ OtherHashIsGone' /\ TxsOfBlock' /\ RowHeights'
      /\ RingStandsOrGone'
  BY <1>0 DEF RequestInv, RequestTypes, ChainTypes, BlockStandsOrGone, OtherHashIsGone, TxsOfBlock,
     RowHeights, RingStandsOrGone, HasBlock, HasTxs
<1>3. LosersAreGone' /\ MixedStops'
  BY <1>0, <1>1 DEF RequestInv, LosersAreGone, MixedStops
<1>4. NothingRemoved'
  BY <1>0 DEF NothingRemoved, HasBlock
<1>5. QED
  BY <1>2, <1>3, <1>4 DEF RequestInv

LEMMA GetBlockStep ==
    ASSUME RequestInv, get_block_by_height
    PROVE  RequestInv'
<1>0. /\ at = "block" /\ x \in Nat /\ node \in Seq(BlockType) /\ cuts \in Nat
      /\ Len(node) \in Nat /\ top \in Nat
      /\ \A n \in DOMAIN node : node[n] \in BlockType /\ node[n].fork <= cuts
      /\ DOMAIN node = 1 .. Len(node)
  BY LenProperties, ElementOfSeq DEF get_block_by_height, RequestInv, RequestTypes, ChainTypes
<1>1. CASE ~InNode(x)
  <2>1. cuts = 0 => x >= top
    BY <1>0, <1>1 DEF InNode, RequestInv, NothingRemoved
  <2>2. QED
    BY <1>0, <1>1, <2>1, ThrowsKeepsRequests
    DEF get_block_by_height, RequestInv, MixedStops
<1>2. CASE InNode(x)
  <2>1. /\ blk' = node[x + 1] /\ at' = "hash" /\ x + 1 \in DOMAIN node
        /\ UNCHANGED <<node, cuts, x, top, hash, txs, input, ring, blockRows, txRows>>
    BY <1>0, <1>2 DEF get_block_by_height, InNode
  <2>2. RequestTypes'
    BY <1>0, <2>1 DEF RequestInv, RequestTypes, ChainTypes
  <2>3. BlockStandsOrGone'
    BY <1>2, <2>1, ThreadKeepsNode DEF BlockStandsOrGone, Stands
  <2>4. OtherHashIsGone' /\ TxsOfBlock' /\ RowHeights' /\ RingStandsOrGone'
    BY <1>0, <2>1 DEF OtherHashIsGone, TxsOfBlock, RowHeights, RingStandsOrGone, HasTxs, RequestInv
  <2>5. LosersAreGone' /\ MixedStops'
    BY <1>0, <2>1, ThreadKeepsNode DEF RequestInv, LosersAreGone, MixedStops
  <2>6. NothingRemoved'
    BY <1>2, <2>1, ThreadKeepsNode DEF RequestInv, NothingRemoved
  <2>7. QED
    BY <2>2, <2>3, <2>4, <2>5, <2>6 DEF RequestInv
<1>3. QED
  BY <1>1, <1>2

LEMMA GetHashStep ==
    ASSUME RequestInv, get_block_id
    PROVE  RequestInv'
<1>0. /\ at = "hash" /\ x \in Nat /\ Len(node) \in Nat
      /\ \A n \in DOMAIN node : node[n].fork \in Int
      /\ DOMAIN node = 1 .. Len(node)
  <2>1. node \in Seq(BlockType) /\ x \in Nat /\ at = "hash"
    BY DEF get_block_id, RequestInv, RequestTypes, ChainTypes
  <2>2. Len(node) \in Nat /\ DOMAIN node = 1 .. Len(node) /\ \A n \in DOMAIN node : node[n] \in BlockType
    BY <2>1, LenProperties, ElementOfSeq
  <2>3. QED
    BY <2>1, <2>2 DEF BlockType
<1>1. CASE ~InNode(x)
  BY <1>0, <1>1, ThrowsKeepsRequests
  DEF get_block_id, RequestInv, MixedStops, NothingRemoved, HasBlock
<1>2. CASE InNode(x)
  <2>1. /\ hash' = node[x + 1].fork /\ at' = "txs" /\ x + 1 \in DOMAIN node
        /\ UNCHANGED <<node, cuts, x, top, blk, txs, input, ring, blockRows, txRows>>
    BY <1>0, <1>2 DEF get_block_id, InNode
  <2>2. RequestTypes'
    BY <1>0, <2>1 DEF RequestInv, RequestTypes, ChainTypes
  <2>3. BlockStandsOrGone'
    BY <1>0, <2>1, ThreadKeepsNode DEF RequestInv, BlockStandsOrGone, HasBlock
  <2>4. OtherHashIsGone'
    BY <1>0, <2>1, ThreadKeepsNode DEF RequestInv, OtherHashIsGone, BlockStandsOrGone, HasBlock, Stands
  <2>5. TxsOfBlock' /\ RowHeights' /\ RingStandsOrGone'
    BY <1>0, <2>1 DEF TxsOfBlock, RowHeights, RingStandsOrGone, HasTxs, RequestInv
  <2>6. LosersAreGone' /\ MixedStops'
    BY <1>0, <2>1, ThreadKeepsNode DEF RequestInv, LosersAreGone, MixedStops
  <2>7. NothingRemoved'
    BY <1>0, <2>1, ThreadKeepsNode DEF RequestInv, NothingRemoved, HasBlock
  <2>8. QED
    BY <2>2, <2>3, <2>4, <2>5, <2>6, <2>7 DEF RequestInv
<1>3. QED
  BY <1>1, <1>2

\* The row of a block whose hash was read later than the block itself is its last one.
LEMMA AnswerStep ==
    ASSUME RequestInv, AnswerBlock
    PROVE  RequestInv'
<1>0. at = "txs"
  BY DEF AnswerBlock
<1>1. CASE ~(blk.spends => have_tx(Spending))
  <2>1. cuts = 0 => FALSE
    BY <1>0, <1>1 DEF have_tx, Spending, RequestInv, NothingRemoved, HasBlock
  <2>2. QED
    BY <1>0, <1>1, <2>1, ThrowsKeepsRequests DEF AnswerBlock, RequestInv, MixedStops
<1>2. CASE blk.spends => have_tx(Spending)
  <2> DEFINE r == [height |-> x, block |-> blk.fork, hash |-> hash]
             rest == IF blk.spends THEN <<Spending>> ELSE << >>
  <2>1. /\ at' = "find" /\ blockRows' = Append(blockRows, r)
        /\ txs' = <<Coinbase(blk)>> \o rest
        /\ UNCHANGED <<node, cuts, x, top, blk, hash, input, ring, txRows>>
    BY <1>0, <1>2 DEF AnswerBlock
  <2>2. x \in Nat /\ blk.fork \in Nat /\ hash \in Int /\ blockRows \in Seq(BlockRowType)
    BY DEF RequestInv, RequestTypes, BlockType
  <2>3. r \in BlockRowType
    BY <2>2 DEF BlockRowType
  <2>4. Coinbase(blk) \in TxType /\ Spending \in TxType
    BY <2>2 DEF Coinbase, Spending, TxType, null
  <2>5. /\ txs' \in Seq(TxType) /\ txs' # << >> /\ Head(txs') = Coinbase(blk)
        /\ \A n \in DOMAIN txs' : txs'[n] = Coinbase(blk) \/ (blk.spends /\ txs'[n] = Spending)
    <3>1. rest \in Seq(TxType) /\ Len(rest) \in {0, 1} /\ (Len(rest) = 1 => blk.spends /\ rest[1] = Spending)
      BY <2>4
    <3>2. <<Coinbase(blk)>> \in Seq(TxType) /\ Len(<<Coinbase(blk)>>) = 1
          /\ <<Coinbase(blk)>>[1] = Coinbase(blk)
      BY <2>4
    <3> HIDE DEF rest
    <3>3. /\ txs' \in Seq(TxType) /\ Len(txs') = 1 + Len(rest)
          /\ \A n \in 1 .. 1 + Len(rest) :
                txs'[n] = IF n <= 1 THEN <<Coinbase(blk)>>[n] ELSE rest[n - 1]
      BY <2>1, <3>1, <3>2, ConcatProperties
    <3>4. txs' # << >> /\ Head(txs') = txs'[1] /\ DOMAIN txs' = 1 .. Len(txs')
      BY <3>1, <3>3, EmptySeq, LenProperties
    <3>5. \A n \in DOMAIN txs' : n = 1 \/ (n = 2 /\ Len(rest) = 1)
      BY <3>1, <3>3, <3>4
    <3>6. QED
      BY <3>1, <3>2, <3>3, <3>4, <3>5
  <2> HIDE DEF r, rest
  <2>6. /\ blockRows' \in Seq(BlockRowType)
        /\ Len(blockRows) \in Nat /\ Len(blockRows') = Len(blockRows) + 1
        /\ DOMAIN blockRows = 1 .. Len(blockRows)
        /\ DOMAIN blockRows' = 1 .. Len(blockRows) + 1
        /\ \A k \in DOMAIN blockRows : blockRows'[k] = blockRows[k]
        /\ blockRows'[Len(blockRows) + 1] = r
    BY <2>1, <2>2, <2>3, Grown
  <2>7. RequestTypes'
    BY <2>1, <2>5, <2>6 DEF RequestInv, RequestTypes, ChainTypes
  <2>8. BlockStandsOrGone'
    BY <1>0, <2>1, ThreadKeepsNode DEF RequestInv, BlockStandsOrGone, HasBlock
  <2>9. OtherHashIsGone' /\ RowHeights' /\ RingStandsOrGone'
    BY <1>0, <2>1 DEF RequestInv, OtherHashIsGone, RowHeights, RingStandsOrGone
  <2>10. TxsOfBlock'
    BY <2>1, <2>5 DEF TxsOfBlock, Coinbase
  <2>11. LosersAreGone'
    BY <1>0, <2>1, ThreadKeepsNode DEF RequestInv, LosersAreGone
  <2>12. MixedStops'
    <3> SUFFICES ASSUME NEW k \in DOMAIN blockRows', blockRows'[k].hash # blockRows'[k].block
                 PROVE  /\ k = Len(blockRows')
                        /\ \A n \in DOMAIN txRows' : txRows'[n].height # blockRows'[k].height
                        /\ txs' # << >> /\ Head(txs') = Coinbase(blk)'
                        /\ blockRows'[k].height = x' /\ Gone(x, blk.fork)'
      BY <2>1 DEF MixedStops
    <3>1. k \notin DOMAIN blockRows
      BY <1>0, <2>6 DEF RequestInv, MixedStops
    <3>2. k = Len(blockRows) + 1 /\ blockRows'[k] = r
      BY <2>6, <3>1
    <3>3. r.height = x /\ r.block = blk.fork /\ r.hash = hash
      BY DEF r
    <3>4. Gone(x, blk.fork)'
      BY <1>0, <2>1, <3>2, <3>3, ThreadKeepsNode DEF RequestInv, OtherHashIsGone
    <3>5. \A n \in DOMAIN txRows : txRows[n].height # x
      <4>1. txRows \in Seq(TxRowType)
        BY DEF RequestInv, RequestTypes
      <4>2. \A n \in DOMAIN txRows : txRows[n] \in TxRowType
        BY <4>1, LenProperties, ElementOfSeq
      <4>3. QED
        BY <1>0, <2>2, <4>2 DEF RequestInv, RowHeights, TxRowType
    <3>6. QED
      BY <2>1, <2>5, <2>6, <3>2, <3>3, <3>4, <3>5 DEF Coinbase
  <2>13. NothingRemoved'
    BY <1>0, <2>1, ThreadKeepsNode DEF RequestInv, NothingRemoved, HasBlock
  <2>14. QED
    BY <2>7, <2>8, <2>9, <2>10, <2>11, <2>12, <2>13 DEF RequestInv
<1>3. QED
  BY <1>1, <1>2

\* The coinbase of a block that is gone is in no block.
LEMMA FindTxStep ==
    ASSUME RequestInv, find_tx
    PROVE  RequestInv'
<1>0. at = "find" /\ txs # << >>
  BY DEF find_tx
<1>a. /\ Head(txs) = txs[1] /\ 1 \in DOMAIN txs /\ txs \in Seq(TxType)
      /\ Head(txs) = Coinbase(blk) \/ (blk.spends /\ Head(txs) = Spending)
  <2>1. txs \in Seq(TxType)
    BY DEF RequestInv, RequestTypes
  <2>2. 1 \in DOMAIN txs /\ Head(txs) = txs[1]
    BY <1>0, <2>1, EmptySeq, LenProperties
  <2>3. QED
    BY <1>0, <2>1, <2>2 DEF RequestInv, TxsOfBlock, HasTxs
<1>b. Head(txs) = Coinbase(blk) /\ have_tx(Head(txs)) => Stands(x, blk.fork)
  BY DEF Coinbase, have_tx, Stands
<1>1. CASE ~have_tx(Head(txs))
  <2>1. cuts # 0
    BY <1>0, <1>1, <1>a DEF RequestInv, NothingRemoved, HasBlock, have_tx, Coinbase, Spending
  <2>2. QED
    BY <1>0, <1>1, <2>1, ThrowsKeepsRequests DEF find_tx, RequestInv, MixedStops
<1>2. CASE have_tx(Head(txs))
  <2>1. /\ at' \in {"push", "offsets"} /\ input' \in {"none", "kept"}
        /\ UNCHANGED <<node, cuts, x, top, blk, hash, txs, ring, blockRows, txRows>>
    BY <1>0, <1>2 DEF find_tx
  <2>2. RequestTypes'
    BY <2>1 DEF RequestInv, RequestTypes, ChainTypes, Inputs
  <2>3. BlockStandsOrGone'
    BY <1>0, <2>1, ThreadKeepsNode DEF RequestInv, BlockStandsOrGone, HasBlock
  <2>4. OtherHashIsGone' /\ RowHeights' /\ RingStandsOrGone' /\ TxsOfBlock'
    BY <1>0, <2>1 DEF RequestInv, OtherHashIsGone, RowHeights, RingStandsOrGone, TxsOfBlock, HasTxs,
       Coinbase, Spending
  <2>5. LosersAreGone'
    BY <1>0, <2>1, ThreadKeepsNode DEF RequestInv, LosersAreGone
  <2>6. MixedStops'
    <3>1. \A k \in DOMAIN blockRows : blockRows[k].hash = blockRows[k].block
      BY <1>0, <1>2, <1>b DEF RequestInv, MixedStops, Gone
    <3>2. QED
      BY <2>1, <3>1 DEF MixedStops
  <2>7. NothingRemoved'
    BY <1>0, <2>1, ThreadKeepsNode DEF RequestInv, NothingRemoved, HasBlock
  <2>8. QED
    BY <2>2, <2>3, <2>4, <2>5, <2>6, <2>7 DEF RequestInv
<1>3. QED
  BY <1>1, <1>2

LEMMA OffsetsStep ==
    ASSUME RequestInv, are_absolute_offsets_good
    PROVE  RequestInv'
<1>0. /\ at = "offsets" /\ at' \in {"output", "push"}
      /\ UNCHANGED <<node, cuts, x, top, blk, hash, txs, ring, blockRows, txRows>>
      /\ input' \in Inputs
  BY DEF are_absolute_offsets_good, RequestInv, RequestTypes, Inputs
<1>1. RequestTypes'
  BY <1>0 DEF RequestInv, RequestTypes, ChainTypes
<1>2. BlockStandsOrGone'
  BY <1>0, ThreadKeepsNode DEF RequestInv, BlockStandsOrGone, HasBlock
<1>3. OtherHashIsGone' /\ RingStandsOrGone' /\ TxsOfBlock'
  BY <1>0 DEF RequestInv, OtherHashIsGone, RingStandsOrGone, TxsOfBlock, HasTxs, Coinbase, Spending
<1>4. LosersAreGone'
  <2> SUFFICES ASSUME at' = "push"
               PROVE  Gone(x, blk.fork)'
    BY <1>0, QuietKeepsRows DEF LosersAreGone
  <2>1. ~InNode(x - RingAge)
    BY <1>0 DEF are_absolute_offsets_good
  <2>2. ~InNode(x)
    BY <2>1, RequestsOK DEF InNode, RequestsOK, RequestInv, RequestTypes
  <2>3. Gone(x, blk.fork)
    BY <1>0, <2>2 DEF RequestInv, BlockStandsOrGone, HasBlock, Stands
  <2>4. QED
    BY <1>0, <2>3, ThreadKeepsNode
<1>5. RowHeights' /\ MixedStops'
  BY <1>0, QuietKeepsRows
<1>6. NothingRemoved'
  BY <1>0, ThreadKeepsNode DEF RequestInv, NothingRemoved, HasBlock
<1>7. QED
  BY <1>1, <1>2, <1>3, <1>4, <1>5, <1>6 DEF RequestInv

LEMMA OutputStep ==
    ASSUME RequestInv, get_output_key
    PROVE  RequestInv'
<1>0. at = "output" /\ x \in Nat /\ x - RingAge \in Nat /\ x - RingAge <= x
  BY RequestsOK DEF get_output_key, RequestInv, RequestTypes, RequestsOK
<1>1. CASE ~InNode(x - RingAge)
  <2>1. ~InNode(x)
    BY <1>0, <1>1 DEF InNode, RequestInv, RequestTypes, ChainTypes
  <2>2. cuts # 0
    BY <1>0, <2>1 DEF RequestInv, NothingRemoved, HasBlock
  <2>3. QED
    BY <1>0, <1>1, <2>2, ThrowsKeepsRequests DEF get_output_key, RequestInv, MixedStops
<1>2. CASE InNode(x - RingAge)
  <2>1. /\ at' = "mixin" /\ ring' = node[x - RingAge + 1].fork
        /\ UNCHANGED <<node, cuts, x, top, blk, hash, txs, input, blockRows, txRows>>
    BY <1>0, <1>2 DEF get_output_key
  <2>2. RequestTypes'
    BY <2>1 DEF RequestInv, RequestTypes, ChainTypes
  <2>3. BlockStandsOrGone'
    BY <1>0, <2>1, ThreadKeepsNode DEF RequestInv, BlockStandsOrGone, HasBlock
  <2>4. OtherHashIsGone' /\ TxsOfBlock'
    BY <1>0, <2>1 DEF RequestInv, OtherHashIsGone, TxsOfBlock, HasTxs, Coinbase, Spending
  <2>5. RingStandsOrGone'
    BY <1>2, <2>1, ThreadKeepsNode DEF RingStandsOrGone, Stands
  <2>6. LosersAreGone'
    BY <1>0, <2>1, QuietKeepsRows DEF LosersAreGone
  <2>7. RowHeights' /\ MixedStops'
    BY <1>0, <2>1, QuietKeepsRows
  <2>8. NothingRemoved'
    BY <1>0, <2>1, ThreadKeepsNode DEF RequestInv, NothingRemoved, HasBlock
  <2>9. QED
    BY <2>2, <2>3, <2>4, <2>5, <2>6, <2>7, <2>8 DEF RequestInv
<1>3. QED
  BY <1>1, <1>2

\* A ring member whose block is gone has taken the block that spends it with it.
LEMMA MixinStep ==
    ASSUME RequestInv, GetMixin
    PROVE  RequestInv'
<1>0. /\ at = "mixin" /\ at' = "push" /\ input' \in {"kept", "blank"}
      /\ (input' = "blank" => ~Stands(x - RingAge, ring))
      /\ UNCHANGED <<node, cuts, x, top, blk, hash, txs, ring, blockRows, txRows>>
  BY DEF GetMixin, Stands
<1>1. RequestTypes'
  BY <1>0 DEF RequestInv, RequestTypes, ChainTypes, Inputs
<1>2. BlockStandsOrGone'
  BY <1>0, ThreadKeepsNode DEF RequestInv, BlockStandsOrGone, HasBlock
<1>3. OtherHashIsGone' /\ RingStandsOrGone' /\ TxsOfBlock'
  BY <1>0 DEF RequestInv, OtherHashIsGone, RingStandsOrGone, TxsOfBlock, HasTxs, Coinbase, Spending
<1>4. LosersAreGone'
  BY <1>0, QuietKeepsRows, ThreadKeepsNode DEF LosersAreGone, RequestInv, RingStandsOrGone
<1>5. RowHeights' /\ MixedStops'
  BY <1>0, QuietKeepsRows
<1>6. NothingRemoved'
  BY <1>0, ThreadKeepsNode DEF RequestInv, NothingRemoved, HasBlock
<1>7. QED
  BY <1>1, <1>2, <1>3, <1>4, <1>5, <1>6 DEF RequestInv

LEMMA PushTxStep ==
    ASSUME RequestInv, PushTx
    PROVE  RequestInv'
<1> DEFINE r == [height |-> x, tx |-> Head(txs), block |-> blk.fork, input |-> input]
<1>0. /\ at = "push" /\ at' = "find"
      /\ txRows' = Append(txRows, r) /\ txs' = Tail(txs)
      /\ UNCHANGED <<node, cuts, x, top, blk, hash, input, ring, blockRows>>
  BY DEF PushTx
<1>1. txs # << >> /\ txs \in Seq(TxType) /\ txRows \in Seq(TxRowType)
  BY <1>0 DEF RequestInv, RequestTypes, TxsOfBlock, HasTxs
<1>2. x \in Nat /\ blk.fork \in Nat /\ input \in Inputs
  BY DEF RequestInv, RequestTypes, BlockType
<1>3. /\ Len(txs) \in Nat /\ DOMAIN txs = 1 .. Len(txs)
      /\ Head(txs) \in TxType /\ Tail(txs) \in Seq(TxType)
      /\ Len(Tail(txs)) = Len(txs) - 1 /\ \A n \in 1 .. Len(Tail(txs)) : Tail(txs)[n] = txs[n + 1]
  BY <1>1, HeadTailProperties, LenProperties
<1>4. r \in TxRowType
  BY <1>2, <1>3 DEF TxRowType
<1>5. r.height = x /\ r.block = blk.fork /\ r.input = input
  OBVIOUS
<1> HIDE DEF r
<1>6. /\ txRows' \in Seq(TxRowType)
      /\ Len(txRows) \in Nat /\ DOMAIN txRows = 1 .. Len(txRows)
      /\ DOMAIN txRows' = 1 .. Len(txRows) + 1
      /\ \A n \in DOMAIN txRows : txRows'[n] = txRows[n]
      /\ txRows'[Len(txRows) + 1] = r
  BY <1>0, <1>1, <1>4, Grown
<1>7. \A n \in DOMAIN txRows' : n \in DOMAIN txRows \/ txRows'[n] = r
  BY <1>6
<1>8. RequestTypes'
  BY <1>0, <1>3, <1>6 DEF RequestInv, RequestTypes, ChainTypes
<1>9. BlockStandsOrGone'
  BY <1>0, ThreadKeepsNode DEF RequestInv, BlockStandsOrGone, HasBlock
<1>10. OtherHashIsGone' /\ RingStandsOrGone'
  BY <1>0 DEF OtherHashIsGone, RingStandsOrGone
<1>11. TxsOfBlock'
  <2>1. DOMAIN txs' = 1 .. Len(txs')
    BY <1>0, <1>3, LenProperties
  <2>2. \A n \in DOMAIN txs' : n + 1 \in DOMAIN txs /\ txs'[n] = txs[n + 1]
    BY <1>0, <1>3, <2>1
  <2>3. \A n \in DOMAIN txs : txs[n] = Coinbase(blk) \/ (blk.spends /\ txs[n] = Spending)
    BY <1>0 DEF RequestInv, TxsOfBlock, HasTxs
  <2>4. \A n \in DOMAIN txs' : txs'[n] = Coinbase(blk) \/ (blk.spends /\ txs'[n] = Spending)
    BY <2>2, <2>3
  <2>5. QED
    BY <1>0, <2>4 DEF TxsOfBlock, Coinbase, Spending
<1>12. RowHeights'
  <2>1. \A n \in DOMAIN txRows' : txRows'[n].height <= x
    BY <1>2, <1>5, <1>6, <1>7 DEF RequestInv, RowHeights
  <2>2. QED
    BY <1>0, <2>1 DEF RowHeights
<1>13. LosersAreGone'
  <2>1. \A n \in DOMAIN txRows' : txRows'[n].input \in {"dropped", "blank"} =>
            Gone(txRows'[n].height, txRows'[n].block)
    BY <1>0, <1>5, <1>6, <1>7 DEF RequestInv, LosersAreGone
  <2>2. QED
    BY <1>0, <2>1, ThreadKeepsNode DEF LosersAreGone
<1>14. MixedStops'
  <2>1. \A k \in DOMAIN blockRows : blockRows[k].hash = blockRows[k].block
    BY <1>0 DEF RequestInv, MixedStops
  <2>2. QED
    BY <1>0, <2>1 DEF MixedStops
<1>15. NothingRemoved'
  BY <1>0, ThreadKeepsNode DEF RequestInv, NothingRemoved, HasBlock
<1>16. QED
  BY <1>8, <1>9, <1>10, <1>11, <1>12, <1>13, <1>14, <1>15 DEF RequestInv

\* The range goes on only after the last transaction of the block was pushed.
LEMMA NextHeightStep ==
    ASSUME RequestInv, NextHeight
    PROVE  RequestInv'
<1>0. /\ at = "find" /\ txs = << >> /\ at' \in {"height", "done"}
      /\ x' \in {x, x + 1} /\ (at' = "height" => x' = x + 1)
      /\ UNCHANGED <<node, cuts, top, blk, hash, txs, input, ring, blockRows, txRows>>
      /\ x \in Nat
  BY DEF NextHeight, RequestInv, RequestTypes
<1>1. RequestTypes'
  BY <1>0, RequestsOK DEF RequestInv, RequestTypes, ChainTypes, RequestsOK
<1>2. BlockStandsOrGone' /\ OtherHashIsGone' /\ TxsOfBlock' /\ RingStandsOrGone'
  BY <1>0 DEF BlockStandsOrGone, OtherHashIsGone, TxsOfBlock, RingStandsOrGone, HasBlock, HasTxs
<1>3. RowHeights'
  <2>1. txRows \in Seq(TxRowType)
    BY DEF RequestInv, RequestTypes
  <2>2. \A n \in DOMAIN txRows : txRows[n] \in TxRowType
    BY <2>1, LenProperties, ElementOfSeq
  <2>3. \A n \in DOMAIN txRows : txRows[n].height \in Nat /\ txRows[n].height <= x
    BY <2>2 DEF TxRowType, RequestInv, RowHeights
  <2>4. QED
    BY <1>0, <2>3 DEF RowHeights
<1>4. LosersAreGone'
  BY <1>0, ThreadKeepsNode DEF RequestInv, LosersAreGone
<1>5. MixedStops'
  BY <1>0 DEF RequestInv, MixedStops
<1>6. NothingRemoved'
  BY <1>0 DEF RequestInv, NothingRemoved, HasBlock
<1>7. QED
  BY <1>1, <1>2, <1>3, <1>4, <1>5, <1>6 DEF RequestInv

LEMMA RequestsStart == RequestsInit => RequestInv
<1> SUFFICES ASSUME RequestsInit PROVE RequestInv
  OBVIOUS
<1>0. /\ cuts = 0 /\ at = "height" /\ x = First /\ top = 0 /\ blk = Block(0, FALSE) /\ hash = -1
      /\ txs = << >> /\ input = "none" /\ ring = null /\ blockRows = << >> /\ txRows = << >>
      /\ First \in Nat /\ InitialHeight \in Nat
      /\ node \in [1 .. InitialHeight -> {Block(0, spends) : spends \in BOOLEAN}]
  BY RequestsOK DEF RequestsInit, RequestsOK, null
<1>1. \A b \in {Block(0, spends) : spends \in BOOLEAN} : b \in BlockType /\ b.fork = 0
  BY DEF Block, BlockType
<1>2. node \in Seq(BlockType) /\ DOMAIN node = 1 .. InitialHeight /\ Len(node) = InitialHeight
  <2>1. node \in [1 .. InitialHeight -> BlockType]
    BY <1>0, <1>1
  <2>2. QED
    BY <1>0, <2>1, SeqDef, LenProperties
<1>3. ChainTypes
  BY <1>0, <1>1, <1>2 DEF ChainTypes
<1>4. Block(0, FALSE) \in BlockType /\ Block(0, FALSE).fork = 0
  BY DEF Block, BlockType
<1>5. RequestTypes
  <2>1. txs \in Seq(TxType) /\ blockRows \in Seq(BlockRowType) /\ txRows \in Seq(TxRowType)
    BY <1>0, EmptySeq
  <2>2. x \in Nat /\ First <= x /\ top \in Nat /\ hash \in Int /\ input \in Inputs
    BY <1>0 DEF Inputs
  <2>3. blk \in BlockType /\ blk.fork = 0 /\ cuts = 0
    BY <1>0, <1>4
  <2>4. QED
    BY <1>3, <2>1, <2>2, <2>3 DEF RequestTypes
<1>6. BlockStandsOrGone /\ OtherHashIsGone /\ TxsOfBlock /\ RingStandsOrGone
  BY <1>0 DEF BlockStandsOrGone, OtherHashIsGone, TxsOfBlock, RingStandsOrGone, HasBlock, HasTxs
<1>7. RowHeights /\ LosersAreGone /\ MixedStops
  BY <1>0 DEF RowHeights, LosersAreGone, MixedStops
<1>8. NothingRemoved
  BY <1>0, <1>2 DEF NothingRemoved, HasBlock
<1>9. QED
  BY <1>5, <1>6, <1>7, <1>8 DEF RequestInv

LEMMA RequestsStep == RequestInv /\ [RequestsNext]_requestVars => RequestInv'
<1> SUFFICES ASSUME RequestInv, [RequestsNext]_requestVars PROVE RequestInv'
  OBVIOUS
<1>1. CASE UNCHANGED requestVars
  BY <1>1 DEF requestVars, askedVars, RequestInv, RequestTypes, ChainTypes, BlockStandsOrGone,
     OtherHashIsGone, TxsOfBlock, RowHeights, RingStandsOrGone, LosersAreGone, MixedStops,
     NothingRemoved, Stands, Gone, InNode, Coinbase, Spending
<1>2. CASE NodeAppends \/ NodeCuts
  BY <1>2, NodeKeepsRequests
<1>3. CASE AskNode
  BY <1>3, GetHeightStep, GetBlockStep, GetHashStep, AnswerStep, FindTxStep, OffsetsStep,
     OutputStep, MixinStep, PushTxStep, NextHeightStep DEF AskNode
<1>4. QED
  BY <1>1, <1>2, <1>3 DEF RequestsNext

\* What the parser has read stood in the chain when it was asked for, and what has left the
\* chain since never comes back under the same fork (json_block and
\* json_detailedtransaction of page.h).
THEOREM RequestsInvariant == RequestsSpec => []RequestInv
BY RequestsStart, RequestsStep, PTL DEF RequestsSpec

\* The program ends early only when a block was removed from the chain or when the
\* range goes on past it (json_block of page.h, the at() of parser.h).
THEOREM OnlyRemovalsEndIt == RequestsSpec => []OnlyRemovedBlocksEndIt
<1>1. RequestInv => OnlyRemovedBlocksEndIt
  BY DEF RequestInv, NothingRemoved, OnlyRemovedBlocksEndIt
<1>2. QED
  BY <1>1, RequestsInvariant, PTL

\* A block row with the hash of the block's replacement is the last row the program
\* pushes: no transaction of its height follows (parser.h, json_block of page.h).
THEOREM NothingFollowsAMixedBlock == RequestsSpec => []MixedBlockIsTheLast
<1>1. RequestInv => MixedBlockIsTheLast
  BY DEF RequestInv, MixedStops, MixedBlockIsTheLast
<1>2. QED
  BY <1>1, RequestsInvariant, PTL

\* A transaction loses an input, or the block of a ring member, only when its own block
\* has left the chain, and it never comes back (construct_tx_context and
\* json_detailedtransaction of page.h).
THEOREM StandingBlocksKeepInputs == RequestsSpec => []OnlyOrphansLoseInputs
<1>1. RequestInv => OnlyOrphansLoseInputs
  BY DEF RequestInv, LosersAreGone, OnlyOrphansLoseInputs, Gone, Stands
<1>2. QED
  BY <1>1, RequestsInvariant, PTL
-----------------------------------------------------------------------------
(* OutputSearch.                                                           *)

CopyType   == [txs : SUBSET OurTxs, known : SUBSET OurTxs, rewinds : Nat]
OutputType == [tx : OurTxs, in_mempool : BOOLEAN, block_no : Int]
SearchType ==
    [step : {"none", "pool", "height", "block", "txs", "no block", "undecoded"},
     in_mempool : BOOLEAN, height : Nat, start_height : Nat, block_no : Int,
     blk : SUBSET OurTxs, outputs : SUBSET OutputType, copy : CopyType, asked : Nat]
SearchTypes ==
    /\ ledger \in Seq(SUBSET OurTxs) /\ nodePool \in SUBSET OurTxs /\ rewinds \in Nat
    /\ undecodable \in SUBSET OurTxs
    /\ fetched \in CopyType /\ poolCopy \in CopyType
    /\ search \in SearchType

\* A transaction is in the pool or in one block, once.
TxsAreOnce ==
    /\ \A n \in DOMAIN ledger : ledger[n] \cap nodePool = {}
    /\ \A m, n \in DOMAIN ledger : m # n => ledger[m] \cap ledger[n] = {}

\* What the node knew when the copy was made is in the copy or, while no block is removed, in
\* the chain.
CopyCovers(c) ==
    /\ c.rewinds <= rewinds
    /\ c.rewinds = rewinds => c.known \subseteq c.txs \cup Mined

Found == {o.tx : o \in search.outputs}
Searching == search.step \in {"block", "txs"}

SearchStarts ==
    /\ search.asked <= rewinds
    /\ search.step \in {"none", "pool"} => search.outputs = {} /\ search.block_no = 0
    /\ search.step = "height" => search.block_no = 0
    /\ search.step = "height" => \A o \in search.outputs : o.in_mempool
    /\ \A o \in search.outputs : o.in_mempool => o.block_no = 0
SearchRange ==
    /\ Searching => /\ search.start_height = firstBlock(search.height)
                    /\ search.block_no <= endBlock(search.height)
    /\ search.step = "txs" => search.block_no >= search.start_height
PoolFound ==
    search.in_mempool /\ search.step \in {"height", "block", "txs"} => search.copy.txs \subseteq Found

\* What is not in the copy is in the blocks below the height that was read after it.
KnownIsBelow ==
    rewinds = search.copy.rewinds /\ Searching =>
        \A tx \in search.copy.known \ search.copy.txs :
            \E n \in DOMAIN ledger : n <= search.height /\ tx \in ledger[n]

\* While no block is removed, the blocks are those that were read.
BlocksAsRead ==
    rewinds \in {search.asked, search.copy.rewinds} =>
        /\ Searching => search.height <= Len(ledger)
        /\ search.step = "txs" => /\ search.block_no + 1 \in DOMAIN ledger
                                  /\ search.blk = ledger[search.block_no + 1]
        /\ Searching => \A n \in DOMAIN ledger :
              search.block_no < n - 1 /\ n <= search.height => ledger[n] \subseteq Found
        /\ search.step = "no block" => search.height < LastBlocks
        /\ \A o \in search.outputs : ~o.in_mempool =>
              o.block_no + 1 \in DOMAIN ledger /\ o.tx \in ledger[o.block_no + 1]

SearchInv ==
    /\ SearchTypes /\ TxsAreOnce
    /\ CopyCovers(fetched) /\ CopyCovers(poolCopy) /\ CopyCovers(search.copy)
    /\ SearchStarts /\ SearchRange /\ PoolFound /\ KnownIsBelow /\ BlocksAsRead

LEMMA SearchStartsWell == SearchInit => SearchInv
<1> SUFFICES ASSUME SearchInit PROVE SearchInv
  OBVIOUS
<1>1. NoCopy \in CopyType /\ NoCopy.known = {} /\ NoCopy.rewinds = 0 /\ NoCopy.txs = {}
  BY DEF NoCopy, CopyType
<1>2. /\ search.step = "none" /\ search.outputs = {} /\ search.block_no = 0 /\ search.asked = 0
      /\ search.in_mempool = FALSE /\ search.copy = NoCopy
  BY DEF SearchInit, NoSearch
<1>3. PICK h \in ShortLedgers : ledger = [n \in 1 .. h |-> {}]
  BY DEF SearchInit
<1>4. h \in Nat
  BY SearchOK DEF SearchOK
<1>5. ledger \in Seq(SUBSET OurTxs) /\ DOMAIN ledger = 1 .. h
  BY <1>3, <1>4, SeqDef
<1>6. SearchTypes
  BY <1>1, <1>5 DEF SearchTypes, SearchInit, NoSearch, SearchType
<1>7. TxsAreOnce
  BY <1>3, <1>5 DEF TxsAreOnce
<1>8. CopyCovers(fetched) /\ CopyCovers(poolCopy) /\ CopyCovers(search.copy)
  BY <1>1, <1>2 DEF CopyCovers, SearchInit
<1>9. SearchStarts /\ SearchRange /\ PoolFound /\ KnownIsBelow /\ BlocksAsRead
  BY <1>2 DEF SearchStarts, SearchRange, PoolFound, KnownIsBelow, BlocksAsRead, Searching, SearchInit
<1>10. QED
  BY <1>6, <1>7, <1>8, <1>9 DEF SearchInv

\* The chain is a sequence of sets of transactions.
LEMMA LedgerShape ==
    ASSUME SearchTypes
    PROVE  /\ ledger \in Seq(SUBSET OurTxs)
           /\ Len(ledger) \in Nat /\ DOMAIN ledger = 1 .. Len(ledger)
           /\ \A n \in DOMAIN ledger : ledger[n] \subseteq OurTxs
           /\ \A tx : tx \in Mined <=> \E n \in DOMAIN ledger : tx \in ledger[n]
<1>1. ledger \in Seq(SUBSET OurTxs)
  BY DEF SearchTypes
<1>2. Len(ledger) \in Nat /\ DOMAIN ledger = 1 .. Len(ledger)
      /\ \A n \in DOMAIN ledger : ledger[n] \in SUBSET OurTxs
  BY <1>1, LenProperties, ElementOfSeq
<1>3. \A tx : tx \in Mined <=> \E n \in DOMAIN ledger : tx \in ledger[n]
  BY DEF Mined
<1>4. QED
  BY <1>1, <1>2, <1>3

\* What a step of the node that removes no block keeps: the chain as far as it went.
LEMMA ChainGrows ==
    ASSUME SearchInv, SearchTypes', TxsAreOnce', UNCHANGED <<rewinds, fetched, poolCopy, search>>,
           \A n \in DOMAIN ledger : n \in DOMAIN ledger' /\ ledger'[n] = ledger[n],
           \A n \in DOMAIN ledger' \ DOMAIN ledger : n > Len(ledger), Len(ledger') >= Len(ledger)
    PROVE  SearchInv'
<1>1. \A tx \in Mined : tx \in Mined'
  BY DEF Mined
<1>2. CopyCovers(fetched)' /\ CopyCovers(poolCopy)' /\ CopyCovers(search.copy)'
  BY <1>1 DEF SearchInv, CopyCovers
<1>3. SearchStarts' /\ SearchRange' /\ PoolFound' /\ KnownIsBelow'
  BY DEF SearchInv, SearchStarts, SearchRange, PoolFound, KnownIsBelow, Searching, Found,
     firstBlock, endBlock
<1>4. BlocksAsRead'
  <2>1. Len(ledger) \in Nat /\ Len(ledger') \in Nat /\ search.height \in Nat
        /\ DOMAIN ledger = 1 .. Len(ledger) /\ DOMAIN ledger' = 1 .. Len(ledger')
    BY LedgerShape, LenProperties DEF SearchInv, SearchTypes, SearchType
  <2>2. CASE rewinds \notin {search.asked, search.copy.rewinds}
    BY <2>2 DEF BlocksAsRead
  <2>3. CASE rewinds \in {search.asked, search.copy.rewinds}
    <3>0. Searching => search.height <= Len(ledger)
      BY <2>3 DEF SearchInv, BlocksAsRead
    <3>1. Searching => search.height <= Len(ledger')
      BY <2>1, <3>0
    <3>2. search.step = "txs" => /\ search.block_no + 1 \in DOMAIN ledger'
                                /\ search.blk = ledger'[search.block_no + 1]
      BY <2>3 DEF SearchInv, BlocksAsRead
    <3>3. \A n \in DOMAIN ledger' : n <= search.height /\ Searching => n \in DOMAIN ledger
      BY <2>1, <3>0
    <3>4. Searching => \A n \in DOMAIN ledger' :
              search.block_no < n - 1 /\ n <= search.height => ledger'[n] \subseteq Found
      BY <2>3, <3>3 DEF SearchInv, BlocksAsRead
    <3>5. /\ search.step = "no block" => search.height < LastBlocks
          /\ \A o \in search.outputs : ~o.in_mempool =>
                o.block_no + 1 \in DOMAIN ledger' /\ o.tx \in ledger'[o.block_no + 1]
      BY <2>3 DEF SearchInv, BlocksAsRead
    <3>6. QED
      BY <3>1, <3>2, <3>4, <3>5 DEF BlocksAsRead, Searching, Found
  <2>4. QED
    BY <2>2, <2>3
<1>5. QED
  BY <1>2, <1>3, <1>4 DEF SearchInv

LEMMA PoolStep ==
    ASSUME SearchInv, TxArrives \/ TxExpires
    PROVE  SearchInv'
<1>1. UNCHANGED <<undecodable, ledger, rewinds, fetched, poolCopy, search>>
  BY DEF TxArrives, TxExpires
<1>2. nodePool' \in SUBSET OurTxs /\ \A tx \in nodePool' : tx \in nodePool \/ tx \notin Mined
  BY DEF TxArrives, TxExpires, SearchInv, SearchTypes
<1>3. SearchTypes'
  BY <1>1, <1>2 DEF SearchInv, SearchTypes
<1>4. TxsAreOnce'
  BY <1>1, <1>2 DEF SearchInv, TxsAreOnce, Mined
<1>5. Len(ledger) \in Nat
  BY LedgerShape DEF SearchInv
<1>6. QED
  BY <1>1, <1>3, <1>4, <1>5, ChainGrows

LEMMA MinedStep ==
    ASSUME SearchInv, BlockMined
    PROVE  SearchInv'
<1>1. UNCHANGED <<undecodable, rewinds, fetched, poolCopy, search>>
  BY DEF BlockMined
<1>2. PICK S \in SUBSET nodePool : ledger' = Append(ledger, S) /\ nodePool' = nodePool \ S
  BY DEF BlockMined
<1>3. S \in SUBSET OurTxs /\ ledger \in Seq(SUBSET OurTxs)
  BY <1>2 DEF SearchInv, SearchTypes
<1>4. /\ ledger' \in Seq(SUBSET OurTxs)
      /\ Len(ledger) \in Nat /\ DOMAIN ledger = 1 .. Len(ledger)
      /\ Len(ledger') = Len(ledger) + 1 /\ DOMAIN ledger' = 1 .. Len(ledger) + 1
      /\ \A n \in 1 .. Len(ledger) : ledger'[n] = ledger[n]
      /\ ledger'[Len(ledger) + 1] = S
  BY <1>2, <1>3, Grown
<1>5. SearchTypes'
  BY <1>1, <1>2, <1>4 DEF SearchInv, SearchTypes
<1>6. TxsAreOnce'
  <2>1. \A n \in DOMAIN ledger' :
            (n \in DOMAIN ledger /\ ledger'[n] = ledger[n]) \/ (n = Len(ledger) + 1 /\ ledger'[n] = S)
    BY <1>4
  <2>2. QED
    BY <1>2, <2>1 DEF SearchInv, TxsAreOnce
<1>7. QED
  BY <1>1, <1>4, <1>5, <1>6, ChainGrows

\* After blocks were removed nothing is promised of what was read before.
LEMMA RewoundStep ==
    ASSUME SearchInv, BlocksRewound
    PROVE  SearchInv'
<1>1. UNCHANGED <<undecodable, fetched, poolCopy, search>> /\ rewinds' = rewinds + 1 /\ rewinds \in Nat
  BY DEF BlocksRewound, SearchInv, SearchTypes
<1>2. PICK n \in 1 .. Rewound :
          /\ n < Len(ledger)
          /\ ledger' = SubSeq(ledger, 1, Len(ledger) - n)
          /\ nodePool' = nodePool \cup UNION {ledger[k] : k \in Len(ledger) - n + 1 .. Len(ledger)}
  BY DEF BlocksRewound
<1>3. /\ ledger \in Seq(SUBSET OurTxs) /\ Len(ledger) \in Nat /\ DOMAIN ledger = 1 .. Len(ledger)
      /\ \A k \in DOMAIN ledger : ledger[k] \subseteq OurTxs
  BY LedgerShape DEF SearchInv
<1>a. n \in Nat /\ n < Len(ledger) /\ Len(ledger) \in Nat
  BY <1>2, <1>3, SearchOK DEF SearchOK
<1>4. PICK m \in 0 .. Len(ledger) : m = Len(ledger) - n
  BY <1>a
<1>5. /\ ledger' \in Seq(SUBSET OurTxs) /\ DOMAIN ledger' = 1 .. m
      /\ \A k \in 1 .. m : ledger'[k] = ledger[k] /\ k \in DOMAIN ledger
  BY <1>2, <1>3, <1>4, CutShort
<1>6. \A tx \in nodePool' : tx \in nodePool \/ \E k \in DOMAIN ledger : k > m /\ tx \in ledger[k]
  <2>1. \A k \in m + 1 .. Len(ledger) : k \in DOMAIN ledger /\ k > m
    BY <1>3, <1>4
  <2>2. QED
    BY <1>2, <1>4, <2>1
<1>7. SearchTypes'
  <2>1. nodePool' \subseteq OurTxs
    BY <1>3, <1>6 DEF SearchInv, SearchTypes
  <2>2. rewinds' \in Nat
    BY <1>1
  <2>3. QED
    BY <1>1, <1>5, <2>1, <2>2 DEF SearchInv, SearchTypes
<1>8. TxsAreOnce'
  <2>1. \A k \in DOMAIN ledger' : ledger'[k] \cap nodePool' = {}
    <3>1. \A k \in 1 .. m, l \in DOMAIN ledger : l > m => ledger[k] \cap ledger[l] = {}
      <4>1. \A k \in 1 .. m, l \in DOMAIN ledger : l > m => k # l /\ k \in DOMAIN ledger
        BY <1>3, <1>4
      <4>2. QED
        BY <4>1 DEF SearchInv, TxsAreOnce
    <3>2. QED
      BY <1>5, <1>6, <3>1 DEF SearchInv, TxsAreOnce
  <2>2. \A k, l \in DOMAIN ledger' : k # l => ledger'[k] \cap ledger'[l] = {}
    BY <1>5 DEF SearchInv, TxsAreOnce
  <2>3. QED
    BY <2>1, <2>2 DEF TxsAreOnce
<1>9. /\ fetched.rewinds \in Nat /\ poolCopy.rewinds \in Nat /\ search.copy.rewinds \in Nat
      /\ search.asked \in Nat /\ search.asked <= rewinds
      /\ fetched.rewinds <= rewinds /\ poolCopy.rewinds <= rewinds /\ search.copy.rewinds <= rewinds
  BY DEF SearchInv, SearchTypes, SearchType, CopyType, CopyCovers, SearchStarts
<1>10. CopyCovers(fetched)' /\ CopyCovers(poolCopy)' /\ CopyCovers(search.copy)'
  BY <1>1, <1>9 DEF CopyCovers
<1>11. SearchStarts' /\ SearchRange' /\ PoolFound'
  BY <1>1, <1>9 DEF SearchInv, SearchStarts, SearchRange, PoolFound, Searching, Found,
     firstBlock, endBlock
<1>12. KnownIsBelow' /\ BlocksAsRead'
  <2>1. rewinds' \notin {search'.asked, search'.copy.rewinds}
    BY <1>1, <1>9
  <2>2. QED
    BY <2>1 DEF KnownIsBelow, BlocksAsRead
<1>13. QED
  BY <1>7, <1>8, <1>10, <1>11, <1>12 DEF SearchInv

LEMMA CopyStep ==
    ASSUME SearchInv, FetchPool \/ PublishPool
    PROVE  SearchInv'
<1>1. UNCHANGED <<undecodable, ledger, rewinds, nodePool, search>>
  BY DEF FetchPool, PublishPool, nodeSide
<1>2. /\ fetched' \in CopyType /\ poolCopy' \in CopyType
      /\ CopyCovers(fetched)' /\ CopyCovers(poolCopy)'
  <2>1. CASE FetchPool
    <3>1. /\ fetched' = [txs |-> nodePool, known |-> nodePool \cup Mined, rewinds |-> rewinds]
          /\ poolCopy' = poolCopy
      BY <2>1 DEF FetchPool
    <3>2. Mined \subseteq OurTxs
      BY LedgerShape DEF SearchInv
    <3>3. fetched' \in CopyType
      BY <3>1, <3>2 DEF SearchInv, SearchTypes, CopyType
    <3>4. CopyCovers(fetched)'
      <4>0. Mined' = Mined
        BY <1>1 DEF Mined
      <4>n. rewinds \in Nat /\ fetched'.rewinds = rewinds
        BY <3>1 DEF SearchInv, SearchTypes
      <4>1. fetched'.rewinds <= rewinds'
        BY <1>1, <4>n
      <4>2. fetched'.known \subseteq fetched'.txs \cup Mined
        BY <3>1
      <4>3. QED
        BY <4>0, <4>1, <4>2 DEF CopyCovers
    <3>5. CopyCovers(poolCopy)'
      BY <1>1, <3>1 DEF SearchInv, CopyCovers, Mined
    <3>6. QED
      BY <3>1, <3>3, <3>4, <3>5 DEF SearchInv, SearchTypes
  <2>2. CASE PublishPool
    <3>1. fetched' = fetched /\ poolCopy' = fetched /\ Mined' = Mined
      BY <1>1, <2>2 DEF PublishPool, Mined
    <3>2. fetched \in CopyType
      BY DEF SearchInv, SearchTypes
    <3>3. CopyCovers(fetched)'
      BY <1>1, <3>1 DEF SearchInv, CopyCovers
    <3>4. CopyCovers(poolCopy)'
      BY <1>1, <3>1 DEF SearchInv, CopyCovers
    <3>5. QED
      BY <3>1, <3>2, <3>3, <3>4
  <2>3. QED
    BY <2>1, <2>2
<1>3. SearchTypes'
  BY <1>1, <1>2 DEF SearchInv, SearchTypes
<1>4. CopyCovers(search.copy)' /\ TxsAreOnce'
  BY <1>1 DEF SearchInv, CopyCovers, Mined, TxsAreOnce
<1>5. SearchStarts' /\ SearchRange' /\ PoolFound' /\ KnownIsBelow' /\ BlocksAsRead'
  BY <1>1 DEF SearchInv, SearchStarts, SearchRange, PoolFound, KnownIsBelow, BlocksAsRead,
     Searching, Found, firstBlock, endBlock
<1>6. QED
  BY <1>2, <1>3, <1>4, <1>5 DEF SearchInv

\* What a step of the search leaves alone.
LEMMA SearchLeaves ==
    ASSUME SearchInv, SearchOnly, search' \in SearchType
    PROVE  /\ SearchTypes' /\ TxsAreOnce' /\ CopyCovers(fetched)' /\ CopyCovers(poolCopy)'
           /\ UNCHANGED <<undecodable, ledger, rewinds, nodePool, fetched, poolCopy>> /\ Mined' = Mined
           /\ (CopyCovers(search.copy)' <=> CopyCovers(search'.copy))
           /\ rewinds \in Nat /\ search \in SearchType
<1>1. UNCHANGED <<undecodable, ledger, rewinds, nodePool, fetched, poolCopy>> /\ Mined' = Mined
  BY DEF SearchOnly, nodeSide, Mined
<1>2. SearchTypes' /\ rewinds \in Nat /\ search \in SearchType
  BY <1>1 DEF SearchInv, SearchTypes
<1>3. TxsAreOnce'
  BY <1>1 DEF SearchInv, TxsAreOnce
<1>4. CopyCovers(fetched)' /\ CopyCovers(poolCopy)' /\ (CopyCovers(search.copy)' <=> CopyCovers(search'.copy))
  BY <1>1 DEF SearchInv, CopyCovers
<1>5. QED
  BY <1>1, <1>2, <1>3, <1>4

LEMMA FoundOutputs ==
    ASSUME NEW pg \in SearchType, NEW S \in SUBSET OurTxs, NEW pooled \in BOOLEAN,
           NEW r, r = find_our_outputs(pg, S, pooled)
    PROVE  /\ r \in SearchType
           /\ r.in_mempool = pg.in_mempool /\ r.height = pg.height
           /\ r.start_height = pg.start_height /\ r.block_no = pg.block_no
           /\ r.blk = pg.blk /\ r.copy = pg.copy /\ r.asked = pg.asked
           /\ \/ r.step = "undecoded" /\ r.outputs = pg.outputs
              \/ /\ r.step = pg.step
                 /\ \A o : o \in r.outputs <=>
                      \/ o \in pg.outputs
                      \/ \E tx \in S : o = [tx |-> tx, in_mempool |-> pooled, block_no |-> pg.block_no]
<1>1. CASE S \cap undecodable # {}
  BY <1>1 DEF find_our_outputs, SearchType
<1>2. CASE S \cap undecodable = {}
  <2> DEFINE new == {[tx |-> tx, in_mempool |-> pooled, block_no |-> pg.block_no] : tx \in S}
  <2>1. r = [pg EXCEPT !.outputs = pg.outputs \cup new]
    BY <1>2 DEF find_our_outputs
  <2>2. new \in SUBSET OutputType
    <3>1. pg.block_no \in Int
      BY DEF SearchType
    <3>2. \A tx \in S : [tx |-> tx, in_mempool |-> pooled, block_no |-> pg.block_no] \in OutputType
      BY <3>1 DEF OutputType
    <3>3. QED
      BY <3>2
  <2> HIDE DEF new
  <2>3. pg.outputs \cup new \in SUBSET OutputType
    BY <2>2 DEF SearchType
  <2>4. /\ r \in SearchType /\ r.outputs = pg.outputs \cup new /\ r.step = pg.step
        /\ r.in_mempool = pg.in_mempool /\ r.height = pg.height
        /\ r.start_height = pg.start_height /\ r.block_no = pg.block_no
        /\ r.blk = pg.blk /\ r.copy = pg.copy /\ r.asked = pg.asked
    BY <2>1, <2>3 DEF SearchType
  <2>5. \A o : o \in new <=>
            \E tx \in S : o = [tx |-> tx, in_mempool |-> pooled, block_no |-> pg.block_no]
    BY DEF new
  <2>6. QED
    BY <2>4, <2>5
<1>3. QED
  BY <1>1, <1>2

LEMMA AskStep ==
    ASSUME SearchInv, AskForOutputs
    PROVE  SearchInv'
<1>1. NoCopy \in CopyType /\ NoCopy.known = {} /\ NoCopy.rewinds = 0 /\ NoCopy.txs = {}
  BY DEF NoCopy, CopyType
<1>2. rewinds \in Nat /\ SearchOnly
  BY DEF SearchInv, SearchTypes, AskForOutputs
<1>3. NoSearch \in SearchType
  BY <1>1 DEF NoSearch, SearchType
<1>4. /\ search' \in SearchType /\ search'.step \in {"pool", "height"} /\ search'.outputs = {}
      /\ (search'.in_mempool => search'.step = "pool")
      /\ search'.block_no = 0 /\ search'.asked = rewinds /\ search'.copy = NoCopy
  <2>1. PICK p \in BOOLEAN :
            search' = [NoSearch EXCEPT !.step = IF p THEN "pool" ELSE "height",
                                       !.in_mempool = p, !.asked = rewinds]
    BY DEF AskForOutputs
  <2>2. search' \in SearchType
    BY <1>2, <1>3, <2>1 DEF SearchType
  <2>3. /\ search'.step \in {"pool", "height"} /\ (search'.in_mempool => search'.step = "pool")
        /\ search'.asked = rewinds
    BY <2>1 DEF NoSearch
  <2>4. search'.outputs = {} /\ search'.block_no = 0 /\ search'.copy = NoCopy
    BY <2>1 DEF NoSearch
  <2>5. QED
    BY <2>2, <2>3, <2>4
<1>5. CopyCovers(search'.copy)
  BY <1>1, <1>2, <1>4 DEF CopyCovers
<1>6. SearchStarts' /\ SearchRange' /\ PoolFound' /\ KnownIsBelow' /\ BlocksAsRead'
  <2>1. search'.asked <= rewinds'
    BY <1>2, <1>4, SearchLeaves
  <2>2. SearchStarts'
    BY <1>4, <2>1 DEF SearchStarts
  <2>3. SearchRange' /\ KnownIsBelow'
    BY <1>4 DEF SearchRange, KnownIsBelow, Searching
  <2>4. PoolFound'
    BY <1>1, <1>4 DEF PoolFound
  <2>5. BlocksAsRead'
    BY <1>4 DEF BlocksAsRead, Searching
  <2>6. QED
    BY <2>2, <2>3, <2>4, <2>5
<1>7. QED
  BY <1>2, <1>4, <1>5, <1>6, SearchLeaves DEF SearchInv

LEMMA SearchPoolStep ==
    ASSUME SearchInv, SearchPool
    PROVE  SearchInv'
<1>1. PICK pg : pg = [search EXCEPT !.step = "height", !.copy = poolCopy]
  OBVIOUS
<1>2. /\ search.step = "pool" /\ SearchOnly /\ search \in SearchType /\ poolCopy \in CopyType
      /\ poolCopy.txs \in SUBSET OurTxs
      /\ search' = find_our_outputs(pg, poolCopy.txs, TRUE)
  BY <1>1 DEF SearchPool, SearchInv, SearchTypes, CopyType
<1>3. /\ pg \in SearchType /\ pg.step = "height" /\ pg.copy = poolCopy /\ pg.outputs = {}
      /\ pg.block_no = 0 /\ pg.asked = search.asked
  BY <1>1, <1>2 DEF SearchType, SearchInv, SearchStarts
<1>4. /\ search' \in SearchType
      /\ search'.block_no = 0 /\ search'.copy = poolCopy /\ search'.asked = search.asked
      /\ \/ search'.step = "undecoded" /\ search'.outputs = {}
         \/ /\ search'.step = "height"
            /\ \A o : o \in search'.outputs <=>
                 \E tx \in poolCopy.txs : o = [tx |-> tx, in_mempool |-> TRUE, block_no |-> 0]
  <2>a. PICK S \in SUBSET OurTxs, pooled \in BOOLEAN : S = poolCopy.txs /\ pooled = TRUE
    BY <1>2
  <2>b. PICK r : r = search'
    OBVIOUS
  <2>1. /\ S = poolCopy.txs /\ pooled = TRUE /\ r = search'
        /\ r = find_our_outputs(pg, S, pooled)
    BY <1>2, <2>a, <2>b
  <2>2. pg \in SearchType /\ r = find_our_outputs(pg, S, pooled)
    BY <1>3, <2>1
  <2>3. /\ r \in SearchType /\ r.block_no = pg.block_no /\ r.copy = pg.copy /\ r.asked = pg.asked
    BY <2>2, FoundOutputs
  <2>4. \/ r.step = "undecoded" /\ r.outputs = pg.outputs
        \/ /\ r.step = pg.step
           /\ \A o : o \in r.outputs <=>
                \/ o \in pg.outputs
                \/ \E tx \in S : o = [tx |-> tx, in_mempool |-> pooled, block_no |-> pg.block_no]
    BY <2>2, FoundOutputs
  <2>5. QED
    BY <1>3, <2>1, <2>3, <2>4
<1>5. CopyCovers(search'.copy)
  BY <1>4 DEF SearchInv
<1>6. \A o \in search'.outputs : o.in_mempool /\ o.block_no = 0
  BY <1>4
<1>7. search'.step = "height" => poolCopy.txs \subseteq {o.tx : o \in search'.outputs}
  <2> SUFFICES ASSUME search'.step = "height", NEW tx \in poolCopy.txs
               PROVE  tx \in {o.tx : o \in search'.outputs}
    OBVIOUS
  <2>1. [tx |-> tx, in_mempool |-> TRUE, block_no |-> 0] \in search'.outputs
    BY <1>4
  <2>2. QED
    BY <2>1
<1>8. SearchStarts' /\ SearchRange' /\ PoolFound' /\ KnownIsBelow' /\ BlocksAsRead'
  <2>1. search'.asked <= rewinds'
    BY <1>2, <1>4, SearchLeaves DEF SearchInv, SearchStarts
  <2>2. SearchStarts' /\ SearchRange' /\ KnownIsBelow'
    BY <1>4, <1>6, <2>1 DEF SearchStarts, SearchRange, KnownIsBelow, Searching
  <2>3. PoolFound'
    BY <1>4, <1>7 DEF PoolFound, Found
  <2>4. BlocksAsRead'
    BY <1>4, <1>6 DEF BlocksAsRead, Searching
  <2>5. QED
    BY <2>2, <2>3, <2>4
<1>9. QED
  BY <1>2, <1>4, <1>5, <1>8, SearchLeaves DEF SearchInv

\* The first block that is asked for is the top one, or one above it.
LEMMA BlockRange ==
    ASSUME NEW h \in Nat
    PROVE  /\ firstBlock(h) \in Nat /\ endBlock(h) \in Int /\ endBlock(h) >= h - 1
           /\ firstBlock(h) = 0 \/ firstBlock(h) = h - LastBlocks
           /\ h >= LastBlocks => endBlock(h) = h - 1
<1>1. LastBlocks \in Nat
  BY SearchOK DEF SearchOK
<1>2. CASE h < LastBlocks
  BY <1>1, <1>2 DEF firstBlock, endBlock
<1>3. CASE h >= LastBlocks
  <2>1. firstBlock(h) = h - LastBlocks
    BY <1>1, <1>3 DEF firstBlock
  <2>2. QED
    BY <1>1, <1>3, <2>1 DEF endBlock
<1>4. QED
  BY <1>1, <1>2, <1>3

LEMMA SearchHeightStep ==
    ASSUME SearchInv, SearchHeight
    PROVE  SearchInv'
<1>1. Len(ledger) \in Nat /\ DOMAIN ledger = 1 .. Len(ledger) /\ search \in SearchType
      /\ \A tx : tx \in Mined => \E n \in DOMAIN ledger : tx \in ledger[n]
  BY LedgerShape DEF SearchInv, SearchTypes
<1>2. PICK h \in Nat : h = Len(ledger)
  BY <1>1
<1>3. /\ firstBlock(h) \in Nat /\ endBlock(h) \in Int /\ endBlock(h) >= h - 1
  BY BlockRange
<1>4. /\ search.step = "height" /\ SearchOnly
      /\ search' = [search EXCEPT !.step = "block", !.height = h, !.start_height = firstBlock(h),
                                  !.block_no = endBlock(h)]
  BY <1>2 DEF SearchHeight
<1>5. /\ search' \in SearchType /\ search'.step = "block" /\ search'.height = h
      /\ search'.start_height = firstBlock(h) /\ search'.block_no = endBlock(h)
      /\ search'.outputs = search.outputs /\ search'.copy = search.copy /\ search'.asked = search.asked
      /\ search'.in_mempool = search.in_mempool
  BY <1>1, <1>3, <1>4 DEF SearchType
<1>6. UNCHANGED <<ledger, rewinds>>
  BY <1>4, <1>5, SearchLeaves
<1>7. SearchStarts' /\ SearchRange' /\ PoolFound'
  <2>1. SearchStarts'
    BY <1>4, <1>5, <1>6 DEF SearchInv, SearchStarts
  <2>2. SearchRange'
    <3>1. search'.block_no <= endBlock(h) /\ search'.start_height = firstBlock(h)
      BY <1>3, <1>5
    <3>2. QED
      BY <1>5, <3>1 DEF SearchRange, Searching, firstBlock, endBlock
  <2>3. PoolFound'
    BY <1>4, <1>5 DEF SearchInv, PoolFound, Found
  <2>4. QED
    BY <2>1, <2>2, <2>3
<1>8. KnownIsBelow'
  <2> SUFFICES ASSUME rewinds = search.copy.rewinds, NEW tx \in search.copy.known \ search.copy.txs
               PROVE  \E n \in DOMAIN ledger : n <= h /\ tx \in ledger[n]
    BY <1>5, <1>6 DEF KnownIsBelow
  <2>1. tx \in Mined
    BY DEF SearchInv, CopyCovers
  <2>2. \A n \in DOMAIN ledger : n <= h
    BY <1>1, <1>2
  <2>3. QED
    BY <1>1, <2>1, <2>2
<1>9. BlocksAsRead'
  <2>1. \A n \in DOMAIN ledger : ~(endBlock(h) < n - 1 /\ n <= h)
    BY <1>1, <1>2, <1>3
  <2>2. \A o \in search.outputs : o.in_mempool
    BY <1>4 DEF SearchInv, SearchStarts
  <2>3. h <= Len(ledger)
    BY <1>2
  <2>4. QED
    BY <1>5, <1>6, <2>1, <2>2, <2>3 DEF BlocksAsRead
<1>10. CopyCovers(search'.copy)
  BY <1>5 DEF SearchInv
<1>11. QED
  BY <1>4, <1>5, <1>7, <1>8, <1>9, <1>10, SearchLeaves DEF SearchInv

LEMMA SearchBlockStep ==
    ASSUME SearchInv, SearchBlock
    PROVE  SearchInv'
<1>1. /\ Len(ledger) \in Nat /\ DOMAIN ledger = 1 .. Len(ledger) /\ search \in SearchType
      /\ \A n \in DOMAIN ledger : ledger[n] \subseteq OurTxs
      /\ search.step = "block" /\ search.block_no >= search.start_height /\ SearchOnly
  BY LedgerShape DEF SearchInv, SearchTypes, SearchBlock
<1>a. search.block_no \in Int /\ search.start_height \in Nat /\ search.block_no >= search.start_height
  BY <1>1 DEF SearchType
<1>b. search.block_no \in Nat
  BY <1>a
<1>2. PICK b \in Nat : b = search.block_no
  BY <1>b
<1>3. b < Len(ledger) => b + 1 \in DOMAIN ledger
  BY <1>1, <1>2
<1>4. /\ search' \in SearchType
      /\ \/ b < Len(ledger) /\ search'.step = "txs" /\ search'.blk = ledger[b + 1]
         \/ b >= Len(ledger) /\ search'.step = "no block"
      /\ search'.height = search.height /\ search'.start_height = search.start_height
      /\ search'.block_no = search.block_no /\ search'.outputs = search.outputs
      /\ search'.copy = search.copy /\ search'.asked = search.asked
      /\ search'.in_mempool = search.in_mempool
  <2>1. CASE b < Len(ledger)
    <3>1. search' = [search EXCEPT !.step = "txs", !.blk = ledger[b + 1]]
      BY <1>2, <2>1 DEF SearchBlock
    <3>2. ledger[b + 1] \in SUBSET OurTxs
      BY <1>1, <1>3, <2>1
    <3>3. QED
      BY <1>1, <2>1, <3>1, <3>2 DEF SearchType
  <2>2. CASE b >= Len(ledger)
    <3>0. ~(search.block_no < Len(ledger))
      BY <1>1, <1>2, <2>2
    <3>1. search' = [search EXCEPT !.step = "no block"]
      BY <3>0 DEF SearchBlock
    <3>2. QED
      BY <1>1, <2>2, <3>1 DEF SearchType
  <2>3. b < Len(ledger) \/ b >= Len(ledger)
    BY <1>1
  <2>4. QED
    BY <2>1, <2>2, <2>3
<1>5. UNCHANGED <<ledger, rewinds>>
  BY <1>1, <1>4, SearchLeaves
<1>6. SearchStarts' /\ SearchRange' /\ PoolFound' /\ KnownIsBelow'
  <2>1. SearchStarts'
    BY <1>4, <1>5 DEF SearchInv, SearchStarts
  <2>2. SearchRange'
    BY <1>1, <1>4 DEF SearchInv, SearchRange, Searching, firstBlock, endBlock
  <2>3. PoolFound' /\ KnownIsBelow'
    BY <1>1, <1>4, <1>5 DEF SearchInv, PoolFound, Found, KnownIsBelow, Searching
  <2>4. QED
    BY <2>1, <2>2, <2>3
<1>7. BlocksAsRead'
  <2> SUFFICES ASSUME rewinds \in {search.asked, search.copy.rewinds}
               PROVE  BlocksAsRead'
    BY <1>4, <1>5 DEF BlocksAsRead
  <2>1. search.height <= Len(ledger)
    BY <1>1 DEF SearchInv, BlocksAsRead, Searching
  <2>2. search'.step = "no block" => search.height < LastBlocks
    <3>1. LastBlocks \in Nat
      BY SearchOK DEF SearchOK
    <3>2. search.height \in Nat
      BY <1>1 DEF SearchType
    <3>3. search'.step = "no block" => b >= Len(ledger)
      BY <1>4
    <3>4. b <= endBlock(search.height)
      BY <1>1, <1>2 DEF SearchInv, SearchRange, Searching
    <3>5. search.height >= LastBlocks => b <= search.height - 1
      BY <3>2, <3>4, BlockRange
    <3>6. QED
      <4>1. Len(ledger) \in Nat /\ b \in Nat
        BY <1>1
      <4>2. search.height >= LastBlocks => ~(b >= Len(ledger))
        BY <2>1, <3>2, <3>5, <4>1
      <4>3. search.height < LastBlocks \/ search.height >= LastBlocks
        BY <3>1, <3>2
      <4>4. QED
        BY <3>3, <4>2, <4>3
  <2>3. \A n \in DOMAIN ledger : b < n - 1 /\ n <= search.height => ledger[n] \subseteq Found
    BY <1>1, <1>2 DEF SearchInv, BlocksAsRead, Searching
  <2>4. \A o \in search.outputs : ~o.in_mempool =>
            o.block_no + 1 \in DOMAIN ledger /\ o.tx \in ledger[o.block_no + 1]
    BY DEF SearchInv, BlocksAsRead
  <2>5. search'.step = "txs" => b + 1 \in DOMAIN ledger /\ search'.blk = ledger[b + 1]
    BY <1>3, <1>4
  <2>6. QED
    BY <1>2, <1>4, <1>5, <2>1, <2>2, <2>3, <2>4, <2>5 DEF BlocksAsRead, Found
<1>8. CopyCovers(search'.copy)
  BY <1>4 DEF SearchInv
<1>9. QED
  BY <1>1, <1>4, <1>6, <1>7, <1>8, SearchLeaves DEF SearchInv

LEMMA SearchTxsStep ==
    ASSUME SearchInv, SearchTxs
    PROVE  SearchInv'
<1>1. /\ Len(ledger) \in Nat /\ DOMAIN ledger = 1 .. Len(ledger) /\ search \in SearchType
      /\ \A n \in DOMAIN ledger : ledger[n] \subseteq OurTxs
      /\ search.step = "txs" /\ SearchOnly
  BY LedgerShape DEF SearchInv, SearchTypes, SearchTxs
<1>a. search.blk \cap Mined \in SUBSET OurTxs /\ search.block_no \in Int /\ FALSE \in BOOLEAN
  BY <1>1 DEF SearchType
<1>b. PICK b \in Int : b = search.block_no
  BY <1>a
<1>c. PICK pg : pg = [search EXCEPT !.step = "block"]
  OBVIOUS
<1>d. PICK S \in SUBSET OurTxs : S = search.blk \cap Mined
  BY <1>a
<1>e. PICK pooled \in BOOLEAN : pooled = FALSE
  BY <1>a
<1>f. PICK r : r = find_our_outputs(pg, S, pooled)
  OBVIOUS
<1>2. /\ pg = [search EXCEPT !.step = "block"] /\ S = search.blk \cap Mined /\ pooled = FALSE
      /\ r = find_our_outputs(pg, S, pooled) /\ b = search.block_no
      /\ search' = [r EXCEPT !.block_no = @ - 1]
  BY <1>b, <1>c, <1>d, <1>e, <1>f DEF SearchTxs
<1>3. /\ pg \in SearchType /\ pg.step = "block" /\ pg.outputs = search.outputs /\ pg.block_no = b
      /\ pg.copy = search.copy /\ pg.asked = search.asked /\ pg.height = search.height
      /\ pg.start_height = search.start_height /\ pg.in_mempool = search.in_mempool
  BY <1>1, <1>2 DEF SearchType
<1>4. pg \in SearchType /\ r = find_our_outputs(pg, S, pooled)
  BY <1>2, <1>3
<1>5. /\ r \in SearchType /\ r.block_no = pg.block_no /\ r.copy = pg.copy /\ r.asked = pg.asked
      /\ r.height = pg.height /\ r.start_height = pg.start_height /\ r.in_mempool = pg.in_mempool
  BY <1>4, FoundOutputs
<1>6. \/ r.step = "undecoded" /\ r.outputs = pg.outputs
      \/ /\ r.step = pg.step
         /\ \A o : o \in r.outputs <=>
              \/ o \in pg.outputs
              \/ \E tx \in S : o = [tx |-> tx, in_mempool |-> pooled, block_no |-> pg.block_no]
  BY <1>4, FoundOutputs, SMTT(60)
<1>7. /\ search' \in SearchType /\ search'.block_no = b - 1
      /\ search'.step = r.step /\ search'.outputs = r.outputs
      /\ search'.height = search.height /\ search'.start_height = search.start_height
      /\ search'.copy = search.copy /\ search'.asked = search.asked
      /\ search'.in_mempool = search.in_mempool
  <2>1. r.block_no = b /\ b - 1 \in Int
    BY <1>3, <1>5
  <2>2. search' = [r EXCEPT !.block_no = b - 1]
    BY <1>2, <2>1
  <2>3. QED
    BY <1>3, <1>5, <2>1, <2>2 DEF SearchType
<1>8. UNCHANGED <<ledger, rewinds>>
  BY <1>1, <1>7, SearchLeaves
<1>9. search.outputs \subseteq search'.outputs
  BY <1>3, <1>6, <1>7
<1>10. \A o \in search'.outputs :
           o \in search.outputs \/ (~o.in_mempool /\ o.block_no = b /\ o.tx \in S)
  <2>1. \A tx \in S : LET o == [tx |-> tx, in_mempool |-> pooled, block_no |-> pg.block_no]
                      IN  ~o.in_mempool /\ o.block_no = b /\ o.tx \in S
    BY <1>2, <1>3
  <2>2. QED
    BY <1>3, <1>6, <1>7, <2>1
<1>11. \A tx \in Found : tx \in Found'
  BY <1>9 DEF Found
<1>12. search'.step = "block" => \A tx \in S : tx \in Found'
  <2> SUFFICES ASSUME search'.step = "block", NEW tx \in S
               PROVE  tx \in Found'
    OBVIOUS
  <2>1. [tx |-> tx, in_mempool |-> pooled, block_no |-> pg.block_no] \in search'.outputs
    BY <1>6, <1>7
  <2>2. QED
    BY <2>1 DEF Found
<1>13. SearchStarts' /\ SearchRange' /\ PoolFound' /\ KnownIsBelow'
  <2>1. SearchStarts'
    BY <1>3, <1>6, <1>7, <1>8, <1>10 DEF SearchInv, SearchStarts
  <2>2. SearchRange'
    <3>1. search.height \in Nat
      BY <1>1 DEF SearchType
    <3>2. endBlock(search.height) \in Int /\ b <= endBlock(search.height)
      BY <1>1, <1>2, <3>1, BlockRange DEF SearchInv, SearchRange, Searching
    <3>3. b - 1 <= endBlock(search.height)
      BY <3>2
    <3>4. search.start_height = firstBlock(search.height)
      BY <1>1 DEF SearchInv, SearchRange, Searching
    <3>5. search'.step # "txs"
      BY <1>3, <1>6, <1>7
    <3>6. QED
      BY <1>7, <3>3, <3>4, <3>5 DEF SearchRange, Searching, firstBlock, endBlock
  <2>3. PoolFound'
    BY <1>1, <1>3, <1>6, <1>7, <1>11 DEF SearchInv, PoolFound
  <2>4. KnownIsBelow'
    BY <1>1, <1>7, <1>8 DEF SearchInv, KnownIsBelow, Searching
  <2>5. QED
    BY <2>1, <2>2, <2>3, <2>4
<1>14. BlocksAsRead'
  <2> SUFFICES ASSUME rewinds \in {search.asked, search.copy.rewinds}
               PROVE  BlocksAsRead'
    BY <1>7, <1>8 DEF BlocksAsRead
  <2>1. /\ search.height <= Len(ledger)
        /\ b + 1 \in DOMAIN ledger /\ search.blk = ledger[b + 1]
        /\ \A n \in DOMAIN ledger : b < n - 1 /\ n <= search.height => ledger[n] \subseteq Found
        /\ \A o \in search.outputs : ~o.in_mempool =>
              o.block_no + 1 \in DOMAIN ledger /\ o.tx \in ledger[o.block_no + 1]
    BY <1>1, <1>2 DEF SearchInv, BlocksAsRead, Searching
  <2>2. S = ledger[b + 1]
    <3>1. ledger[b + 1] \subseteq Mined
      BY <2>1 DEF Mined
    <3>2. QED
      BY <1>2, <2>1, <3>1
  <2>3. search'.step = "block" => \A n \in DOMAIN ledger :
            b - 1 < n - 1 /\ n <= search.height => ledger[n] \subseteq Found'
    <3> SUFFICES ASSUME search'.step = "block", NEW n \in DOMAIN ledger, b - 1 < n - 1,
                        n <= search.height
                 PROVE  ledger[n] \subseteq Found'
      OBVIOUS
    <3>1. n = b + 1 \/ b < n - 1
      BY <1>1
    <3>2. CASE n = b + 1
      BY <1>12, <2>2, <3>2
    <3>3. CASE b < n - 1
      BY <1>11, <2>1, <3>3
    <3>4. QED
      BY <3>1, <3>2, <3>3
  <2>4. \A o \in search'.outputs : ~o.in_mempool =>
            o.block_no + 1 \in DOMAIN ledger /\ o.tx \in ledger[o.block_no + 1]
    BY <1>10, <2>1, <2>2
  <2>5. search'.step \notin {"txs", "no block"}
    BY <1>3, <1>6, <1>7
  <2>6. QED
    BY <1>7, <1>8, <2>1, <2>3, <2>4, <2>5 DEF BlocksAsRead, Searching
<1>15. CopyCovers(search'.copy)
  BY <1>7 DEF SearchInv
<1>16. QED
  BY <1>1, <1>7, <1>13, <1>14, <1>15, SearchLeaves DEF SearchInv

LEMMA AnswerSearchStep ==
    ASSUME SearchInv, AnswerSearch
    PROVE  SearchInv'
<1>1. NoCopy \in CopyType /\ NoCopy.known = {} /\ NoCopy.rewinds = 0
  BY DEF NoCopy, CopyType
<1>2. rewinds \in Nat /\ SearchOnly /\ search' = NoSearch
  BY DEF SearchInv, SearchTypes, AnswerSearch
<1>3. /\ search' \in SearchType /\ search'.step = "none" /\ search'.outputs = {}
      /\ search'.block_no = 0 /\ search'.asked = 0 /\ search'.copy = NoCopy
  BY <1>1, <1>2 DEF NoSearch, SearchType
<1>4. CopyCovers(search'.copy)
  BY <1>1, <1>2, <1>3 DEF CopyCovers
<1>5. search'.asked <= rewinds'
  BY <1>2, <1>3, SearchLeaves
<1>6. SearchStarts' /\ SearchRange' /\ PoolFound' /\ KnownIsBelow' /\ BlocksAsRead'
  BY <1>3, <1>5 DEF SearchStarts, SearchRange, PoolFound, KnownIsBelow, BlocksAsRead, Searching
<1>7. QED
  BY <1>2, <1>3, <1>4, <1>6, SearchLeaves DEF SearchInv

LEMMA SearchGoesOn == SearchInv /\ [SearchNext]_searchVars => SearchInv'
<1> SUFFICES ASSUME SearchInv, [SearchNext]_searchVars PROVE SearchInv'
  OBVIOUS
<1>1. CASE UNCHANGED searchVars
  <2>1. UNCHANGED <<undecodable, ledger, rewinds, nodePool, fetched, poolCopy, search>>
    BY <1>1 DEF searchVars, nodeSide
  <2>2. SearchTypes' /\ TxsAreOnce'
    BY <2>1 DEF SearchInv, SearchTypes, TxsAreOnce
  <2>3. Len(ledger) \in Nat
    BY LedgerShape DEF SearchInv
  <2>4. QED
    BY <2>1, <2>2, <2>3, ChainGrows
<1>2. CASE SearchNext
  BY <1>2, PoolStep, MinedStep, RewoundStep, CopyStep, AskStep, SearchPoolStep, SearchHeightStep,
     SearchBlockStep, SearchTxsStep, AnswerSearchStep DEF SearchNext, SearchStep
<1>3. QED
  BY <1>1, <1>2

\* A transaction that the node knew when the search began is in the copy of the pool, in the
\* blocks still to be read or among the outputs, or it was taken away (json_outputsblocks
\* of page.h).
THEOREM SearchInvariant == SearchSpec => []SearchInv
BY SearchStartsWell, SearchGoesOn, PTL DEF SearchSpec

\* While no block is removed, no transaction slips through between the copy of the pool,
\* which is read first, and the blocks (json_outputsblocks of page.h).
THEOREM NothingSlipsThrough == SearchSpec => []SearchMissesNothing
<1>1. SearchInv => SearchMissesNothing
  <2> SUFFICES ASSUME SearchInv, Complete, search.in_mempool, rewinds = search.copy.rewinds,
                      NEW tx \in search.copy.known \cap (nodePool \cup LastTxs)
               PROVE  tx \in Found
    BY DEF SearchMissesNothing, Found
  <2>1. /\ Searching /\ search.step = "block" /\ search.block_no < search.start_height
        /\ search \in SearchType
    BY DEF Complete, Searching, SearchInv, SearchTypes
  <2>2. CASE tx \in search.copy.txs
    BY <2>1, <2>2 DEF SearchInv, PoolFound
  <2>3. CASE tx \notin search.copy.txs
    <3>1. PICK n \in DOMAIN ledger : n <= search.height /\ tx \in ledger[n]
      BY <2>1, <2>3 DEF SearchInv, KnownIsBelow
    <3>2. tx \notin nodePool
      BY <3>1 DEF SearchInv, TxsAreOnce
    <3>3. PICK m \in DOMAIN ledger : m > Len(ledger) - LastBlocks /\ tx \in ledger[m]
      BY <3>2 DEF LastTxs
    <3>4. m = n
      BY <3>1, <3>3 DEF SearchInv, TxsAreOnce
    <3>5. DOMAIN ledger = 1 .. Len(ledger) /\ Len(ledger) \in Nat
      BY LedgerShape DEF SearchInv
    <3>6. search.height \in Nat /\ search.block_no \in Int /\ search.start_height \in Nat
      BY <2>1 DEF SearchType
    <3>7. search.start_height = firstBlock(search.height) /\ search.height <= Len(ledger)
      BY <2>1 DEF SearchInv, SearchRange, BlocksAsRead
    <3>8. search.start_height = 0 \/ search.start_height = search.height - LastBlocks
      BY <3>6, <3>7, BlockRange
    <3>9. search.block_no < n - 1
      BY <2>1, <3>3, <3>4, <3>5, <3>6, <3>7, <3>8, SearchOK DEF SearchOK
    <3>10. QED
      BY <2>1, <3>1, <3>9 DEF SearchInv, BlocksAsRead
  <2>4. QED
    BY <2>2, <2>3
<1>2. QED
  BY <1>1, SearchInvariant, PTL

\* While no block is removed after the request, an output is listed twice only as waiting
\* and as mined, and a block cannot be read only when the chain is shorter than the blocks
\* to search (json_outputsblocks of page.h).
THEOREM DoublesAreExplained == SearchSpec => []SearchIsExplained
<1>1. SearchInv => SearchIsExplained
  <2> SUFFICES ASSUME SearchInv, rewinds = search.asked
               PROVE  /\ \A o, p \in search.outputs :
                            o.tx = p.tx /\ o # p => {o.in_mempool, p.in_mempool} = BOOLEAN
                      /\ search.step = "no block" => search.height < LastBlocks
    BY DEF SearchIsExplained
  <2>1. search.step = "no block" => search.height < LastBlocks
    BY DEF SearchInv, BlocksAsRead
  <2>2. ASSUME NEW o \in search.outputs, NEW p \in search.outputs, o.tx = p.tx,
               o.in_mempool <=> p.in_mempool
        PROVE  o = p
    <3>1. o \in OutputType /\ p \in OutputType
      BY DEF SearchInv, SearchTypes, SearchType
    <3>2. o.block_no = p.block_no
      <4>1. CASE o.in_mempool
        <5>1. p.in_mempool
          BY <2>2, <4>1
        <5>2. o.block_no = 0 /\ p.block_no = 0
          BY <4>1, <5>1 DEF SearchInv, SearchStarts
        <5>3. QED
          BY <5>2
      <4>2. CASE ~o.in_mempool
        <5>1. /\ o.block_no + 1 \in DOMAIN ledger /\ o.tx \in ledger[o.block_no + 1]
              /\ p.block_no + 1 \in DOMAIN ledger /\ p.tx \in ledger[p.block_no + 1]
          BY <2>2, <4>2 DEF SearchInv, BlocksAsRead
        <5>2. o.block_no + 1 = p.block_no + 1
          <6>1. o.tx \in ledger[o.block_no + 1] \cap ledger[p.block_no + 1]
            BY <2>2, <5>1
          <6>2. QED
            BY <5>1, <6>1 DEF SearchInv, TxsAreOnce
        <5>3. o.block_no \in Int /\ p.block_no \in Int
          BY <3>1 DEF OutputType
        <5>4. QED
          BY <5>2, <5>3
      <4>3. QED
        BY <4>1, <4>2
    <3>3. o.in_mempool = p.in_mempool
      BY <2>2, <3>1 DEF OutputType
    <3>4. QED
      BY <2>2, <3>1, <3>2, <3>3 DEF OutputType
  <2>3. \A o, p \in search.outputs : o.tx = p.tx /\ o # p => {o.in_mempool, p.in_mempool} = BOOLEAN
    <3>1. \A o \in search.outputs : o.in_mempool \in BOOLEAN
      BY DEF SearchInv, SearchTypes, SearchType, OutputType
    <3>2. QED
      BY <2>2, <3>1
  <2>4. QED
    BY <2>1, <2>3
<1>2. QED
  BY <1>1, SearchInvariant, PTL
-----------------------------------------------------------------------------
(* EmissionMonitor.                                                        *)

CheckpointType == [kind : {"absent", "empty", "short", "cut", "whole"}, sum : Seq(Int)]
RequestType    == [step : {"idle", "height", "gap"}, sum : Seq(Int), upto : Nat]
Threads == {"start", "wake", "limit", "scan", "save", "write", "sleep", "runaway", "dead", "off"}
EmissionTypes ==
    /\ chain \in Seq(Nat) /\ highest \in Nat /\ removed \in Nat
    /\ monitor \in Threads /\ current_height \in Nat /\ end_block \in Nat
    /\ total \in Seq(Int) /\ scanned \in Seq(Int)
    /\ checkpoint \in CheckpointType /\ request \in RequestType
    /\ topScanned \in BOOLEAN /\ saved \in Nat

\* Only the top Depth blocks that the chain has had can go; no height that was read is
\* above its highest one.
HeightsInOrder ==
    /\ Len(chain) <= highest /\ highest - Depth <= Len(chain)
    /\ removed = 0 => Len(chain) = highest
    /\ current_height <= highest
    /\ monitor = "scan" => end_block <= current_height
    /\ request.step = "gap" => request.upto <= highest \/ request.upto <= Len(request.sum)

\* Blocks that can no longer go.
Settled(sum) == \A h \in DOMAIN sum : h <= highest - Depth /\ sum[h] = chain[h]
CountedIsSettled ==
    ~topScanned =>
        /\ Settled(total) /\ Settled(checkpoint.sum)
        /\ monitor = "scan" =>
              /\ end_block <= highest - Depth
              /\ \A h \in DOMAIN scanned :
                    Len(total) + h <= end_block /\ scanned[h] = chain[Len(total) + h]

WasRead(sum) == \A h \in DOMAIN sum : sum[h] # NoBlock
AllWereRead ==
    removed = 0 =>
        WasRead(total) /\ WasRead(scanned) /\ WasRead(checkpoint.sum) /\ WasRead(request.sum)

\* A thread that may write has at least what was saved before.
SavedIsCounted ==
    /\ checkpoint.kind = "whole" => Len(checkpoint.sum) >= saved
    /\ checkpoint.kind = "absent" => saved = 0
    /\ monitor \notin {"start", "dead", "off"} => Len(total) >= saved

EmissionInv ==
    /\ EmissionTypes /\ HeightsInOrder /\ CountedIsSettled /\ AllWereRead /\ SavedIsCounted

LEMMA SumShape ==
    ASSUME NEW sum \in Seq(Int)
    PROVE  Len(sum) \in Nat /\ DOMAIN sum = 1 .. Len(sum) /\ \A h \in DOMAIN sum : h \in Nat /\ h >= 1
BY LenProperties

LEMMA EmissionShapes ==
    ASSUME EmissionTypes
    PROVE  /\ Len(chain) \in Nat /\ DOMAIN chain = 1 .. Len(chain)
           /\ \A h \in DOMAIN chain : chain[h] \in Nat
           /\ checkpoint.sum \in Seq(Int) /\ request.sum \in Seq(Int)
           /\ Len(total) \in Nat /\ DOMAIN total = 1 .. Len(total)
           /\ Len(scanned) \in Nat /\ DOMAIN scanned = 1 .. Len(scanned)
           /\ highest \in Nat /\ current_height \in Nat /\ end_block \in Nat /\ saved \in Nat
           /\ Depth \in Nat /\ ChunkGap \in Nat /\ ChunkSize \in Nat /\ Depth <= ChunkGap
<1>1. chain \in Seq(Nat) /\ total \in Seq(Int) /\ scanned \in Seq(Int)
  BY DEF EmissionTypes
<1>2. Len(chain) \in Nat /\ DOMAIN chain = 1 .. Len(chain) /\ \A h \in DOMAIN chain : chain[h] \in Nat
  BY <1>1, LenProperties, ElementOfSeq
<1>3. checkpoint.sum \in Seq(Int) /\ request.sum \in Seq(Int)
  BY DEF EmissionTypes, CheckpointType, RequestType
<1>4. /\ Len(total) \in Nat /\ DOMAIN total = 1 .. Len(total)
      /\ Len(scanned) \in Nat /\ DOMAIN scanned = 1 .. Len(scanned)
  BY <1>1, SumShape
<1>5. highest \in Nat /\ current_height \in Nat /\ end_block \in Nat /\ saved \in Nat
  BY DEF EmissionTypes
<1>6. Depth \in Nat /\ ChunkGap \in Nat /\ ChunkSize \in Nat /\ Depth <= ChunkGap
  BY EmissionOK DEF EmissionOK
<1>7. QED
  BY <1>2, <1>3, <1>4, <1>5, <1>6

LEMMA BlockIsRead ==
    ASSUME EmissionTypes, NEW h \in Nat
    PROVE  /\ BlockAt(h) \in Int
           /\ h < Len(chain) => BlockAt(h) = chain[h + 1] /\ BlockAt(h) # NoBlock
<1>1. h < Len(chain) => chain[h + 1] \in Nat
  <2>1. /\ Len(chain) \in Nat /\ DOMAIN chain = 1 .. Len(chain)
        /\ \A n \in DOMAIN chain : chain[n] \in Nat
    BY EmissionShapes
  <2>2. h < Len(chain) => h + 1 \in DOMAIN chain
    BY <2>1
  <2>3. QED
    BY <2>1, <2>2
<1>2. QED
  BY <1>1 DEF BlockAt, NoBlock

LEMMA EmissionStarts == EmissionInit => EmissionInv
<1> SUFFICES ASSUME EmissionInit PROVE EmissionInv
  OBVIOUS
<1>1. PICK n \in FirstHeights : chain = [h \in 1 .. n |-> 0]
  BY DEF EmissionInit
<1>2. n \in Nat
  BY EmissionOK DEF EmissionOK
<1>3. chain \in Seq(Nat) /\ Len(chain) = n
  <2>1. chain \in [1 .. n -> Nat]
    BY <1>1
  <2>2. QED
    BY <1>2, <2>1, SeqDef, LenProperties
<1>4. << >> \in Seq(Int) /\ Len(<< >>) = 0 /\ DOMAIN << >> = {}
  OBVIOUS
<1>5. /\ Nothing \in CheckpointType /\ Nothing.sum = << >> /\ Nothing.kind = "absent"
      /\ Idle \in RequestType /\ Idle.sum = << >> /\ Idle.step = "idle"
  BY <1>4 DEF Nothing, Idle, CheckpointType, RequestType
<1>6. /\ highest = n /\ removed = 0 /\ monitor = "start" /\ current_height = 0 /\ total = << >>
      /\ scanned = << >> /\ end_block = 0 /\ checkpoint = Nothing /\ request = Idle
      /\ topScanned = FALSE /\ saved = 0
  BY <1>3 DEF EmissionInit
<1>7. EmissionTypes
  BY <1>2, <1>3, <1>4, <1>5, <1>6 DEF EmissionTypes, Threads
<1>8. HeightsInOrder
  BY <1>2, <1>3, <1>5, <1>6, EmissionOK DEF HeightsInOrder, EmissionOK
<1>9. CountedIsSettled /\ AllWereRead
  BY <1>4, <1>5, <1>6 DEF CountedIsSettled, AllWereRead, Settled, WasRead
<1>10. SavedIsCounted
  BY <1>5, <1>6 DEF SavedIsCounted
<1>11. QED
  BY <1>7, <1>8, <1>9, <1>10 DEF EmissionInv

\* What a step of the node keeps: the blocks that can no longer go.
LEMMA SettledStays ==
    ASSUME EmissionInv, EmissionTypes', HeightsInOrder', highest' >= highest, removed' = 0 => removed = 0,
           UNCHANGED <<threadVars, checkpoint, request>>,
           \A h \in 1 .. highest - Depth : chain'[h] = chain[h]
    PROVE  EmissionInv'
<1>1. UNCHANGED <<monitor, total, scanned, end_block, topScanned, saved, checkpoint, request>>
  BY DEF threadVars
<1>2. highest \in Nat /\ highest' \in Nat /\ Depth \in Nat
  BY EmissionShapes DEF EmissionInv, EmissionTypes
<1>3. \A sum \in Seq(Int) : Settled(sum) =>
          \A h \in DOMAIN sum : h <= highest' - Depth /\ sum[h] = chain'[h]
  <2> SUFFICES ASSUME NEW sum \in Seq(Int), Settled(sum), NEW h \in DOMAIN sum
               PROVE  h <= highest' - Depth /\ sum[h] = chain'[h]
    OBVIOUS
  <2>1. h \in Nat /\ h >= 1
    BY SumShape
  <2>2. h <= highest - Depth /\ sum[h] = chain[h]
    BY DEF Settled
  <2>3. h \in 1 .. highest - Depth /\ h <= highest' - Depth
    BY <1>2, <2>1, <2>2
  <2>4. QED
    BY <2>2, <2>3
<1>4. CountedIsSettled'
  <2> SUFFICES ASSUME ~topScanned
               PROVE  CountedIsSettled'
    BY <1>1 DEF CountedIsSettled
  <2>1. Settled(total)' /\ Settled(checkpoint.sum)'
    BY <1>1, <1>3, EmissionShapes DEF EmissionInv, EmissionTypes, CountedIsSettled, Settled
  <2>2. monitor = "scan" => /\ end_block <= highest - Depth
                           /\ \A h \in DOMAIN scanned :
                                 Len(total) + h <= end_block /\ scanned[h] = chain[Len(total) + h]
    BY DEF EmissionInv, CountedIsSettled
  <2>3. end_block \in Nat /\ Len(total) \in Nat /\ DOMAIN scanned = 1 .. Len(scanned) /\ Len(scanned) \in Nat
    BY EmissionShapes DEF EmissionInv
  <2>4. monitor = "scan" => end_block <= highest' - Depth
    BY <1>2, <2>2, <2>3
  <2>5. monitor = "scan" => \A h \in DOMAIN scanned : Len(total) + h \in 1 .. highest - Depth
    BY <1>2, <2>2, <2>3
  <2>6. QED
    BY <1>1, <2>1, <2>2, <2>4, <2>5 DEF CountedIsSettled
<1>5. AllWereRead' /\ SavedIsCounted'
  BY <1>1 DEF EmissionInv, AllWereRead, WasRead, SavedIsCounted
<1>6. QED
  BY <1>4, <1>5 DEF EmissionInv

LEMMA AddBlockStep ==
    ASSUME EmissionInv, AddBlock
    PROVE  EmissionInv'
<1>1. /\ chain' = Append(chain, removed)
      /\ UNCHANGED <<removed, threadVars, checkpoint, request>>
      /\ UNCHANGED <<monitor, current_height, total, scanned, end_block, topScanned, saved>>
  BY DEF AddBlock, threadVars
<1>2. /\ chain \in Seq(Nat) /\ removed \in Nat /\ highest \in Nat /\ Len(chain) \in Nat
      /\ Depth \in Nat /\ current_height \in Nat
  BY EmissionShapes DEF EmissionInv, EmissionTypes
<1>3. /\ chain' \in Seq(Nat) /\ Len(chain') = Len(chain) + 1
      /\ \A h \in 1 .. Len(chain) : chain'[h] = chain[h]
  BY <1>1, <1>2, Grown
<1>4. highest' = IF Len(chain) + 1 > highest THEN Len(chain) + 1 ELSE highest
  BY <1>3 DEF AddBlock
<1>5. highest' \in Nat /\ highest' >= highest /\ Len(chain') <= highest'
      /\ (highest' = highest \/ highest' = Len(chain'))
  BY <1>2, <1>3, <1>4
<1>6. EmissionTypes'
  BY <1>1, <1>3, <1>5 DEF EmissionInv, EmissionTypes
<1>7. /\ Len(chain) <= highest /\ highest - Depth <= Len(chain) /\ current_height <= highest
      /\ removed = 0 => Len(chain) = highest
      /\ monitor = "scan" => end_block <= current_height
      /\ request.step = "gap" => request.upto <= highest \/ request.upto <= Len(request.sum)
  BY DEF EmissionInv, HeightsInOrder
<1>8. HeightsInOrder'
  <2>1. highest' - Depth <= Len(chain') /\ current_height <= highest'
    BY <1>2, <1>3, <1>5, <1>7
  <2>2. removed = 0 => Len(chain') = highest'
    BY <1>2, <1>3, <1>4, <1>7
  <2>3. request.step = "gap" => request.upto <= highest' \/ request.upto <= Len(request.sum)
    <3>1. request.upto \in Nat
      BY DEF EmissionInv, EmissionTypes, RequestType
    <3>2. QED
      BY <1>2, <1>5, <1>7, <3>1
  <2>4. QED
    BY <1>1, <1>5, <1>7, <2>1, <2>2, <2>3 DEF HeightsInOrder
<1>9. \A h \in 1 .. highest - Depth : chain'[h] = chain[h]
  <2>1. \A h \in 1 .. highest - Depth : h \in 1 .. Len(chain)
    BY <1>2, <1>7
  <2>2. QED
    BY <1>3, <2>1
<1>10. QED
  BY <1>1, <1>5, <1>6, <1>8, <1>9, SettledStays

LEMMA RemoveBlocksStep ==
    ASSUME EmissionInv, RemoveBlocks
    PROVE  EmissionInv'
<1>1. /\ removed' = removed + 1 /\ UNCHANGED <<highest, threadVars, checkpoint, request>>
      /\ UNCHANGED <<monitor, current_height, total, scanned, end_block, topScanned, saved>>
  BY DEF RemoveBlocks, threadVars
<1>2. /\ chain \in Seq(Nat) /\ removed \in Nat /\ highest \in Nat /\ Len(chain) \in Nat
      /\ Depth \in Nat /\ current_height \in Nat /\ Len(chain) <= highest
  BY EmissionShapes DEF EmissionInv, EmissionTypes, HeightsInOrder
<1>3. PICK n \in 1 .. Len(chain) - 1 :
          /\ Len(chain) - n >= highest - Depth
          /\ chain' = SubSeq(chain, 1, Len(chain) - n)
  BY DEF RemoveBlocks
<1>4. PICK k \in 0 .. Len(chain) : k = Len(chain) - n
  BY <1>2, <1>3
<1>5. chain' \in Seq(Nat) /\ Len(chain') = k /\ \A h \in 1 .. k : chain'[h] = chain[h]
  <2>1. chain' = SubSeq(chain, 1, k) /\ chain \in Seq(Nat)
    BY <1>2, <1>3, <1>4
  <2>2. QED
    BY <2>1, CutShort
<1>6. EmissionTypes'
  <2>1. removed' \in Nat
    BY <1>1, <1>2
  <2>2. QED
    BY <1>1, <1>5, <2>1 DEF EmissionInv, EmissionTypes
<1>7. removed' # 0
  BY <1>1, <1>2
<1>8. HeightsInOrder'
  <2>1. Len(chain') <= highest /\ highest - Depth <= Len(chain')
    BY <1>2, <1>3, <1>4, <1>5
  <2>2. QED
    BY <1>1, <1>7, <2>1 DEF EmissionInv, HeightsInOrder
<1>9. \A h \in 1 .. highest - Depth : chain'[h] = chain[h]
  BY <1>2, <1>3, <1>4, <1>5
<1>10. QED
  BY <1>1, <1>2, <1>6, <1>7, <1>8, <1>9, SettledStays

\* What a step of the process leaves alone.
LEMMA ChainUntouched ==
    ASSUME UNCHANGED nodeVars
    PROVE  /\ UNCHANGED <<chain, highest, removed>>
           /\ \A sum : (\A h \in DOMAIN sum : h <= highest' - Depth /\ sum[h] = chain'[h]) <=> Settled(sum)
BY DEF nodeVars, Settled

LEMMA StartStep ==
    ASSUME EmissionInv, start_monitor_blockchain_thread
    PROVE  EmissionInv'
<1>1. /\ total' = checkpoint.sum /\ UNCHANGED nodeVars
      /\ UNCHANGED <<current_height, scanned, end_block, topScanned, saved, checkpoint, request>>
  BY DEF start_monitor_blockchain_thread
<1>2. monitor' \in {"wake", "dead", "off"} /\ (monitor' = "wake" => checkpoint.kind \in {"whole", "absent"})
  BY DEF start_monitor_blockchain_thread, load_current_emission_amount
<1>3. UNCHANGED <<chain, highest, removed>>
  BY <1>1, ChainUntouched
<1>4. checkpoint.sum \in Seq(Int) /\ Len(checkpoint.sum) \in Nat /\ saved \in Nat
  BY EmissionShapes, SumShape DEF EmissionInv
<1>5. EmissionTypes'
  BY <1>1, <1>2, <1>3, <1>4 DEF EmissionInv, EmissionTypes, Threads
<1>6. HeightsInOrder'
  BY <1>1, <1>2, <1>3 DEF EmissionInv, HeightsInOrder
<1>7. CountedIsSettled'
  BY <1>1, <1>2, <1>3 DEF EmissionInv, CountedIsSettled, Settled
<1>8. AllWereRead'
  BY <1>1, <1>3 DEF EmissionInv, AllWereRead, WasRead
<1>9. SavedIsCounted'
  BY <1>1, <1>2, <1>4 DEF EmissionInv, SavedIsCounted
<1>10. QED
  BY <1>5, <1>6, <1>7, <1>8, <1>9 DEF EmissionInv

LEMMA WakeOrSleepStep ==
    ASSUME EmissionInv, Wake \/ Sleep
    PROVE  EmissionInv'
<1>1. /\ UNCHANGED nodeVars /\ monitor \in {"wake", "sleep"} /\ monitor' \in {"limit", "wake"}
      /\ UNCHANGED <<total, scanned, end_block, topScanned, saved, checkpoint, request>>
      /\ current_height' \in {current_height, Len(chain)}
  BY DEF Wake, Sleep
<1>2. UNCHANGED <<chain, highest, removed>> /\ Len(chain) \in Nat
  BY <1>1, ChainUntouched, EmissionShapes DEF EmissionInv
<1>3. EmissionTypes'
  BY <1>1, <1>2 DEF EmissionInv, EmissionTypes, Threads
<1>4. HeightsInOrder'
  BY <1>1, <1>2 DEF EmissionInv, HeightsInOrder
<1>5. CountedIsSettled' /\ AllWereRead'
  BY <1>1, <1>2 DEF EmissionInv, CountedIsSettled, Settled, AllWereRead, WasRead
<1>6. SavedIsCounted'
  BY <1>1 DEF EmissionInv, SavedIsCounted
<1>7. QED
  BY <1>3, <1>4, <1>5, <1>6 DEF EmissionInv

\* A scan ends among the settled blocks, or a full chunk has ended among the top ones.
LEMMA SetLimitStep ==
    ASSUME EmissionInv, SetLimit
    PROVE  EmissionInv'
<1>1. /\ monitor = "limit" /\ scanned' = << >> /\ UNCHANGED nodeVars
      /\ UNCHANGED <<current_height, total, saved, checkpoint, request>>
      /\ monitor' \in {"runaway", "scan"}
  BY DEF SetLimit
<1>2. UNCHANGED <<chain, highest, removed>>
  BY <1>1, ChainUntouched
<1>3. << >> \in Seq(Int) /\ DOMAIN << >> = {}
  OBVIOUS
<1>4. /\ Len(total) \in Nat /\ current_height \in Nat /\ highest \in Nat
      /\ Depth \in Nat /\ ChunkGap \in Nat /\ ChunkSize \in Nat /\ Depth <= ChunkGap
      /\ current_height <= highest
  BY EmissionShapes DEF EmissionInv, HeightsInOrder
<1>5. CASE monitor' = "runaway"
  <2>1. UNCHANGED <<end_block, topScanned>>
    BY <1>5 DEF SetLimit
  <2>2. EmissionTypes' /\ HeightsInOrder'
    BY <1>1, <1>2, <1>3, <1>5, <2>1 DEF EmissionInv, EmissionTypes, HeightsInOrder, Threads
  <2>3. CountedIsSettled' /\ AllWereRead'
    BY <1>1, <1>2, <1>3, <1>5, <2>1 DEF EmissionInv, CountedIsSettled, Settled, AllWereRead, WasRead
  <2>4. SavedIsCounted'
    BY <1>1, <1>5 DEF EmissionInv, SavedIsCounted
  <2>5. QED
    BY <2>2, <2>3, <2>4 DEF EmissionInv
<1>6. CASE monitor' = "scan"
  <2>1. /\ ~(Len(total) + ChunkSize > current_height /\ current_height < ChunkGap)
        /\ end_block' = chunkEnd(Len(total), current_height)
        /\ topScanned' = (topScanned \/ Len(total) + ChunkSize
                                          \in current_height - ChunkGap + 1 .. current_height)
    BY <1>6 DEF SetLimit, blk_no
  <2>2. /\ end_block' \in Nat /\ end_block' <= current_height
        /\ Len(total) + ChunkSize \notin current_height - ChunkGap + 1 .. current_height =>
              end_block' <= highest - Depth
    <3>1. CASE Len(total) + ChunkSize > current_height
      <4>1. end_block' = current_height - ChunkGap
        BY <2>1, <3>1 DEF chunkEnd
      <4>2. QED
        BY <1>4, <2>1, <3>1, <4>1
    <3>2. CASE ~(Len(total) + ChunkSize > current_height)
      <4>1. end_block' = Len(total) + ChunkSize
        BY <2>1, <3>2 DEF chunkEnd
      <4>2. QED
        BY <1>4, <3>2, <4>1
    <3>3. QED
      BY <3>1, <3>2
  <2>3. topScanned' \in BOOLEAN /\ (~topScanned' => ~topScanned /\ end_block' <= highest - Depth)
    BY <2>1, <2>2 DEF EmissionInv, EmissionTypes
  <2>4. EmissionTypes'
    BY <1>1, <1>2, <1>3, <1>6, <2>2, <2>3 DEF EmissionInv, EmissionTypes, Threads
  <2>5. HeightsInOrder'
    BY <1>1, <1>2, <2>2 DEF EmissionInv, HeightsInOrder
  <2>6. CountedIsSettled'
    <3>1. \A h \in DOMAIN scanned' : FALSE
      BY <1>1, <1>3
    <3>2. QED
      BY <1>1, <1>2, <2>3, <3>1 DEF EmissionInv, CountedIsSettled, Settled
  <2>7. AllWereRead' /\ SavedIsCounted'
    BY <1>1, <1>2, <1>3 DEF EmissionInv, AllWereRead, WasRead, SavedIsCounted
  <2>8. QED
    BY <2>4, <2>5, <2>6, <2>7 DEF EmissionInv
<1>7. QED
  BY <1>1, <1>5, <1>6

\* A block below the end of the scan is read, and as long as none was removed it is there.
LEMMA ScanBlockStep ==
    ASSUME EmissionInv, ScanBlock
    PROVE  EmissionInv'
<1>1. /\ monitor = "scan" /\ UNCHANGED nodeVars
      /\ UNCHANGED <<monitor, current_height, total, end_block, topScanned, saved, checkpoint, request>>
  BY DEF ScanBlock
<1>2. UNCHANGED <<chain, highest, removed>>
  BY <1>1, ChainUntouched
<1>3. /\ Len(total) \in Nat /\ Len(scanned) \in Nat /\ end_block \in Nat /\ highest \in Nat
      /\ Len(chain) \in Nat /\ Depth \in Nat /\ current_height \in Nat /\ scanned \in Seq(Int)
  BY EmissionShapes DEF EmissionInv, EmissionTypes
<1>4. PICK p \in Nat : p = Len(total) + Len(scanned)
  BY <1>3
<1>5. p < end_block /\ scanned' = Append(scanned, BlockAt(p))
  BY <1>4 DEF ScanBlock, blk_no
<1>6. PICK b \in Int : b = BlockAt(p)
  BY BlockIsRead DEF EmissionInv
<1>7. /\ scanned' \in Seq(Int) /\ DOMAIN scanned = 1 .. Len(scanned)
      /\ DOMAIN scanned' = 1 .. Len(scanned) + 1
      /\ \A h \in 1 .. Len(scanned) : scanned'[h] = scanned[h]
      /\ scanned'[Len(scanned) + 1] = b
  BY <1>3, <1>5, <1>6, Grown
<1>8. \A h \in DOMAIN scanned' : h \in DOMAIN scanned \/ h = Len(scanned) + 1
  BY <1>3, <1>7
<1>9. p < Len(chain) => b = chain[p + 1] /\ b # NoBlock
  BY <1>6, BlockIsRead DEF EmissionInv
<1>10. /\ end_block <= current_height /\ current_height <= highest /\ highest - Depth <= Len(chain)
       /\ removed = 0 => Len(chain) = highest
  BY <1>1 DEF EmissionInv, HeightsInOrder
<1>11. EmissionTypes'
  BY <1>1, <1>2, <1>7 DEF EmissionInv, EmissionTypes
<1>12. HeightsInOrder'
  BY <1>1, <1>2 DEF EmissionInv, HeightsInOrder
<1>13. CountedIsSettled'
  <2> SUFFICES ASSUME ~topScanned
               PROVE  CountedIsSettled'
    BY <1>1 DEF CountedIsSettled
  <2>1. /\ Settled(total) /\ Settled(checkpoint.sum) /\ end_block <= highest - Depth
        /\ \A h \in DOMAIN scanned : Len(total) + h <= end_block /\ scanned[h] = chain[Len(total) + h]
    BY <1>1 DEF EmissionInv, CountedIsSettled
  <2>2. /\ Len(total) + (Len(scanned) + 1) <= end_block /\ Len(total) + (Len(scanned) + 1) = p + 1
        /\ p < Len(chain)
    BY <1>3, <1>4, <1>5, <1>10, <2>1
  <2>3. \A h \in DOMAIN scanned' : Len(total) + h <= end_block /\ scanned'[h] = chain[Len(total) + h]
    BY <1>7, <1>8, <1>9, <2>1, <2>2
  <2>4. QED
    BY <1>1, <1>2, <2>1, <2>3 DEF CountedIsSettled, Settled
<1>14. AllWereRead'
  <2> SUFFICES ASSUME removed = 0
               PROVE  AllWereRead'
    BY <1>2 DEF AllWereRead
  <2>1. p < Len(chain)
    BY <1>3, <1>5, <1>10
  <2>2. WasRead(total) /\ WasRead(scanned) /\ WasRead(checkpoint.sum) /\ WasRead(request.sum)
    BY DEF EmissionInv, AllWereRead
  <2>3. \A h \in DOMAIN scanned' : scanned'[h] # NoBlock
    BY <1>7, <1>8, <1>9, <2>1, <2>2 DEF WasRead
  <2>4. QED
    BY <1>1, <2>2, <2>3 DEF AllWereRead, WasRead
<1>15. SavedIsCounted'
  BY <1>1 DEF EmissionInv, SavedIsCounted
<1>16. QED
  BY <1>11, <1>12, <1>13, <1>14, <1>15 DEF EmissionInv

LEMMA StoreTotalStep ==
    ASSUME EmissionInv, StoreTotal
    PROVE  EmissionInv'
<1>1. /\ monitor = "scan" /\ monitor' = "save" /\ total' = total \o scanned /\ UNCHANGED nodeVars
      /\ UNCHANGED <<current_height, scanned, end_block, topScanned, saved, checkpoint, request>>
  BY DEF StoreTotal
<1>2. UNCHANGED <<chain, highest, removed>>
  BY <1>1, ChainUntouched
<1>3. /\ total \in Seq(Int) /\ scanned \in Seq(Int) /\ Len(total) \in Nat /\ Len(scanned) \in Nat
      /\ DOMAIN total = 1 .. Len(total) /\ DOMAIN scanned = 1 .. Len(scanned)
      /\ end_block \in Nat /\ highest \in Nat /\ Depth \in Nat /\ saved \in Nat
  BY EmissionShapes DEF EmissionInv, EmissionTypes
<1>4. /\ total' \in Seq(Int) /\ Len(total') = Len(total) + Len(scanned)
      /\ \A h \in 1 .. Len(total) + Len(scanned) :
            total'[h] = IF h <= Len(total) THEN total[h] ELSE scanned[h - Len(total)]
  BY <1>1, <1>3, ConcatProperties
<1>5. \A h \in DOMAIN total' :
          \/ h \in DOMAIN total /\ total'[h] = total[h]
          \/ h - Len(total) \in DOMAIN scanned /\ total'[h] = scanned[h - Len(total)]
  <2>1. DOMAIN total' = 1 .. Len(total) + Len(scanned)
    BY <1>4, LenProperties
  <2>2. QED
    <3> SUFFICES ASSUME NEW h \in 1 .. Len(total) + Len(scanned)
                 PROVE  \/ h \in DOMAIN total /\ total'[h] = total[h]
                        \/ h - Len(total) \in DOMAIN scanned /\ total'[h] = scanned[h - Len(total)]
      BY <2>1
    <3>1. CASE h <= Len(total)
      BY <1>3, <1>4, <3>1
    <3>2. CASE ~(h <= Len(total))
      BY <1>3, <1>4, <3>2
    <3>3. QED
      BY <3>1, <3>2
<1>6. \A h \in DOMAIN total' : h \in Nat /\ Len(total) + (h - Len(total)) = h
  BY <1>3, <1>4, SumShape
<1>7. EmissionTypes'
  BY <1>1, <1>2, <1>4 DEF EmissionInv, EmissionTypes, Threads
<1>8. HeightsInOrder'
  BY <1>1, <1>2 DEF EmissionInv, HeightsInOrder
<1>9. CountedIsSettled'
  <2> SUFFICES ASSUME ~topScanned
               PROVE  CountedIsSettled'
    BY <1>1 DEF CountedIsSettled
  <2>1. /\ Settled(total) /\ Settled(checkpoint.sum) /\ end_block <= highest - Depth
        /\ \A h \in DOMAIN scanned : Len(total) + h <= end_block /\ scanned[h] = chain[Len(total) + h]
    BY <1>1 DEF EmissionInv, CountedIsSettled
  <2>2. ASSUME NEW h \in DOMAIN total'
        PROVE  h <= highest - Depth /\ total'[h] = chain[h]
    <3>1. CASE h \in DOMAIN total /\ total'[h] = total[h]
      BY <2>1, <3>1 DEF Settled
    <3>2. CASE h - Len(total) \in DOMAIN scanned /\ total'[h] = scanned[h - Len(total)]
      <4>1. h <= end_block /\ total'[h] = chain[h]
        BY <1>6, <2>1, <3>2
      <4>2. QED
        BY <1>3, <1>6, <2>1, <4>1
    <3>3. QED
      BY <1>5, <3>1, <3>2
  <2>3. QED
    BY <1>1, <1>2, <2>1, <2>2 DEF CountedIsSettled, Settled
<1>10. AllWereRead'
  BY <1>1, <1>2, <1>5 DEF EmissionInv, AllWereRead, WasRead
<1>11. SavedIsCounted'
  <2>1. Len(total) >= saved
    BY <1>1 DEF EmissionInv, SavedIsCounted
  <2>2. Len(total') >= saved
    BY <1>3, <1>4, <2>1
  <2>3. QED
    BY <1>1, <2>2 DEF EmissionInv, SavedIsCounted
<1>12. QED
  BY <1>7, <1>8, <1>9, <1>10, <1>11 DEF EmissionInv

LEMMA CheckpointStep ==
    ASSUME EmissionInv, OpenCheckpoint \/ WriteCheckpoint
    PROVE  EmissionInv'
<1>1. /\ UNCHANGED nodeVars /\ UNCHANGED <<current_height, total, scanned, end_block, topScanned, request>>
      /\ monitor \in {"save", "write"} /\ monitor' \in {"write", "sleep"}
  BY DEF OpenCheckpoint, WriteCheckpoint
<1>2. UNCHANGED <<chain, highest, removed>>
  BY <1>1, ChainUntouched
<1>3. total \in Seq(Int) /\ Len(total) \in Nat /\ saved \in Nat /\ << >> \in Seq(Int) /\ DOMAIN << >> = {}
  BY EmissionShapes DEF EmissionInv, EmissionTypes
<1>4. \/ checkpoint' = [kind |-> "empty", sum |-> << >>] /\ saved' = saved
      \/ checkpoint' = [kind |-> "whole", sum |-> total] /\ saved' = Len(total)
  BY DEF OpenCheckpoint, WriteCheckpoint, blk_no
<1>5. /\ checkpoint' \in CheckpointType /\ saved' \in Nat /\ checkpoint'.sum \in {<< >>, total}
      /\ checkpoint'.kind \in {"empty", "whole"} /\ (checkpoint'.kind = "whole" => checkpoint'.sum = total)
  <2>1. CASE checkpoint' = [kind |-> "empty", sum |-> << >>] /\ saved' = saved
    BY <1>3, <2>1 DEF CheckpointType
  <2>2. CASE checkpoint' = [kind |-> "whole", sum |-> total] /\ saved' = Len(total)
    BY <1>3, <2>2 DEF CheckpointType
  <2>3. QED
    BY <1>4, <2>1, <2>2
<1>6. EmissionTypes'
  BY <1>1, <1>2, <1>5 DEF EmissionInv, EmissionTypes, Threads
<1>7. HeightsInOrder'
  BY <1>1, <1>2 DEF EmissionInv, HeightsInOrder
<1>8. CountedIsSettled' /\ AllWereRead'
  BY <1>1, <1>2, <1>3, <1>5 DEF EmissionInv, CountedIsSettled, Settled, AllWereRead, WasRead
<1>9. SavedIsCounted'
  <2>1. Len(total) >= saved
    BY <1>1 DEF EmissionInv, SavedIsCounted
  <2>2. Len(total) >= saved' /\ (checkpoint'.kind = "whole" => saved' = Len(total))
    BY <1>3, <1>4, <2>1
  <2>3. QED
    BY <1>1, <1>3, <1>5, <2>2 DEF SavedIsCounted
<1>10. QED
  BY <1>6, <1>7, <1>8, <1>9 DEF EmissionInv

LEMMA RequestStep ==
    ASSUME EmissionInv, ReadTotal \/ ReadHeight \/ AddGapBlock \/ Answer
    PROVE  EmissionInv'
<1>1. UNCHANGED nodeVars /\ UNCHANGED <<threadVars, checkpoint>>
      /\ UNCHANGED <<monitor, current_height, total, scanned, end_block, topScanned, saved>>
  BY DEF ReadTotal, ReadHeight, AddGapBlock, Answer, threadVars
<1>2. UNCHANGED <<chain, highest, removed>>
  BY <1>1, ChainUntouched
<1>3. /\ request \in RequestType /\ request.sum \in Seq(Int) /\ Len(request.sum) \in Nat
      /\ total \in Seq(Int) /\ current_height \in Nat /\ highest \in Nat /\ Len(chain) \in Nat
      /\ request.upto \in Nat /\ current_height <= highest
  BY EmissionShapes, SumShape DEF EmissionInv, EmissionTypes, HeightsInOrder, RequestType
<1>4. /\ request' \in RequestType
      /\ request'.step = "gap" => request'.upto <= highest \/ request'.upto <= Len(request'.sum)
      /\ AllWereRead => (removed = 0 => WasRead(request'.sum))
  <2>1. CASE ReadTotal
    <3>1. request' = [step |-> "height", sum |-> total, upto |-> 0]
      BY <2>1 DEF ReadTotal
    <3>2. QED
      BY <1>3, <3>1 DEF RequestType, AllWereRead
  <2>2. CASE ReadHeight
    <3>1. PICK u \in Nat : /\ u \in {current_height, Len(request.sum)}
                           /\ request' = [request EXCEPT !.step = "gap", !.upto = u]
      BY <1>3, <2>2 DEF ReadHeight, blk_no
    <3>2. /\ request' \in RequestType /\ request'.upto = u /\ request'.sum = request.sum
      BY <1>3, <3>1 DEF RequestType
    <3>3. u <= highest \/ u <= Len(request.sum)
      BY <1>3, <3>1
    <3>4. QED
      BY <3>2, <3>3 DEF AllWereRead
  <2>3. CASE AddGapBlock
    <3>1. PICK n \in Nat : n = Len(request.sum)
      BY <1>3
    <3>2. PICK b \in Int : b = BlockAt(n)
      BY BlockIsRead DEF EmissionInv
    <3>3. /\ request.step = "gap" /\ n < request.upto
          /\ request' = [request EXCEPT !.sum = Append(request.sum, b)]
      BY <2>3, <3>1, <3>2 DEF AddGapBlock, blk_no
    <3>4. /\ Append(request.sum, b) \in Seq(Int) /\ Len(Append(request.sum, b)) = n + 1
          /\ DOMAIN Append(request.sum, b) = 1 .. n + 1 /\ DOMAIN request.sum = 1 .. n
          /\ \A h \in 1 .. n : Append(request.sum, b)[h] = request.sum[h]
          /\ Append(request.sum, b)[n + 1] = b
      BY <1>3, <3>1, Grown
    <3>5. /\ request' \in RequestType /\ request'.step = "gap" /\ request'.upto = request.upto
          /\ request'.sum = Append(request.sum, b)
      BY <1>3, <3>3, <3>4 DEF RequestType
    <3>6. request.upto <= highest
      BY <1>3, <3>1, <3>3 DEF EmissionInv, HeightsInOrder
    <3>7. ASSUME AllWereRead, removed = 0
          PROVE  WasRead(request'.sum)
      <4>1. Len(chain) = highest
        BY <3>7 DEF EmissionInv, HeightsInOrder
      <4>2. b # NoBlock
        BY <1>3, <3>2, <3>3, <3>6, <4>1, BlockIsRead DEF EmissionInv
      <4>3. \A h \in 1 .. n + 1 : h \in 1 .. n \/ h = n + 1
        OBVIOUS
      <4>4. QED
        BY <3>4, <3>5, <3>7, <4>2, <4>3 DEF AllWereRead, WasRead
    <3>8. QED
      BY <3>5, <3>6, <3>7
  <2>4. CASE Answer
    <3>1. request' = Idle /\ << >> \in Seq(Int) /\ DOMAIN << >> = {}
      BY <2>4 DEF Answer
    <3>2. QED
      BY <3>1 DEF Idle, RequestType, WasRead
  <2>5. QED
    BY <2>1, <2>2, <2>3, <2>4
<1>5. EmissionTypes'
  BY <1>1, <1>2, <1>4 DEF EmissionInv, EmissionTypes
<1>6. HeightsInOrder'
  BY <1>1, <1>2, <1>4 DEF EmissionInv, HeightsInOrder
<1>7. CountedIsSettled' /\ SavedIsCounted'
  BY <1>1, <1>2 DEF EmissionInv, CountedIsSettled, Settled, SavedIsCounted
<1>8. AllWereRead'
  BY <1>1, <1>2, <1>4 DEF EmissionInv, AllWereRead, WasRead
<1>9. QED
  BY <1>5, <1>6, <1>7, <1>8 DEF EmissionInv

LEMMA DeathStep ==
    ASSUME EmissionInv, EmissionDies
    PROVE  EmissionInv'
<1>1. /\ monitor # "start" /\ monitor' = "start" /\ UNCHANGED nodeVars
      /\ total' = << >> /\ scanned' = << >> /\ end_block' = 0 /\ current_height' = 0
      /\ request' = Idle /\ UNCHANGED <<topScanned, saved>>
  BY DEF EmissionDies
<1>2. UNCHANGED <<chain, highest, removed>>
  BY <1>1, ChainUntouched
<1>3. /\ << >> \in Seq(Int) /\ DOMAIN << >> = {} /\ total \in Seq(Int) /\ highest \in Nat
      /\ Idle \in RequestType /\ Idle.step = "idle" /\ Idle.sum = << >>
  BY DEF EmissionInv, EmissionTypes, Idle, RequestType
<1>4. \/ checkpoint' = checkpoint
      \/ \E k \in {"empty", "short", "cut"} : checkpoint' = [kind |-> k, sum |-> << >>]
      \/ monitor = "write" /\ checkpoint' = [kind |-> "whole", sum |-> total]
  BY DEF EmissionDies
<1>5. /\ checkpoint' \in CheckpointType /\ checkpoint'.sum \in {checkpoint.sum, << >>, total}
      /\ checkpoint'.kind = "absent" => checkpoint.kind = "absent"
      /\ checkpoint'.kind = "whole" => \/ checkpoint' = checkpoint
                                       \/ checkpoint'.sum = total /\ monitor = "write"
  <2>1. CASE checkpoint' = checkpoint
    BY <2>1 DEF EmissionInv, EmissionTypes
  <2>2. ASSUME NEW k \in {"empty", "short", "cut"}, checkpoint' = [kind |-> k, sum |-> << >>]
        PROVE  checkpoint' \in CheckpointType /\ checkpoint'.sum = << >> /\ checkpoint'.kind = k
    BY <1>3, <2>2 DEF CheckpointType
  <2>3. CASE monitor = "write" /\ checkpoint' = [kind |-> "whole", sum |-> total]
    BY <1>3, <2>3 DEF CheckpointType
  <2>4. QED
    BY <1>4, <2>1, <2>2, <2>3
<1>6. EmissionTypes'
  BY <1>1, <1>2, <1>3, <1>5 DEF EmissionInv, EmissionTypes, Threads
<1>7. HeightsInOrder'
  BY <1>1, <1>2, <1>3 DEF EmissionInv, HeightsInOrder
<1>8. CountedIsSettled' /\ AllWereRead'
  BY <1>1, <1>2, <1>3, <1>5 DEF EmissionInv, CountedIsSettled, Settled, AllWereRead, WasRead
<1>9. SavedIsCounted'
  BY <1>1, <1>5 DEF EmissionInv, SavedIsCounted
<1>10. QED
  BY <1>6, <1>7, <1>8, <1>9 DEF EmissionInv

LEMMA EmissionGoesOn == EmissionInv /\ [EmissionNext]_emissionVars => EmissionInv'
<1> SUFFICES ASSUME EmissionInv, [EmissionNext]_emissionVars PROVE EmissionInv'
  OBVIOUS
<1>1. CASE UNCHANGED emissionVars
  <2>1. /\ UNCHANGED <<chain, highest, removed, monitor, current_height, total, scanned, end_block>>
        /\ UNCHANGED <<checkpoint, request, topScanned, saved>>
    BY <1>1 DEF emissionVars, nodeVars, threadVars
  <2>2. QED
    BY <2>1 DEF EmissionInv, EmissionTypes, HeightsInOrder, CountedIsSettled, Settled, AllWereRead,
       WasRead, SavedIsCounted
<1>2. CASE EmissionNext
  BY <1>2, AddBlockStep, RemoveBlocksStep, StartStep, WakeOrSleepStep, SetLimitStep, ScanBlockStep,
     StoreTotalStep, CheckpointStep, RequestStep, DeathStep
  DEF EmissionNext, EmissionThread, EmissionRequest
<1>3. QED
  BY <1>1, <1>2

\* The blocks that the thread has counted, and those it would count again from its
\* checkpoint, are settled ones (CurrentBlockchainStatus.cpp).
THEOREM EmissionInvariant == EmissionSpec => []EmissionInv
BY EmissionStarts, EmissionGoesOn, PTL DEF EmissionSpec

\* What the monitoring thread counts, saves and loads again are blocks of the chain, unless
\* a full chunk has ended among the top ones; and a block is counted as nothing only when
\* blocks were removed (CurrentBlockchainStatus.cpp).
THEOREM CountsTheChain == EmissionSpec => []CountedBlocksStand
<1>1. EmissionInv => CountedBlocksStand
  <2> SUFFICES ASSUME EmissionInv PROVE CountedIsTheChains /\ OnlyRemovedBlocksAreMissed
    BY DEF CountedBlocksStand
  <2>1. Len(chain) \in Nat /\ highest \in Nat /\ Depth \in Nat /\ highest - Depth <= Len(chain)
    BY EmissionShapes DEF EmissionInv, HeightsInOrder
  <2>2. \A sum \in Seq(Int) : Settled(sum) =>
            \A h \in DOMAIN sum : h <= Len(chain) /\ sum[h] = chain[h]
    <3>1. \A sum \in Seq(Int) : \A h \in DOMAIN sum : h \in Nat
      BY SumShape
    <3>2. \A h \in Nat : h <= highest - Depth => h <= Len(chain)
      BY <2>1
    <3>3. QED
      BY <3>1, <3>2 DEF Settled
  <2>3. CountedIsTheChains
    BY <2>2, EmissionShapes DEF EmissionInv, EmissionTypes, CountedIsSettled, CountedIsTheChains
  <2>4. OnlyRemovedBlocksAreMissed
    BY DEF EmissionInv, AllWereRead, WasRead, OnlyRemovedBlocksAreMissed
  <2>5. QED
    BY <2>3, <2>4
<1>2. QED
  BY <1>1, EmissionInvariant, PTL

\* A checkpoint that is written counts at least the blocks of the last one, whatever deaths
\* of the process lie between them (save_current_emission_amount and
\* load_current_emission_amount of CurrentBlockchainStatus.cpp).
THEOREM CheckpointNeverShrinks == EmissionSpec => CheckpointGrows
<1>1. EmissionInv /\ [EmissionNext]_emissionVars =>
          [checkpoint'.kind = "whole" => blk_no(checkpoint'.sum) >= saved]_emissionVars
  <2> SUFFICES ASSUME EmissionInv, EmissionNext, checkpoint'.kind = "whole"
               PROVE  Len(checkpoint'.sum) >= saved
    BY DEF blk_no
  <2>1. CASE UNCHANGED checkpoint
    BY <2>1 DEF EmissionInv, SavedIsCounted
  <2>2. CASE checkpoint' = [kind |-> "whole", sum |-> total] /\ monitor = "write"
    BY <2>2 DEF EmissionInv, SavedIsCounted
  <2>3. UNCHANGED checkpoint \/ (checkpoint' = [kind |-> "whole", sum |-> total] /\ monitor = "write")
    <3>1. CASE EmissionDies
      <4>1. \/ UNCHANGED checkpoint
            \/ monitor = "write" /\ checkpoint' = [kind |-> "whole", sum |-> total]
            \/ \E k \in {"empty", "short", "cut"} : checkpoint' = [kind |-> k, sum |-> << >>]
        BY <3>1 DEF EmissionDies
      <4>2. QED
        BY <4>1
    <3>2. CASE OpenCheckpoint \/ WriteCheckpoint
      BY <3>2 DEF OpenCheckpoint, WriteCheckpoint
    <3>3. CASE AddBlock \/ RemoveBlocks \/ EmissionRequest
      BY <3>3 DEF AddBlock, RemoveBlocks, EmissionRequest, ReadTotal, ReadHeight, AddGapBlock, Answer
    <3>4. CASE start_monitor_blockchain_thread \/ Wake \/ SetLimit \/ ScanBlock \/ StoreTotal \/ Sleep
      BY <3>4 DEF start_monitor_blockchain_thread, Wake, SetLimit, ScanBlock, StoreTotal, Sleep
    <3>5. QED
      BY <3>1, <3>2, <3>3, <3>4 DEF EmissionNext, EmissionThread
  <2>4. QED
    BY <2>1, <2>2, <2>3
<1>2. QED
  BY <1>1, EmissionInvariant, PTL DEF EmissionSpec, CheckpointGrows
-----------------------------------------------------------------------------
(* MempoolMonitor.                                                         *)

\* What is parsed is a pool of the node's, in two parts; what is published is one.
PoolInv ==
    /\ mempool_txs \in Pools
    /\ checker = "parse" => local_copy \cup reply \in Pools
    /\ checker = "publish" => local_copy \in Pools /\ mempool_no = Cardinality(local_copy)
    /\ checker # "publish" => mempool_no = Cardinality(mempool_txs)

LEMMA PoolStarts == MempoolInit => PoolInv
BY MempoolOK, FS_EmptySet DEF MempoolOK, MempoolInit, PoolInv

LEMMA PoolGoesOn == PoolInv /\ [MempoolNext]_mempoolVars => PoolInv'
<1> SUFFICES ASSUME PoolInv, [MempoolNext]_mempoolVars PROVE PoolInv'
  OBVIOUS
<1>1. CASE UNCHANGED mempoolVars \/ NodeFailsOrHeals \/ NodeDelays \/ MempoolPage
  <2>1. UNCHANGED <<checker, reply, local_copy, mempool_txs, mempool_no>>
    BY <1>1 DEF mempoolVars, checkerVars, NodeFailsOrHeals, NodeDelays, MempoolPage, AskPage, LoadInfo,
       ShowPage
  <2>2. QED
    BY <2>1 DEF PoolInv
<1>2. CASE Turn \/ read_network_info \/ SleepRefresh
  BY <1>2 DEF PoolInv, Turn, read_network_info, SleepRefresh
<1>3. CASE get_mempool
  <2>1. /\ checker = "pool" /\ local_copy' = {} /\ UNCHANGED <<mempool_txs, mempool_no>>
        /\ \/ checker' = "parse" /\ reply' \in Pools
           \/ checker' = "sleep"
    BY <1>3 DEF get_mempool
  <2>2. QED
    BY <2>1 DEF PoolInv
<1>4. CASE ParseTx
  <2>1. PICK tx \in reply :
            IF tx \in BadTxs THEN checker' = "sleep" /\ UNCHANGED <<reply, local_copy>>
                             ELSE reply' = reply \ {tx} /\ local_copy' = local_copy \cup {tx}
                                  /\ UNCHANGED checker
    BY <1>4 DEF ParseTx
  <2>2. checker = "parse" /\ UNCHANGED <<mempool_txs, mempool_no>>
    BY <1>4 DEF ParseTx
  <2>3. tx \notin BadTxs => local_copy' \cup reply' = local_copy \cup reply
    BY <2>1
  <2>4. QED
    BY <2>1, <2>2, <2>3 DEF PoolInv
<1>5. CASE PublishNumber
  <2>1. local_copy \in Pools
    <3>1. reply = {} /\ local_copy \cup reply \in Pools
      BY <1>5 DEF PublishNumber, PoolInv
    <3>2. local_copy \cup reply = local_copy
      BY <3>1
    <3>3. QED
      BY <3>1, <3>2
  <2>2. QED
    BY <1>5, <2>1 DEF PublishNumber, PoolInv
<1>6. CASE PublishTxs
  BY <1>6 DEF PublishTxs, PoolInv
<1>7. QED
  BY <1>1, <1>2, <1>3, <1>4, <1>5, <1>6 DEF MempoolNext, MempoolThread

\* What the pages list is a whole pool of the node's, and but for the moment in which it
\* is published the number shown is that of the list (read_mempool of MempoolStatus.cpp).
THEOREM PagesListOnePool == MempoolSpec => []ListIsOnePool
<1>1. PoolInv => ListIsOnePool
  BY DEF PoolInv, ListIsOnePool
<1>2. QED
  BY <1>1, PoolStarts, PoolGoesOn, PTL DEF MempoolSpec

\* The age of the network information by the count of the loop: a turn lasts one unit and
\* at most MaxDelay more, and the attempt is repeated after Divider turns.  Information
\* that is no longer marked as current is at least that old.
PageSteps == {"none", "asked", "loaded"}
InfoTypes ==
    /\ loop_index \in Nat /\ delayed \in Nat /\ delayed <= MaxDelay
    /\ age \in Nat /\ current \in BOOLEAN
    /\ checker \in {"turn", "info", "pool", "parse", "publish", "sleep"}
    /\ page \in [step : PageSteps, since : Nat, fresh : BOOLEAN, current : BOOLEAN]
AgeByTurns ==
    current =>
        /\ loop_index <= age
        /\ age <= loop_index * (1 + MaxDelay) + delayed
        /\ checker = "turn" => age <= loop_index * (1 + MaxDelay)
        /\ checker = "turn" => 1 <= loop_index /\ loop_index <= Divider
        /\ checker = "info" => loop_index = Divider
        /\ checker \in {"pool", "parse", "publish", "sleep"} => loop_index < Divider
InfoInv ==
    /\ InfoTypes /\ AgeByTurns
    /\ ~current => age >= Divider
    /\ FreshInfoIsTrusted

LEMMA InfoNumbers ==
    /\ Divider \in Nat /\ Divider >= 1 /\ MaxDelay \in Nat /\ MaxRender \in Nat /\ Young \in Nat
    /\ Longest \in Nat /\ Longest = Divider * (1 + MaxDelay) + MaxDelay
    /\ Oldest \in Nat /\ Longest < Oldest /\ Divider <= Longest
<1>1. /\ Divider \in Nat /\ Divider >= 1 /\ MaxDelay \in Nat /\ MaxRender \in Nat /\ Young \in Nat
  BY MempoolOK DEF MempoolOK
<1>2. Divider * (1 + MaxDelay) = Divider + Divider * MaxDelay /\ Divider * MaxDelay \in Nat
  BY <1>1
<1>3. Longest \in Nat /\ Longest = Divider * (1 + MaxDelay) + MaxDelay /\ Divider <= Longest
  BY <1>1, <1>2 DEF Longest
<1>4. Oldest \in Nat /\ Longest < Oldest
  BY <1>1, <1>3 DEF Oldest
<1>5. QED
  BY <1>1, <1>3, <1>4

LEMMA TurnsTimesUnits ==
    ASSUME NEW n \in Nat
    PROVE  /\ n * (1 + MaxDelay) \in Nat
           /\ (n + 1) * (1 + MaxDelay) = n * (1 + MaxDelay) + 1 + MaxDelay
           /\ n <= Divider => n * (1 + MaxDelay) <= Divider * (1 + MaxDelay)
<1>1. PICK d \in Nat : d = 1 + MaxDelay
  BY InfoNumbers
<1>2. \A m \in Nat : n <= m => n * d <= m * d
  OBVIOUS
<1>3. n * d \in Nat /\ (n + 1) * d = n * d + d
  OBVIOUS
<1>4. QED
  BY <1>1, <1>2, <1>3, InfoNumbers

LEMMA InfoAgeBound == InfoTypes /\ AgeByTurns => CurrentIsRecent
<1> SUFFICES ASSUME InfoTypes, AgeByTurns, current PROVE age <= Longest
  BY DEF CurrentIsRecent
<1>1. loop_index \in Nat /\ delayed \in Nat /\ age \in Nat /\ delayed <= MaxDelay
  BY DEF InfoTypes
<1>2. loop_index <= Divider
  BY <1>1, InfoNumbers DEF InfoTypes, AgeByTurns
<1>3. age <= loop_index * (1 + MaxDelay) + delayed
  BY DEF AgeByTurns
<1>4. PICK a \in Nat, b \in Nat : a = loop_index * (1 + MaxDelay) /\ b = Divider * (1 + MaxDelay) /\ a <= b
  BY <1>1, <1>2, TurnsTimesUnits, InfoNumbers
<1>5. QED
  BY <1>1, <1>3, <1>4, InfoNumbers

LEMMA NoPageIsAPage ==
    /\ NoPage \in [step : PageSteps, since : Nat, fresh : BOOLEAN, current : BOOLEAN]
    /\ NoPage.step = "none"
    /\ LET p == [NoPage EXCEPT !.step = "asked"]
       IN  /\ p \in [step : PageSteps, since : Nat, fresh : BOOLEAN, current : BOOLEAN]
           /\ p.step = "asked"
<1>1. 0 \in Nat /\ FALSE \in BOOLEAN
  OBVIOUS
<1>2. QED
  BY <1>1 DEF NoPage, PageSteps

LEMMA InfoStarts == MempoolInit => InfoInv
<1> SUFFICES ASSUME MempoolInit PROVE InfoInv
  OBVIOUS
<1>1. /\ checker = "turn" /\ loop_index = 0 /\ delayed = 0 /\ age = Oldest /\ current = FALSE /\ page = NoPage
  BY DEF MempoolInit
<1>2. InfoTypes
  <2>1. NoPage \in [step : PageSteps, since : Nat, fresh : BOOLEAN, current : BOOLEAN]
    BY Zenon, NoPageIsAPage
  <2>2. loop_index \in Nat /\ delayed \in Nat /\ delayed <= MaxDelay /\ age \in Nat
    BY <1>1, InfoNumbers
  <2>3. current \in BOOLEAN
    BY <1>1, Zenon
  <2>4. QED
    BY <1>1, <2>1, <2>2, <2>3, Zenon DEF InfoTypes
<1>3. AgeByTurns /\ FreshInfoIsTrusted
  BY <1>1 DEF AgeByTurns, FreshInfoIsTrusted, NoPage
<1>4. age >= Divider
  BY <1>1, InfoNumbers
<1>5. QED
  BY <1>2, <1>3, <1>4 DEF InfoInv

\* A unit of time, for the information and for the page.
LEMMA UnitPasses ==
    ASSUME InfoInv, age' = Older(age), page' = Later(page), UNCHANGED current
    PROVE  /\ age' \in Nat /\ age' >= age /\ (current => age' = age + 1)
           /\ page' \in [step : PageSteps, since : Nat, fresh : BOOLEAN, current : BOOLEAN]
           /\ FreshInfoIsTrusted' /\ (~current' => age' >= Divider)
<1>1. age \in Nat /\ page \in [step : PageSteps, since : Nat, fresh : BOOLEAN, current : BOOLEAN]
  BY DEF InfoInv, InfoTypes
<1>2. current => age < Oldest
  <2>1. current => age <= Longest
    BY InfoAgeBound DEF InfoInv, CurrentIsRecent
  <2>2. QED
    BY <1>1, <2>1, InfoNumbers
<1>3. age' \in Nat /\ age' >= age /\ (current => age' = age + 1)
  BY <1>1, <1>2, InfoNumbers DEF Older
<1>4. page' \in [step : PageSteps, since : Nat, fresh : BOOLEAN, current : BOOLEAN]
  BY <1>1 DEF Later
<1>5. FreshInfoIsTrusted'
  BY <1>1 DEF Later, InfoInv, FreshInfoIsTrusted
<1>6. ~current' => age' >= Divider
  BY <1>1, <1>3, InfoNumbers DEF InfoInv
<1>7. QED
  BY <1>3, <1>4, <1>5, <1>6

LEMMA DelayStep ==
    ASSUME InfoInv, NodeDelays
    PROVE  InfoInv'
<1>1. /\ checker \in {"info", "pool"} /\ delayed < MaxDelay /\ delayed' = delayed + 1
      /\ age' = Older(age) /\ page' = Later(page) /\ UNCHANGED <<checker, loop_index, current>>
  BY DEF NodeDelays
<1>2. loop_index \in Nat /\ delayed \in Nat /\ age \in Nat /\ MaxDelay \in Nat
  BY InfoNumbers DEF InfoInv, InfoTypes
<1>3. /\ age' \in Nat /\ age' >= age /\ (current => age' = age + 1)
      /\ page' \in [step : PageSteps, since : Nat, fresh : BOOLEAN, current : BOOLEAN]
      /\ FreshInfoIsTrusted' /\ (~current' => age' >= Divider)
  BY <1>1, UnitPasses
<1>4. InfoTypes'
  BY <1>1, <1>2, <1>3 DEF InfoInv, InfoTypes
<1>5. AgeByTurns'
  <2> SUFFICES ASSUME current
               PROVE  AgeByTurns'
    BY <1>1 DEF AgeByTurns
  <2>1. PICK a \in Nat : a = loop_index * (1 + MaxDelay)
    BY <1>2, TurnsTimesUnits
  <2>2. loop_index <= age /\ age <= a + delayed
    BY <2>1 DEF InfoInv, AgeByTurns
  <2>3. loop_index <= age' /\ age' <= a + delayed'
    BY <1>1, <1>2, <1>3, <2>2
  <2>4. /\ checker = "info" => loop_index = Divider
        /\ checker \in {"pool", "parse", "publish", "sleep"} => loop_index < Divider
    BY DEF InfoInv, AgeByTurns
  <2>5. QED
    BY <1>1, <2>1, <2>3, <2>4 DEF AgeByTurns
<1>6. QED
  BY <1>3, <1>4, <1>5 DEF InfoInv

LEMMA SleepStep ==
    ASSUME InfoInv, SleepRefresh
    PROVE  InfoInv'
<1>1. /\ checker = "sleep" /\ checker' = "turn" /\ loop_index' = NextIndex(loop_index)
      /\ age' = Older(age) /\ page' = Later(page) /\ UNCHANGED <<delayed, current>>
  BY DEF SleepRefresh
<1>2. loop_index \in Nat /\ delayed \in Nat /\ age \in Nat /\ MaxDelay \in Nat /\ delayed <= MaxDelay
  BY InfoNumbers DEF InfoInv, InfoTypes
<1>3. /\ age' \in Nat /\ age' >= age /\ (current => age' = age + 1)
      /\ page' \in [step : PageSteps, since : Nat, fresh : BOOLEAN, current : BOOLEAN]
      /\ FreshInfoIsTrusted' /\ (~current' => age' >= Divider)
  BY <1>1, UnitPasses
<1>4. loop_index' \in Nat
  BY <1>1, <1>2, InfoNumbers DEF NextIndex
<1>5. InfoTypes'
  BY <1>1, <1>3, <1>4 DEF InfoInv, InfoTypes
<1>6. AgeByTurns'
  <2> SUFFICES ASSUME current
               PROVE  AgeByTurns'
    BY <1>1 DEF AgeByTurns
  <2>1. PICK a \in Nat : a = loop_index * (1 + MaxDelay)
                        /\ (loop_index + 1) * (1 + MaxDelay) = a + 1 + MaxDelay
    BY <1>2, TurnsTimesUnits
  <2>2. loop_index <= age /\ age <= a + delayed /\ loop_index < Divider
    BY <1>1, <2>1 DEF InfoInv, AgeByTurns
  <2>3. loop_index' = loop_index + 1
    BY <1>1, <1>2, <2>2, InfoNumbers DEF NextIndex
  <2>4. loop_index' <= age' /\ age' <= a + 1 + MaxDelay /\ 1 <= loop_index' /\ loop_index' <= Divider
    BY <1>2, <1>3, <2>2, <2>3, InfoNumbers
  <2>5. age' <= loop_index' * (1 + MaxDelay) /\ loop_index' * (1 + MaxDelay) \in Nat
    BY <1>4, <2>1, <2>3, <2>4, TurnsTimesUnits
  <2>6. age' <= loop_index' * (1 + MaxDelay) + delayed'
    BY <1>1, <1>2, <1>3, <2>5
  <2>7. QED
    BY <1>1, <2>4, <2>5, <2>6 DEF AgeByTurns
<1>7. QED
  BY <1>3, <1>5, <1>6 DEF InfoInv

LEMMA TurnStep ==
    ASSUME InfoInv, Turn
    PROVE  InfoInv'
<1>1. /\ checker = "turn" /\ delayed' = 0 /\ UNCHANGED <<loop_index, age, current, page>>
      /\ \/ checker' = "info" /\ loop_index % Divider = 0
         \/ checker' = "pool" /\ loop_index % Divider # 0
  BY DEF Turn
<1>2. InfoTypes'
  BY <1>1, InfoNumbers DEF InfoInv, InfoTypes
<1>3. AgeByTurns'
  <2> SUFFICES ASSUME current
               PROVE  AgeByTurns'
    BY <1>1 DEF AgeByTurns
  <2>1. /\ loop_index <= age /\ age <= loop_index * (1 + MaxDelay)
        /\ 1 <= loop_index /\ loop_index <= Divider
    BY <1>1 DEF InfoInv, AgeByTurns
  <2>2. loop_index \in 1 .. Divider /\ Divider \in Nat \ {0} /\ loop_index \in Nat /\ age \in Nat
    BY <2>1, InfoNumbers DEF InfoInv, InfoTypes
  <2>3. \A d \in Nat \ {0} : \A n \in 1 .. d : n % d = 0 <=> n = d
    OBVIOUS
  <2>4. /\ checker' = "info" => loop_index = Divider
        /\ checker' = "pool" => loop_index < Divider
    BY <1>1, <2>2, <2>3
  <2>5. age <= loop_index * (1 + MaxDelay) + 0
    BY <2>1, <2>2, TurnsTimesUnits
  <2>6. QED
    BY <1>1, <2>1, <2>4, <2>5 DEF AgeByTurns
<1>4. QED
  BY <1>1, <1>2, <1>3 DEF InfoInv, FreshInfoIsTrusted

\* The mark is taken away only Divider turns after the last reading.
LEMMA ReadInfoStep ==
    ASSUME InfoInv, read_network_info
    PROVE  InfoInv'
<1>1. /\ checker = "info" /\ checker' = "pool" /\ UNCHANGED <<delayed, page>>
      /\ \/ current' = TRUE /\ age' = 0 /\ loop_index' = 0
         \/ current' = FALSE /\ UNCHANGED <<age, loop_index>>
  BY DEF read_network_info
<1>2. InfoTypes'
  <2>1. age' \in Nat /\ loop_index' \in Nat
    BY <1>1 DEF InfoInv, InfoTypes
  <2>2. current' \in BOOLEAN
    BY <1>1, Zenon
  <2>3. QED
    BY <1>1, <2>1, <2>2 DEF InfoInv, InfoTypes
<1>3. AgeByTurns'
  <2>1. 0 * (1 + MaxDelay) = 0 /\ delayed \in Nat
    BY InfoNumbers DEF InfoInv, InfoTypes
  <2>2. QED
    BY <1>1, <2>1, InfoNumbers DEF AgeByTurns
<1>4. ~current' => age' >= Divider
  BY <1>1, InfoNumbers DEF InfoInv, InfoTypes, AgeByTurns
<1>5. FreshInfoIsTrusted'
  BY <1>1 DEF InfoInv, FreshInfoIsTrusted
<1>6. QED
  BY <1>2, <1>3, <1>4, <1>5 DEF InfoInv

LEMMA OtherThreadStep ==
    ASSUME InfoInv, get_mempool \/ ParseTx \/ PublishNumber \/ PublishTxs
    PROVE  InfoInv'
<1>1. /\ UNCHANGED <<loop_index, delayed, age, current, page>>
      /\ checker \in {"pool", "parse", "publish", "sleep"}
      /\ checker' \in {"pool", "parse", "publish", "sleep"}
  BY DEF get_mempool, ParseTx, PublishNumber, PublishTxs
<1>2. QED
  BY <1>1 DEF InfoInv, InfoTypes, AgeByTurns, FreshInfoIsTrusted

\* A page that doubts fresh information was asked for before it was read, and the attempt
\* that failed since came Divider turns after the reading.
LEMMA PageStep ==
    ASSUME InfoInv, MempoolPage
    PROVE  InfoInv'
<1>1. UNCHANGED <<checker, loop_index, delayed, age, current>>
  BY DEF MempoolPage, AskPage, LoadInfo, ShowPage, checkerVars
<1>2. /\ page \in [step : PageSteps, since : Nat, fresh : BOOLEAN, current : BOOLEAN]
      /\ age \in Nat /\ page.since \in Nat /\ current \in BOOLEAN
  BY DEF InfoInv, InfoTypes
<1>3. /\ page' \in [step : PageSteps, since : Nat, fresh : BOOLEAN, current : BOOLEAN]
      /\ FreshInfoIsTrusted'
  <2>1. CASE AskPage \/ ShowPage
    <3>1. page' = NoPage \/ page' = [NoPage EXCEPT !.step = "asked"]
      BY <2>1, Zenon DEF AskPage, ShowPage
    <3>2. /\ page' \in [step : PageSteps, since : Nat, fresh : BOOLEAN, current : BOOLEAN]
          /\ page'.step # "loaded"
      BY <3>1, NoPageIsAPage
    <3>3. QED
      BY <3>2 DEF FreshInfoIsTrusted
  <2>2. CASE LoadInfo
    <3>0. /\ (age < Young) \in BOOLEAN
          /\ (current \/ (age >= page.since /\ age - page.since < Young)) \in BOOLEAN
      OBVIOUS
    <3>1. PICK f \in BOOLEAN, c \in BOOLEAN :
              /\ f <=> (age < Young)
              /\ c <=> (current \/ (age >= page.since /\ age - page.since < Young))
              /\ page' = [page EXCEPT !.step = "loaded", !.fresh = f, !.current = c]
      BY <2>2, <3>0, Zenon DEF LoadInfo
    <3>2. /\ page'.since = page.since /\ page'.fresh = f /\ page'.current = c
          /\ page' \in [step : PageSteps, since : Nat, fresh : BOOLEAN, current : BOOLEAN]
      BY <1>2, <3>1 DEF PageSteps
    <3>3. f /\ ~c => page.since > Divider
      <4>1. f /\ ~c => age < Young /\ ~current /\ ~(age >= page.since /\ age - page.since < Young)
        BY <3>1
      <4>2. ~current => age >= Divider
        BY DEF InfoInv
      <4>3. age < Young /\ ~(age >= page.since /\ age - page.since < Young) => age < page.since
        BY <1>2, InfoNumbers
      <4>4. age >= Divider /\ age < page.since => page.since > Divider
        BY <1>2, InfoNumbers
      <4>5. QED
        BY <4>1, <4>2, <4>3, <4>4
    <3>4. QED
      BY <3>2, <3>3 DEF FreshInfoIsTrusted
  <2>3. QED
    BY <2>1, <2>2 DEF MempoolPage
<1>4. InfoTypes' /\ AgeByTurns'
  BY <1>1, <1>3 DEF InfoInv, InfoTypes, AgeByTurns
<1>5. QED
  BY <1>1, <1>3, <1>4 DEF InfoInv

LEMMA InfoGoesOn == InfoInv /\ [MempoolNext]_mempoolVars => InfoInv'
<1> SUFFICES ASSUME InfoInv, [MempoolNext]_mempoolVars PROVE InfoInv'
  OBVIOUS
<1>1. CASE UNCHANGED mempoolVars \/ NodeFailsOrHeals
  <2>1. UNCHANGED <<checker, loop_index, delayed, age, current, page>>
    BY <1>1 DEF mempoolVars, checkerVars, NodeFailsOrHeals
  <2>2. QED
    BY <2>1 DEF InfoInv, InfoTypes, AgeByTurns, FreshInfoIsTrusted
<1>2. CASE MempoolNext
  BY <1>1, <1>2, DelayStep, SleepStep, TurnStep, ReadInfoStep, OtherThreadStep, PageStep
  DEF MempoolNext, MempoolThread
<1>3. QED
  BY <1>1, <1>2

\* Information marked as current is at most a minute of turns and their delays old, and a
\* page doubts fresh information only if it took more than a minute to render
\* (MempoolStatus.cpp, index2 of page.h).
THEOREM InfoIsAsOldAsItSeems == MempoolSpec => []InfoIsWhatItSeems
<1>1. InfoInv => InfoIsWhatItSeems
  BY InfoAgeBound DEF InfoInv, InfoIsWhatItSeems
<1>2. QED
  BY <1>1, InfoStarts, InfoGoesOn, PTL DEF MempoolSpec
-----------------------------------------------------------------------------
(* The pages that list blocks.  A block that was read and is not in the chain any more
   is a removed one: it came before the last removal, and never comes back. *)
StandsAt(h, b) == HasHeight(h) /\ blocks[h + 1] = b
GoneFrom(h, b) == b < reorgs /\ ~StandsAt(h, b)
WasThere(h, b) == StandsAt(h, b) \/ GoneFrom(h, b)

ReadRows == [height : Int, block : Nat, hash : Int]
ShownPages == [step : {"none", "block", "hash", "rows"}, kind : {"index2", "json_transactions"},
               number : Nat, height : Nat, first : Int, i : Int, block : Nat, hash : Int,
               rows : SUBSET ReadRows, wrong : SUBSET Int]
PagesTypes ==
    /\ blocks \in Seq(Nat) /\ reorgs \in Nat
    /\ \A k \in 1 .. Len(blocks) : blocks[k] <= reorgs
    /\ shown \in ShownPages
    /\ \A h \in DOMAIN items : items[h] \in ReadRows /\ items[h].height = h
    /\ reader \in [next : Nat, seen : SUBSET Int, from : Nat, done : BOOLEAN]

\* Rows are those of a block that was there, under its own hash unless it is gone.
RowIsSound(r) == WasThere(r.height, r.block) /\ (r.hash # r.block => GoneFrom(r.height, r.block))
RowsAreSound ==
    /\ \A h \in DOMAIN items : RowIsSound(items[h])
    /\ \A r \in shown.rows : RowIsSound(r)
    /\ shown.step \in {"hash", "rows"} => WasThere(shown.i, shown.block)
    /\ shown.step = "rows" /\ shown.hash # shown.block => GoneFrom(shown.i, shown.block)

\* What stood while the page is rendered.
StoodSincePage ==
    /\ shown.step # "none" => \A h \in Int : \A b \in Nat : StandsAt(h, b) => <<h, b>> \in stood
    /\ shown.step \in {"hash", "rows"} => <<shown.i, shown.block>> \in stood
    /\ \A r \in shown.rows : <<r.height, r.block>> \in stood \/ r.height + SpendableAge <= shown.height
    /\ shown.step = "none" => shown.rows = {}

\* How far the reader has come, while no block is removed: what he has not seen yet is
\* below the pages he has turned, however much the chain has grown since.
PagesTurned ==
    /\ reader.from <= Len(blocks)
    /\ \A h \in 0 .. reader.from - 1 :
          h >= Len(blocks) - PageLength * reader.next => h \in reader.seen
    /\ reader.done => \A h \in 0 .. reader.from - 1 : h \in reader.seen
PageUnderWay ==
    shown.step # "none" =>
        /\ shown.number = reader.next /\ shown.first = firstHeight(shown.height, shown.number)
        /\ reader.from <= shown.height /\ shown.height <= Len(blocks)
        /\ \A h \in 0 .. reader.from - 1 :
              h >= shown.height - PageLength * shown.number => h \in reader.seen
        /\ \A h \in 0 .. shown.height - 1 :
              (shown.first <= h /\ h <= shown.first + PageLength - 1 /\ shown.i < h)
                  => \E r \in shown.rows : r.height = h
ReaderKeepsUp == reorgs = 0 => PagesTurned /\ PageUnderWay

PagesInv == PagesTypes /\ RowsAreSound /\ StoodSincePage /\ ReaderKeepsUp

LEMMA PagesNumbers ==
    /\ PageLength \in Nat /\ PageLength >= 1 /\ SpendableAge \in Nat
    /\ FirstLength \in Nat /\ FirstLength >= 1
BY PagesOK DEF PagesOK

LEMMA ChainElements ==
    ASSUME NEW c \in Seq(Nat), NEW h, NEW b
    PROVE  <<h, b>> \in Chain(c) <=> h \in 0 .. Len(c) - 1 /\ c[h + 1] = b
<1>1. <<h, b>> \in Chain(c) => h \in 0 .. Len(c) - 1 /\ c[h + 1] = b
  <2> SUFFICES ASSUME <<h, b>> \in Chain(c) PROVE h \in 0 .. Len(c) - 1 /\ c[h + 1] = b
    OBVIOUS
  <2>1. PICK k \in DOMAIN c : <<h, b>> = <<k - 1, c[k]>>
    BY DEF Chain
  <2>2. k \in 1 .. Len(c) /\ h = k - 1 /\ b = c[k]
    BY <2>1
  <2>3. h + 1 = k
    BY <2>2
  <2>4. QED
    BY <2>2, <2>3
<1>2. h \in 0 .. Len(c) - 1 /\ c[h + 1] = b => <<h, b>> \in Chain(c)
  <2> SUFFICES ASSUME h \in 0 .. Len(c) - 1, c[h + 1] = b PROVE <<h, b>> \in Chain(c)
    OBVIOUS
  <2>1. h + 1 \in DOMAIN c /\ (h + 1) - 1 = h
    OBVIOUS
  <2>2. QED
    BY <2>1 DEF Chain
<1>3. QED
  BY <1>1, <1>2

LEMMA NoPageYetIsAPage ==
    /\ NoPageYet \in ShownPages /\ NoPageYet.step = "none" /\ NoPageYet.rows = {}
    /\ NoPageYet.i = 0
BY DEF NoPageYet, ShownPages, ReadRows, null_hash

LEMMA NewReaderIsAReader ==
    /\ NewReader \in [next : Nat, seen : SUBSET Int, from : Nat, done : BOOLEAN]
    /\ NewReader.from = 0 /\ NewReader.next = 0
BY DEF NewReader

\* The page after an update of some of its fields, and the reader who turns it.
WithHash(p, b)      == [p EXCEPT !.step = "rows", !.hash = b]
WithRows(p, rs, n)  == [p EXCEPT !.rows = rs, !.step = "block", !.i = n]
WithWrong(p, hs, n) == [p EXCEPT !.wrong = hs, !.step = "block", !.i = n]
Asked(p, k, n, l, f, e) ==
    [p EXCEPT !.step = "block", !.kind = k, !.number = n, !.height = l, !.first = f, !.i = e]
SamePage(q, p) == q.number = p.number /\ q.height = p.height /\ q.first = p.first

LEMMA PageWithHash ==
    ASSUME NEW p \in ShownPages, NEW b \in Int
    PROVE  /\ WithHash(p, b) \in ShownPages /\ SamePage(WithHash(p, b), p)
           /\ WithHash(p, b).step = "rows" /\ WithHash(p, b).i = p.i /\ WithHash(p, b).block = p.block
           /\ WithHash(p, b).hash = b /\ WithHash(p, b).rows = p.rows
<1>1. WithHash(p, b) \in ShownPages
  BY DEF ShownPages, WithHash
<1>2. QED
  BY <1>1 DEF ShownPages, WithHash, SamePage

LEMMA PageWithRows ==
    ASSUME NEW p \in ShownPages, NEW rs \in SUBSET ReadRows, NEW n \in Int
    PROVE  /\ WithRows(p, rs, n) \in ShownPages /\ SamePage(WithRows(p, rs, n), p)
           /\ WithRows(p, rs, n).step = "block" /\ WithRows(p, rs, n).i = n
           /\ WithRows(p, rs, n).rows = rs
<1>1. WithRows(p, rs, n) \in ShownPages
  BY DEF ShownPages, WithRows
<1>2. QED
  BY <1>1 DEF ShownPages, WithRows, SamePage

LEMMA PageWithWrong ==
    ASSUME NEW p \in ShownPages, NEW hs \in SUBSET Int, NEW n \in Int
    PROVE  /\ WithWrong(p, hs, n) \in ShownPages /\ SamePage(WithWrong(p, hs, n), p)
           /\ WithWrong(p, hs, n).step = "block" /\ WithWrong(p, hs, n).i = n
           /\ WithWrong(p, hs, n).rows = p.rows
<1>1. WithWrong(p, hs, n) \in ShownPages
  BY DEF ShownPages, WithWrong
<1>2. QED
  BY <1>1 DEF ShownPages, WithWrong, SamePage

LEMMA PageAskedFor ==
    ASSUME NEW p \in ShownPages, NEW k \in {"index2", "json_transactions"}, NEW n \in Nat,
           NEW l \in Nat, NEW f \in Int, NEW e \in Int
    PROVE  /\ Asked(p, k, n, l, f, e) \in ShownPages /\ Asked(p, k, n, l, f, e).step = "block"
           /\ Asked(p, k, n, l, f, e).rows = p.rows /\ Asked(p, k, n, l, f, e).number = n
           /\ Asked(p, k, n, l, f, e).height = l /\ Asked(p, k, n, l, f, e).first = f
           /\ Asked(p, k, n, l, f, e).i = e
<1>1. Asked(p, k, n, l, f, e) \in ShownPages
  BY DEF ShownPages, Asked
<1>2. QED
  BY <1>1 DEF ShownPages, Asked

LEMMA PageTurned ==
    ASSUME NEW p \in [next : Nat, seen : SUBSET Int, from : Nat, done : BOOLEAN],
           NEW n \in Nat, NEW hs \in SUBSET Int, NEW l \in BOOLEAN, NEW q,
           q = [p EXCEPT !.next = n, !.seen = hs, !.done = l]
    PROVE  /\ q \in [next : Nat, seen : SUBSET Int, from : Nat, done : BOOLEAN]
           /\ q.next = n /\ q.seen = hs /\ q.from = p.from /\ q.done = l
<1>1. q \in [next : Nat, seen : SUBSET Int, from : Nat, done : BOOLEAN]
  OBVIOUS
<1>2. QED
  BY <1>1

LEMMA PagesStart == PagesInit => PagesInv
<1> SUFFICES ASSUME PagesInit PROVE PagesInv
  OBVIOUS
<1>1. /\ blocks = [h \in 1 .. FirstLength |-> 0] /\ reorgs = 0 /\ items = << >>
      /\ shown = NoPageYet /\ reader = NewReader
  BY DEF PagesInit
<1>2. blocks \in Seq(Nat) /\ Len(blocks) \in Nat /\ \A k \in 1 .. Len(blocks) : blocks[k] <= reorgs
  BY <1>1, PagesNumbers
<1>3. DOMAIN items = {}
  BY <1>1
<1>4. PagesTypes
  BY <1>1, <1>2, <1>3, NoPageYetIsAPage, NewReaderIsAReader DEF PagesTypes
<1>5. RowsAreSound /\ StoodSincePage
  BY <1>1, <1>3, NoPageYetIsAPage DEF RowsAreSound, StoodSincePage
<1>6. ReaderKeepsUp
  <2>1. reader.from = 0
    BY <1>1, NewReaderIsAReader
  <2>2. 0 .. 0 - 1 = {} /\ 0 <= Len(blocks)
    BY <1>2
  <2>3. shown.step = "none"
    BY <1>1, NoPageYetIsAPage
  <2>4. QED
    BY <2>1, <2>2, <2>3, Zenon DEF ReaderKeepsUp, PagesTurned, PageUnderWay
<1>7. QED
  BY <1>4, <1>5, <1>6 DEF PagesInv

\* A block that was there still was, and one that is gone stays away.
LEMMA ChainSteps ==
    ASSUME PagesTypes, NodeAdds \/ NodeRemoves
    PROVE  /\ blocks' \in Seq(Nat) /\ reorgs' \in Nat
           /\ \A k \in 1 .. Len(blocks') : blocks'[k] <= reorgs'
           /\ \A h \in Int : \A b \in Nat :
                 (WasThere(h, b) => WasThere(h, b)') /\ (GoneFrom(h, b) => GoneFrom(h, b)')
<1>1. /\ blocks \in Seq(Nat) /\ reorgs \in Nat /\ Len(blocks) \in Nat
      /\ \A k \in 1 .. Len(blocks) : blocks[k] \in Nat /\ blocks[k] <= reorgs
  BY DEF PagesTypes
<1>2. CASE NodeAdds
  <2>1. /\ blocks' \in Seq(Nat) /\ Len(blocks') = Len(blocks) + 1 /\ reorgs' = reorgs
        /\ \A k \in 1 .. Len(blocks) : blocks'[k] = blocks[k]
        /\ blocks'[Len(blocks) + 1] = reorgs
    BY <1>1, <1>2 DEF NodeAdds
  <2>2. ASSUME NEW k \in 1 .. Len(blocks')
        PROVE  blocks'[k] <= reorgs'
    <3>1. k \in 1 .. Len(blocks) \/ k = Len(blocks) + 1
      BY <1>1, <2>1
    <3>2. QED
      BY <1>1, <2>1, <3>1
  <2>3. ASSUME NEW h \in Int, NEW b \in Nat
        PROVE  (WasThere(h, b) => WasThere(h, b)') /\ (GoneFrom(h, b) => GoneFrom(h, b)')
    BY <1>1, <2>1 DEF WasThere, GoneFrom, StandsAt, HasHeight
  <2>4. QED
    BY <2>1, <2>2, <2>3, <1>1
<1>3. CASE NodeRemoves
  <2>1. PICK n \in 1 .. Replaceable : n < Len(blocks) /\ blocks' = SubSeq(blocks, 1, Len(blocks) - n)
    BY <1>3 DEF NodeRemoves
  <2>2. /\ blocks' \in Seq(Nat) /\ Len(blocks') = Len(blocks) - n /\ reorgs' = reorgs + 1
        /\ \A k \in 1 .. Len(blocks') : blocks'[k] = blocks[k]
    <3>1. reorgs' = reorgs + 1
      BY <1>3 DEF NodeRemoves
    <3>2. Len(blocks') = Len(blocks) - n /\ \A k \in 1 .. Len(blocks') : blocks'[k] = blocks[k]
      BY <1>1, <2>1
    <3>3. blocks' \in Seq(Nat)
      BY <1>1, <2>1
    <3>4. QED
      BY <3>1, <3>2, <3>3
  <2>3. ASSUME NEW k \in 1 .. Len(blocks')
        PROVE  blocks'[k] <= reorgs'
    <3>1. k \in 1 .. Len(blocks)
      BY <1>1, <2>1, <2>2
    <3>2. QED
      BY <1>1, <2>2, <3>1
  <2>4. ASSUME NEW h \in Int, NEW b \in Nat
        PROVE  (WasThere(h, b) => WasThere(h, b)') /\ (GoneFrom(h, b) => GoneFrom(h, b)')
    <3>1. StandsAt(h, b)' => StandsAt(h, b)
      BY <1>1, <2>1, <2>2 DEF StandsAt, HasHeight
    <3>2. StandsAt(h, b) => b <= reorgs
      BY <1>1 DEF StandsAt, HasHeight
    <3>3. reorgs' = reorgs + 1 /\ reorgs \in Nat
      BY <1>1, <2>2
    <3>4. QED
      BY <3>1, <3>2, <3>3 DEF WasThere, GoneFrom
  <2>5. QED
    BY <2>2, <2>3, <2>4, <1>1
<1>4. QED
  BY <1>2, <1>3

LEMMA NodeKeepsRows ==
    ASSUME PagesInv, NodeAdds \/ NodeRemoves
    PROVE  PagesTypes' /\ RowsAreSound'
<1>1. /\ UNCHANGED <<items, shown, reader>>
  BY DEF NodeAdds, NodeRemoves, cacheVars
<1>2. PagesTypes'
  BY <1>1, ChainSteps DEF PagesInv, PagesTypes
<1>3. \A h \in DOMAIN items : items[h] \in ReadRows
  BY DEF PagesInv, PagesTypes
<1>4. ASSUME NEW r \in ReadRows, RowIsSound(r)
      PROVE  RowIsSound(r)'
  <2>1. r.height \in Int /\ r.block \in Nat
    BY DEF ReadRows
  <2>2. QED
    BY <1>4, <2>1, ChainSteps DEF PagesInv, RowIsSound
<1>5. shown.rows \subseteq ReadRows /\ shown.i \in Int /\ shown.block \in Nat
  BY DEF PagesInv, PagesTypes, ShownPages
<1>6. /\ \A h \in DOMAIN items' : RowIsSound(items[h])'
      /\ \A r \in shown'.rows : RowIsSound(r)'
  BY <1>1, <1>3, <1>4, <1>5 DEF PagesInv, RowsAreSound
<1>7. PICK i \in Int, b \in Nat : i = shown.i /\ b = shown.block
  BY <1>5
<1>8. (WasThere(i, b) => WasThere(i, b)') /\ (GoneFrom(i, b) => GoneFrom(i, b)')
  BY ChainSteps DEF PagesInv
<1>9. QED
  BY <1>1, <1>2, <1>6, <1>7, <1>8 DEF PagesInv, RowsAreSound

LEMMA NodeKeepsStood ==
    ASSUME PagesInv, NodeAdds \/ NodeRemoves
    PROVE  StoodSincePage'
<1>1. UNCHANGED shown /\ blocks \in Seq(Nat) /\ Len(blocks) \in Nat /\ blocks' \in Seq(Nat)
  BY ChainSteps DEF NodeAdds, NodeRemoves, PagesInv, PagesTypes
<1>2. CASE NodeAdds
  <2>1. shown.step # "none" => stood' = stood \cup Chain(blocks')
    BY <1>2 DEF NodeAdds
  <2>2. ASSUME NEW h \in Int, NEW b \in Nat, shown.step # "none", StandsAt(h, b)'
        PROVE  <<h, b>> \in stood'
    <3>1. <<h, b>> \in Chain(blocks')
      BY <1>1, <2>2, ChainElements DEF StandsAt, HasHeight
    <3>2. QED
      BY <2>1, <2>2, <3>1
  <2>3. shown.step # "none" => stood \subseteq stood'
    BY <2>1
  <2>4. QED
    BY <1>1, <2>2, <2>3 DEF PagesInv, StoodSincePage
<1>3. CASE NodeRemoves
  <2>1. stood' = stood
    BY <1>3 DEF NodeRemoves
  <2>2. PICK n \in 1 .. Replaceable : n < Len(blocks) /\ blocks' = SubSeq(blocks, 1, Len(blocks) - n)
    BY <1>3 DEF NodeRemoves
  <2>3. Len(blocks') = Len(blocks) - n /\ \A k \in 1 .. Len(blocks') : blocks'[k] = blocks[k]
    BY <1>1, <2>2
  <2>4. ASSUME NEW h \in Int, NEW b \in Nat, StandsAt(h, b)'
        PROVE  StandsAt(h, b)
    BY <1>1, <2>2, <2>3, <2>4 DEF StandsAt, HasHeight
  <2>5. QED
    BY <1>1, <2>1, <2>4 DEF PagesInv, StoodSincePage
<1>4. QED
  BY <1>2, <1>3

LEMMA NodeKeepsReader ==
    ASSUME PagesInv, NodeAdds \/ NodeRemoves
    PROVE  ReaderKeepsUp'
<1>1. UNCHANGED <<shown, reader>> /\ blocks \in Seq(Nat) /\ Len(blocks) \in Nat /\ reorgs \in Nat
  BY DEF NodeAdds, NodeRemoves, PagesInv, PagesTypes
<1>2. CASE NodeAdds /\ reorgs = 0
  <2>1. Len(blocks') = Len(blocks) + 1
    BY <1>1, <1>2 DEF NodeAdds
  <2>2. reader.from \in Nat /\ reader.next \in Nat /\ shown \in ShownPages
    BY DEF PagesInv, PagesTypes
  <2>3. PICK w \in Nat : w = PageLength * reader.next
    BY <2>2, PagesNumbers
  <2>4. PagesTurned /\ PageUnderWay
    BY <1>2 DEF PagesInv, ReaderKeepsUp
  <2>5. reader.from <= Len(blocks')
    BY <1>1, <2>1, <2>2, <2>4 DEF PagesTurned
  <2>6. \A h \in 0 .. reader.from - 1 : h >= Len(blocks') - w => h \in reader.seen
    <3> SUFFICES ASSUME NEW h \in 0 .. reader.from - 1, h >= Len(blocks') - w
                 PROVE  h \in reader.seen
      OBVIOUS
    <3>1. h >= Len(blocks) - PageLength * reader.next
      BY <1>1, <2>1, <2>2, <2>3
    <3>2. QED
      BY <2>4, <3>1 DEF PagesTurned
  <2>7. PagesTurned'
    BY <1>1, <2>3, <2>4, <2>5, <2>6 DEF PagesTurned
  <2>8. shown.step # "none" => shown.height <= Len(blocks')
    BY <1>1, <2>1, <2>2, <2>4 DEF PageUnderWay, ShownPages
  <2>9. PageUnderWay'
    BY <1>1, <2>4, <2>8 DEF PageUnderWay, firstHeight
  <2>10. QED
    BY <2>7, <2>9 DEF ReaderKeepsUp
<1>3. reorgs' # 0 \/ (NodeAdds /\ reorgs = 0)
  BY <1>1 DEF NodeAdds, NodeRemoves
<1>4. QED
  BY <1>2, <1>3 DEF ReaderKeepsUp

\* A page that fails, and a reader who begins anew, promise nothing yet.
LEMMA BeginStep ==
    ASSUME PagesInv, Fail \/ BeginAgain
    PROVE  PagesInv'
<1>1. shown' = NoPageYet /\ reader' = NewReader /\ UNCHANGED <<blocks, reorgs, items>>
  BY DEF Fail, BeginAgain, chainVars, cacheVars
<1>2. PagesTypes'
  BY <1>1, NoPageYetIsAPage, NewReaderIsAReader DEF PagesInv, PagesTypes
<1>3. RowsAreSound'
  <2>1. ASSUME NEW r
        PROVE  RowIsSound(r)' <=> RowIsSound(r)
    BY <1>1 DEF RowIsSound, WasThere, GoneFrom, StandsAt, HasHeight
  <2>2. \A h \in DOMAIN items' : RowIsSound(items[h])'
    BY <1>1, <2>1 DEF PagesInv, RowsAreSound
  <2>3. QED
    BY <1>1, <2>2, NoPageYetIsAPage DEF RowsAreSound
<1>4. StoodSincePage' /\ PageUnderWay'
  BY <1>1, NoPageYetIsAPage DEF StoodSincePage, PageUnderWay
<1>5. PagesTurned'
  BY <1>1, NewReaderIsAReader DEF PagesInv, PagesTypes, PagesTurned
<1>6. QED
  BY <1>2, <1>3, <1>4, <1>5 DEF PagesInv, ReaderKeepsUp

LEMMA AskForPageStep ==
    ASSUME PagesInv, NEW kind \in {"index2", "json_transactions"}, AskForPage(kind)
    PROVE  PagesInv'
<1> DEFINE first == firstHeight(Len(blocks), reader.next)
<1>1. /\ blocks \in Seq(Nat) /\ Len(blocks) \in Nat /\ reader.next \in Nat
      /\ reader \in [next : Nat, seen : SUBSET Int, from : Nat, done : BOOLEAN]
  BY DEF PagesInv, PagesTypes
<1>2. PICK f \in Int : f = first
  <2>1. PICK m \in Int : m = PageLength * (reader.next + 1)
    BY <1>1, PagesNumbers
  <2>2. QED
    BY <1>1, <2>1 DEF firstHeight
<1>3. /\ shown' = [NoPageYet EXCEPT !.step = "block", !.kind = kind, !.number = reader.next,
                                    !.height = Len(blocks), !.first = f, !.i = f + PageLength - 1]
      /\ stood' = Chain(blocks) /\ UNCHANGED <<blocks, reorgs, items>>
      /\ ~reader.done
  BY <1>2 DEF AskForPage, chainVars, cacheVars
<1>4. /\ shown' \in ShownPages /\ shown'.step = "block" /\ shown'.rows = {}
      /\ shown'.number = reader.next /\ shown'.height = Len(blocks) /\ shown'.first = f
      /\ shown'.i = f + PageLength - 1
  <2>1. PICK l \in Nat, n \in Nat, e \in Int : l = Len(blocks) /\ n = reader.next /\ e = f + PageLength - 1
    BY <1>1, <1>2, PagesNumbers
  <2>2. shown' = Asked(NoPageYet, kind, n, l, f, e)
    BY <1>3, <2>1, Zenon DEF Asked
  <2>3. /\ shown' \in ShownPages /\ shown'.step = "block" /\ shown'.rows = {} /\ shown'.number = n
        /\ shown'.height = l /\ shown'.first = f /\ shown'.i = e
    BY <2>2, NoPageYetIsAPage, PageAskedFor
  <2>4. QED
    BY <2>1, <2>3
<1>5. /\ reader' \in [next : Nat, seen : SUBSET Int, from : Nat, done : BOOLEAN]
      /\ reader'.next = reader.next /\ reader'.seen = reader.seen /\ ~reader'.done
      /\ reader.next = 0 => reader'.from = Len(blocks)
      /\ reader.next # 0 => reader'.from = reader.from
  <2>1. \/ reader.next = 0 /\ reader' = [reader EXCEPT !.from = Len(blocks)]
        \/ reader.next # 0 /\ reader' = reader
    BY <1>1 DEF AskForPage
  <2>2. QED
    BY <1>1, <1>3, <2>1
<1>6. PagesTypes'
  BY <1>3, <1>4, <1>5 DEF PagesInv, PagesTypes
<1>7. RowsAreSound'
  <2>1. ASSUME NEW r
        PROVE  RowIsSound(r)' <=> RowIsSound(r)
    BY <1>3 DEF RowIsSound, WasThere, GoneFrom, StandsAt, HasHeight
  <2>2. \A h \in DOMAIN items' : RowIsSound(items[h])'
    BY <1>3, <2>1 DEF PagesInv, RowsAreSound
  <2>3. QED
    BY <1>4, <2>2 DEF RowsAreSound
<1>8. StoodSincePage'
  <2>1. ASSUME NEW h \in Int, NEW b \in Nat, StandsAt(h, b)'
        PROVE  <<h, b>> \in stood'
    BY <1>1, <1>3, <2>1, ChainElements DEF StandsAt, HasHeight
  <2>2. QED
    BY <1>4, <2>1 DEF StoodSincePage
<1>9. ReaderKeepsUp'
  <2> SUFFICES ASSUME reorgs = 0
               PROVE  PagesTurned' /\ PageUnderWay'
    BY <1>3 DEF ReaderKeepsUp
  <2>1. PagesTurned
    BY DEF PagesInv, ReaderKeepsUp
  <2>2. reader'.from <= Len(blocks) /\ reader'.from \in Nat
    BY <1>1, <1>5, <2>1 DEF PagesTurned
  <2>3. PICK w \in Nat : w = PageLength * reader.next
    BY <1>1, PagesNumbers
  <2>4. \A h \in 0 .. reader'.from - 1 : h >= Len(blocks) - w => h \in reader'.seen
    <3>1. CASE reader.next = 0
      <4>1. w = 0
        BY <2>3, <3>1, PagesNumbers
      <4>2. QED
        BY <1>1, <1>5, <3>1, <4>1
    <3>2. CASE reader.next # 0
      BY <1>5, <2>1, <2>3, <3>2 DEF PagesTurned
    <3>3. QED
      BY <3>1, <3>2
  <2>5. PagesTurned'
    BY <1>3, <1>5, <2>2, <2>3, <2>4 DEF PagesTurned
  <2>6. \A h \in 0 .. Len(blocks) - 1 :
            ~(shown'.first <= h /\ h <= shown'.first + PageLength - 1 /\ shown'.i < h)
    BY <1>1, <1>2, <1>4, PagesNumbers
  <2>7. PageUnderWay'
    <3>1. shown'.first = firstHeight(shown'.height, shown'.number)
      BY <1>2, <1>4
    <3>2. shown'.height <= Len(blocks')
      BY <1>1, <1>3, <1>4
    <3>3. QED
      BY <1>3, <1>4, <1>5, <2>2, <2>3, <2>4, <2>6, <3>1, <3>2 DEF PageUnderWay, firstHeight
  <2>8. QED
    BY <2>5, <2>7
<1>10. QED
  BY <1>6, <1>7, <1>8, <1>9 DEF PagesInv

\* A step of the rendering that keeps the page's request, and keeps or adds sound rows.
SameRequest ==
    /\ shown.step # "none" /\ shown'.step # "none" /\ shown' \in ShownPages
    /\ shown'.number = shown.number /\ shown'.height = shown.height /\ shown'.first = shown.first
    /\ UNCHANGED <<blocks, reorgs, stood, reader>>
SoundRowsAdded ==
    /\ shown.rows \subseteq shown'.rows
    /\ \A r \in shown'.rows : r \in shown.rows \/
           (RowIsSound(r) /\ (<<r.height, r.block>> \in stood \/ r.height + SpendableAge <= shown.height))
    /\ \A h \in DOMAIN items' : items'[h] \in ReadRows /\ items'[h].height = h /\ RowIsSound(items'[h])
PageBlockIsRead ==
    /\ shown'.step \in {"hash", "rows"} =>
           WasThere(shown'.i, shown'.block) /\ <<shown'.i, shown'.block>> \in stood
    /\ shown'.step = "rows" /\ shown'.hash # shown'.block => GoneFrom(shown'.i, shown'.block)
NoHeightSkipped ==
    reorgs = 0 /\ shown'.i # shown.i =>
        /\ shown'.i = shown.i - 1
        /\ shown.i >= 0 /\ shown.i < shown.height => \E r \in shown'.rows : r.height = shown.i

LEMMA RenderStep ==
    ASSUME PagesInv, SameRequest, SoundRowsAdded, PageBlockIsRead, NoHeightSkipped
    PROVE  PagesInv'
<1>1. PagesTypes'
  BY DEF PagesInv, PagesTypes, SameRequest, SoundRowsAdded
<1>2. UNCHANGED <<blocks, reorgs, stood, reader>>
  BY DEF SameRequest
<1>3. RowsAreSound'
  <2>1. ASSUME NEW r
        PROVE  RowIsSound(r)' <=> RowIsSound(r)
    BY <1>2 DEF RowIsSound, WasThere, GoneFrom, StandsAt, HasHeight
  <2>2. /\ \A h \in DOMAIN items' : RowIsSound(items[h])'
        /\ \A r \in shown'.rows : RowIsSound(r)'
    BY <2>1 DEF PagesInv, RowsAreSound, SoundRowsAdded
  <2>3. /\ shown'.step \in {"hash", "rows"} => WasThere(shown.i, shown.block)'
        /\ shown'.step = "rows" /\ shown'.hash # shown'.block => GoneFrom(shown.i, shown.block)'
    BY <1>2 DEF PageBlockIsRead, WasThere, GoneFrom, StandsAt, HasHeight
  <2>4. QED
    BY <2>2, <2>3 DEF RowsAreSound
<1>4. StoodSincePage'
  <2>1. ASSUME NEW h \in Int, NEW b \in Nat, StandsAt(h, b)'
        PROVE  <<h, b>> \in stood'
    BY <1>2, <2>1 DEF PagesInv, StoodSincePage, SameRequest, StandsAt, HasHeight
  <2>2. \A r \in shown'.rows :
            <<r.height, r.block>> \in stood' \/ r.height + SpendableAge <= shown'.height
    BY <1>2 DEF PagesInv, StoodSincePage, SoundRowsAdded, SameRequest
  <2>3. QED
    BY <1>2, <2>1, <2>2 DEF StoodSincePage, SameRequest, PageBlockIsRead
<1>5. ReaderKeepsUp'
  <2> SUFFICES ASSUME reorgs = 0
               PROVE  PagesTurned' /\ PageUnderWay'
    BY <1>2 DEF ReaderKeepsUp
  <2>1. PagesTurned /\ PageUnderWay
    BY DEF PagesInv, ReaderKeepsUp
  <2>2. PagesTurned'
    BY <1>2, <2>1 DEF PagesTurned
  <2>3. shown.i \in Int /\ shown.first \in Int /\ shown.height \in Nat
    BY DEF PagesInv, PagesTypes, ShownPages
  <2>4. ASSUME NEW h \in 0 .. shown.height - 1, shown.first <= h, h <= shown.first + PageLength - 1,
               shown'.i < h
        PROVE  \E r \in shown'.rows : r.height = h
    <3>1. CASE shown.i < h
      <4>1. \E r \in shown.rows : r.height = h
        BY <2>1, <2>4, <3>1 DEF PageUnderWay, SameRequest
      <4>2. QED
        BY <4>1 DEF SoundRowsAdded
    <3>2. CASE ~(shown.i < h)
      <4>1. shown'.i = shown.i - 1 /\ h = shown.i
        BY <2>3, <2>4, <3>2 DEF NoHeightSkipped
      <4>2. shown.i >= 0 /\ shown.i < shown.height /\ shown'.i # shown.i
        BY <2>3, <4>1
      <4>3. QED
        BY <4>1, <4>2 DEF NoHeightSkipped
    <3>3. QED
      BY <3>1, <3>2
  <2>5. PageUnderWay'
    BY <1>2, <2>1, <2>4 DEF PageUnderWay, SameRequest, firstHeight
  <2>6. QED
    BY <2>2, <2>5
<1>6. QED
  BY <1>1, <1>3, <1>4, <1>5 DEF PagesInv

LEMMA CacheIsKept ==
    ASSUME PagesInv, UNCHANGED items, UNCHANGED shown.rows
    PROVE  SoundRowsAdded
BY DEF PagesInv, PagesTypes, RowsAreSound, SoundRowsAdded

LEMMA NoBlockStep ==
    ASSUME PagesInv, NoBlockAt
    PROVE  PagesInv'
<1>1. CASE Fail
  BY <1>1, BeginStep
<1>2. CASE ~Fail
  <2>1. /\ shown.step = "block" /\ ~HasHeight(shown.i) /\ shown' = [shown EXCEPT !.i = @ - 1]
        /\ UNCHANGED <<blocks, reorgs, items, stood, reader>>
    BY <1>2 DEF NoBlockAt, chainVars, cacheVars
  <2>2. shown \in ShownPages /\ Len(blocks) \in Nat
    BY DEF PagesInv, PagesTypes
  <2>3. /\ shown' \in ShownPages /\ shown'.step = "block" /\ shown'.i = shown.i - 1
        /\ shown'.rows = shown.rows
        /\ shown'.number = shown.number /\ shown'.height = shown.height /\ shown'.first = shown.first
    BY <2>1, <2>2 DEF ShownPages
  <2>4. SameRequest /\ PageBlockIsRead
    BY <2>1, <2>3 DEF SameRequest, PageBlockIsRead
  <2>5. SoundRowsAdded
    BY <2>1, <2>3, CacheIsKept
  <2>6. NoHeightSkipped
    <3>1. reorgs = 0 => shown.height <= Len(blocks)
      BY <2>1 DEF PagesInv, ReaderKeepsUp, PageUnderWay
    <3>2. shown.i \in Int /\ shown.height \in Nat
      BY <2>2 DEF ShownPages
    <3>3. reorgs = 0 => ~(shown.i >= 0 /\ shown.i < shown.height)
      BY <2>1, <2>2, <3>1, <3>2 DEF HasHeight
    <3>4. QED
      BY <2>3, <3>3 DEF NoHeightSkipped
  <2>7. QED
    BY <2>4, <2>5, <2>6, RenderStep
<1>3. QED
  BY <1>1, <1>2

LEMMA PageBlockStep ==
    ASSUME PagesInv, GetBlock
    PROVE  PagesInv'
<1>1. /\ shown.step = "block" /\ HasHeight(shown.i)
      /\ shown' = [shown EXCEPT !.step = "hash", !.block = blocks[shown.i + 1]]
      /\ UNCHANGED <<blocks, reorgs, items, stood, reader>>
  BY DEF GetBlock, chainVars, cacheVars
<1>2. shown \in ShownPages /\ blocks \in Seq(Nat) /\ Len(blocks) \in Nat
  BY DEF PagesInv, PagesTypes
<1>3. PICK b \in Nat : b = blocks[shown.i + 1]
  <2>1. shown.i + 1 \in 1 .. Len(blocks)
    BY <1>1, <1>2 DEF HasHeight
  <2>2. QED
    BY <1>2, <2>1
<1>4. /\ shown' \in ShownPages /\ shown'.step = "hash" /\ shown'.i = shown.i /\ shown'.block = b
      /\ shown'.rows = shown.rows
      /\ shown'.number = shown.number /\ shown'.height = shown.height /\ shown'.first = shown.first
  BY <1>1, <1>2, <1>3 DEF ShownPages
<1>5. SameRequest /\ NoHeightSkipped
  BY <1>1, <1>4 DEF SameRequest, NoHeightSkipped
<1>6. SoundRowsAdded
  BY <1>1, <1>4, CacheIsKept
<1>7. PageBlockIsRead
  <2>1. StandsAt(shown.i, b) /\ shown.i \in Int
    BY <1>1, <1>2, <1>3 DEF StandsAt, ShownPages
  <2>2. <<shown.i, b>> \in stood
    BY <1>1, <2>1 DEF PagesInv, StoodSincePage
  <2>3. QED
    BY <1>4, <2>1, <2>2 DEF PageBlockIsRead, WasThere
<1>8. QED
  BY <1>5, <1>6, <1>7, RenderStep

\* The hash is another one only if the block has been replaced since it was read.
LEMMA PageHashStep ==
    ASSUME PagesInv, GetHash
    PROVE  PagesInv'
<1>1. CASE Fail
  BY <1>1, BeginStep
<1>2. CASE ~Fail
  <2>1. /\ shown.step = "hash" /\ HasHeight(shown.i)
        /\ shown' = [shown EXCEPT !.step = "rows", !.hash = blocks[shown.i + 1]]
        /\ UNCHANGED <<blocks, reorgs, items, stood, reader>>
    BY <1>2 DEF GetHash, chainVars, cacheVars
  <2>2. shown \in ShownPages /\ blocks \in Seq(Nat) /\ Len(blocks) \in Nat
    BY DEF PagesInv, PagesTypes
  <2>3. PICK b \in Nat : b = blocks[shown.i + 1]
    <3>1. shown.i + 1 \in 1 .. Len(blocks)
      BY <2>1, <2>2 DEF HasHeight
    <3>2. QED
      BY <2>2, <3>1
  <2>4. /\ shown' \in ShownPages /\ shown'.step = "rows" /\ shown'.i = shown.i /\ shown'.hash = b
        /\ shown'.block = shown.block /\ shown'.rows = shown.rows
        /\ shown'.number = shown.number /\ shown'.height = shown.height /\ shown'.first = shown.first
    <3>1. shown' = WithHash(shown, b)
      BY <2>1, <2>3 DEF WithHash
    <3>2. b \in Int /\ shown \in ShownPages
      BY <2>2
    <3>3. /\ WithHash(shown, b) \in ShownPages /\ SamePage(WithHash(shown, b), shown)
          /\ WithHash(shown, b).step = "rows" /\ WithHash(shown, b).i = shown.i
          /\ WithHash(shown, b).block = shown.block /\ WithHash(shown, b).hash = b
          /\ WithHash(shown, b).rows = shown.rows
      BY <3>2, PageWithHash
    <3>4. QED
      BY <3>1, <3>3 DEF SamePage
  <2>5. SameRequest /\ NoHeightSkipped
    BY <2>1, <2>4 DEF SameRequest, NoHeightSkipped
  <2>6. SoundRowsAdded
    BY <2>1, <2>4, CacheIsKept
  <2>7. PageBlockIsRead
    <3>1. WasThere(shown.i, shown.block) /\ <<shown.i, shown.block>> \in stood
      BY <2>1 DEF PagesInv, RowsAreSound, StoodSincePage
    <3>2. b # shown.block => GoneFrom(shown.i, shown.block)
      BY <2>3, <3>1 DEF WasThere, StandsAt
    <3>3. QED
      BY <2>4, <3>1, <3>2 DEF PageBlockIsRead
  <2>8. QED
    BY <2>5, <2>6, <2>7, RenderStep
<1>3. QED
  BY <1>1, <1>2

\* While no block is removed, no cached row is found wrong.
LEMMA RowsFromCacheStep ==
    ASSUME PagesInv, RowsFromCache
    PROVE  PagesInv'
<1>1. /\ shown.step = "rows" /\ shown.i \in DOMAIN items
      /\ UNCHANGED <<blocks, reorgs, items, stood, reader>>
  BY DEF RowsFromCache, Cached, chainVars, cacheVars
<1>2. shown \in ShownPages /\ shown.i \in Int /\ shown.height \in Nat
  BY DEF PagesInv, PagesTypes, ShownPages
<1>3. PICK row \in ReadRows : row = items[shown.i] /\ row.height = shown.i /\ RowIsSound(row)
  BY <1>1 DEF PagesInv, PagesTypes, RowsAreSound
<1>4. \/ StillExpected(row) /\ shown' = NextBlock([shown EXCEPT !.rows = @ \cup {row}])
      \/ ~StillExpected(row) /\ shown' = NextBlock([shown EXCEPT !.wrong = @ \cup {shown.i}])
  BY <1>3 DEF RowsFromCache
<1>5. /\ shown' \in ShownPages /\ shown'.step = "block" /\ shown'.i = shown.i - 1
      /\ shown'.number = shown.number /\ shown'.height = shown.height /\ shown'.first = shown.first
      /\ StillExpected(row) => shown'.rows = shown.rows \cup {row}
      /\ ~StillExpected(row) => shown'.rows = shown.rows
  <2>1. CASE StillExpected(row)
    <3>1. shown' = WithRows(shown, shown.rows \cup {row}, shown.i - 1)
      BY <1>2, <1>4, <2>1 DEF ShownPages, NextBlock, WithRows
    <3>2. QED
      <4>1. shown.rows \cup {row} \in SUBSET ReadRows /\ shown.i - 1 \in Int
        BY <1>2 DEF ShownPages
      <4>2. QED
        BY <1>2, <2>1, <3>1, <4>1, PageWithRows DEF SamePage
  <2>2. CASE ~StillExpected(row)
    <3>1. shown' = WithWrong(shown, shown.wrong \cup {shown.i}, shown.i - 1)
      BY <1>2, <1>4, <2>2 DEF ShownPages, NextBlock, WithWrong
    <3>2. QED
      <4>1. shown.wrong \cup {shown.i} \in SUBSET Int /\ shown.i - 1 \in Int
        BY <1>2 DEF ShownPages
      <4>2. QED
        BY <1>2, <2>2, <3>1, <4>1, PageWithWrong DEF SamePage
  <2>3. QED
    BY <2>1, <2>2
<1>6. row.block \in Nat
  BY DEF ReadRows
<1>7. WasThere(shown.i, row.block)
  BY <1>3 DEF RowIsSound
<1>8. SameRequest /\ PageBlockIsRead
  BY <1>1, <1>5 DEF SameRequest, PageBlockIsRead
<1>9. SoundRowsAdded
  <2>1. StillExpected(row) => <<row.height, row.block>> \in stood
                              \/ row.height + SpendableAge <= shown.height
    <3>1. StillExpected(row) => StandsAt(shown.i, row.block) \/ ~(shown.i + SpendableAge > shown.height)
      BY DEF StillExpected, StandsAt
    <3>2. StandsAt(shown.i, row.block) => <<shown.i, row.block>> \in stood
      BY <1>1, <1>2, <1>6 DEF PagesInv, StoodSincePage
    <3>3. QED
      BY <1>2, <1>3, <3>1, <3>2, PagesNumbers
  <2>2. QED
    BY <1>1, <1>3, <1>5, <2>1 DEF PagesInv, PagesTypes, RowsAreSound, SoundRowsAdded
<1>10. NoHeightSkipped
  <2>1. reorgs = 0 => StandsAt(shown.i, row.block)
    BY <1>6, <1>7 DEF WasThere, GoneFrom
  <2>2. reorgs = 0 => StillExpected(row)
    BY <2>1 DEF StillExpected, StandsAt
  <2>3. QED
    BY <1>3, <1>5, <2>2 DEF NoHeightSkipped
<1>11. QED
  BY <1>8, <1>9, <1>10, RenderStep

\* What the cache holds after Put: the new row under its key, and rows it held before.
LEMMA PutKeeps ==
    ASSUME NEW key, NEW row, Put(key, row)
    PROVE  \A h \in DOMAIN items' :
              \/ h = key /\ items'[h] = row
              \/ h \in DOMAIN items /\ items'[h] = items[h]
<1> DEFINE full == Len(queue) + 1 > CacheSize
           kept == IF full THEN DOMAIN items \ {Last(queue)} ELSE DOMAIN items
<1>1. items' = [h \in kept \cup {key} |-> IF h = key THEN row ELSE items[h]]
  BY DEF Put
<1>2. kept \subseteq DOMAIN items
  OBVIOUS
<1> HIDE DEF kept
<1>3. QED
  BY <1>1, <1>2

LEMMA RowsFromNodeStep ==
    ASSUME PagesInv, RowsFromNode
    PROVE  PagesInv'
<1>1. /\ shown.step = "rows" /\ shown' = NextBlock([shown EXCEPT !.rows = @ \cup {Row}])
      /\ Put(shown.i, Row) \/ UNCHANGED items
      /\ UNCHANGED <<blocks, reorgs, stood, reader>>
  BY DEF RowsFromNode, chainVars, cacheVars
<1>2. shown \in ShownPages
  BY DEF PagesInv, PagesTypes
<1>3. PICK row \in ReadRows : /\ row = Row /\ row.height = shown.i /\ row.block = shown.block
                              /\ row.hash = shown.hash
  <2>1. shown.i \in Int /\ shown.block \in Nat /\ shown.hash \in Int
    BY <1>2 DEF ShownPages
  <2>2. Row \in ReadRows /\ Row.height = shown.i /\ Row.block = shown.block /\ Row.hash = shown.hash
    BY <2>1 DEF Row, ReadRows
  <2>3. QED
    BY <2>2, Zenon
<1>4. RowIsSound(row) /\ <<row.height, row.block>> \in stood
  BY <1>1, <1>3 DEF PagesInv, RowsAreSound, StoodSincePage, RowIsSound
<1>5. /\ shown' \in ShownPages /\ shown'.step = "block" /\ shown'.i = shown.i - 1
      /\ shown'.number = shown.number /\ shown'.height = shown.height /\ shown'.first = shown.first
      /\ shown'.rows = shown.rows \cup {row}
  <2>1. shown' = WithRows(shown, shown.rows \cup {row}, shown.i - 1)
    BY <1>1, <1>2, <1>3 DEF ShownPages, NextBlock, WithRows
  <2>2. QED
    <3>1. shown.rows \cup {row} \in SUBSET ReadRows /\ shown.i - 1 \in Int
      BY <1>2 DEF ShownPages
    <3>2. QED
      BY <1>2, <2>1, <3>1, PageWithRows DEF SamePage
<1>6. SameRequest /\ PageBlockIsRead
  BY <1>1, <1>5 DEF SameRequest, PageBlockIsRead
<1>7. SoundRowsAdded
  <2>1. \A h \in DOMAIN items : items[h] \in ReadRows /\ items[h].height = h /\ RowIsSound(items[h])
    BY DEF PagesInv, PagesTypes, RowsAreSound
  <2>2. \A h \in DOMAIN items' :
            (h = row.height /\ items'[h] = row) \/ (h \in DOMAIN items /\ items'[h] = items[h])
    <3>1. CASE Put(shown.i, Row)
      BY <1>3, <3>1, PutKeeps
    <3>2. CASE UNCHANGED items
      BY <3>2
    <3>3. QED
      BY <1>1, <3>1, <3>2
  <2>3. QED
    BY <1>3, <1>4, <1>5, <2>1, <2>2 DEF SoundRowsAdded
<1>8. NoHeightSkipped
  BY <1>3, <1>5 DEF NoHeightSkipped
<1>9. QED
  BY <1>6, <1>7, <1>8, RenderStep

\* The pages up to the one answered reach down to the height of their number.
LEMMA AnswerPageStep ==
    ASSUME PagesInv, AnswerPage
    PROVE  PagesInv'
<1>1. /\ shown.step = "block" /\ shown.i < shown.first
      /\ shown' = [NoPageYet EXCEPT !.kind = shown.kind]
      /\ reader' = [reader EXCEPT !.next = @ + 1, !.seen = @ \cup {r.height : r \in shown.rows},
                                  !.done = shown.number >= total_page_no(shown.height)]
      /\ UNCHANGED <<blocks, reorgs, items>>
  BY DEF AnswerPage, chainVars, cacheVars
<1>2. /\ shown \in ShownPages /\ reader \in [next : Nat, seen : SUBSET Int, from : Nat, done : BOOLEAN]
      /\ blocks \in Seq(Nat) /\ Len(blocks) \in Nat
  BY DEF PagesInv, PagesTypes
<1>3. /\ shown' \in ShownPages /\ shown'.step = "none" /\ shown'.rows = {}
  <2>1. shown.kind \in {"index2", "json_transactions"}
    BY <1>2 DEF ShownPages
  <2>2. shown'.step = "none" /\ shown'.rows = {}
    BY <1>1 DEF NoPageYet
  <2>3. NoPageYet \in ShownPages
    BY NoPageYetIsAPage
  <2>4. shown' \in ShownPages
    BY <1>1, <2>1, <2>3 DEF ShownPages
  <2>5. QED
    BY <2>2, <2>4
<1>4. PICK last \in BOOLEAN :
          /\ last <=> shown.number >= total_page_no(shown.height)
          /\ reader' = [reader EXCEPT !.next = @ + 1, !.seen = @ \cup {r.height : r \in shown.rows},
                                      !.done = last]
  <2>1. (shown.number >= total_page_no(shown.height)) \in BOOLEAN
    OBVIOUS
  <2>2. QED
    BY <1>1, <2>1, Zenon
<1>5. {r.height : r \in shown.rows} \subseteq Int
  BY <1>2 DEF ShownPages, ReadRows
<1>6. /\ reader' \in [next : Nat, seen : SUBSET Int, from : Nat, done : BOOLEAN]
      /\ reader'.next = reader.next + 1 /\ reader'.from = reader.from /\ reader'.done = last
      /\ reader'.seen = reader.seen \cup {r.height : r \in shown.rows}
  <2>1. PICK hs \in SUBSET Int : hs = {r.height : r \in shown.rows}
    BY <1>5
  <2>2. reader.next + 1 \in Nat /\ reader.seen \cup hs \in SUBSET Int
    <3>1. reader.next \in Nat /\ reader.seen \in SUBSET Int
      BY <1>2
    <3>2. QED
      BY <2>1, <3>1
  <2>3. reader' = [reader EXCEPT !.next = reader.next + 1, !.seen = reader.seen \cup hs, !.done = last]
    BY <1>4, <2>1
  <2>4. QED
    BY <1>2, <2>1, <2>2, <2>3, PageTurned
<1>7. PagesTypes'
  BY <1>1, <1>3, <1>6 DEF PagesInv, PagesTypes
<1>8. RowsAreSound'
  <2>1. ASSUME NEW r
        PROVE  RowIsSound(r)' <=> RowIsSound(r)
    BY <1>1 DEF RowIsSound, WasThere, GoneFrom, StandsAt, HasHeight
  <2>2. \A h \in DOMAIN items' : RowIsSound(items[h])'
    BY <1>1, <2>1 DEF PagesInv, RowsAreSound
  <2>3. QED
    BY <1>3, <2>2 DEF RowsAreSound
<1>9. StoodSincePage' /\ PageUnderWay'
  BY <1>3 DEF StoodSincePage, PageUnderWay
<1>10. ASSUME reorgs = 0
       PROVE  PagesTurned'
  <2>1. PagesTurned /\ PageUnderWay
    BY <1>10 DEF PagesInv, ReaderKeepsUp
  <2>2. /\ shown.number = reader.next /\ shown.first = firstHeight(shown.height, shown.number)
        /\ reader.from <= shown.height /\ shown.height <= Len(blocks)
    BY <1>1, <2>1 DEF PageUnderWay
  <2>3. /\ shown.i \in Int /\ shown.first \in Int /\ shown.height \in Nat /\ shown.number \in Nat
        /\ reader.from \in Nat /\ PageLength \in Nat /\ PageLength >= 1
    BY <1>2, PagesNumbers DEF ShownPages
  <2>4. PICK w \in Nat : w = PageLength * shown.number /\ PageLength * (shown.number + 1) = w + PageLength
    <3>1. \A p \in Nat : \A n \in Nat : p * n \in Nat /\ p * (n + 1) = p * n + p
      OBVIOUS
    <3>2. QED
      BY <2>3, <3>1
  <2>5. ASSUME NEW h \in 0 .. reader.from - 1, h >= shown.height - (w + PageLength)
        PROVE  h \in reader'.seen
    <3>1. CASE h >= shown.height - w
      <4>1. h \in reader.seen
        BY <1>1, <2>1, <2>4, <3>1 DEF PageUnderWay
      <4>2. QED
        BY <1>6, <4>1
    <3>2. CASE ~(h >= shown.height - w)
      <4>1. shown.first <= h /\ h <= shown.first + PageLength - 1
        <5>1. shown.first = (IF shown.height - (w + PageLength) < 0 THEN 0 ELSE shown.height - (w + PageLength))
          BY <2>2, <2>4 DEF firstHeight
        <5>2. h \in Nat /\ h < shown.height - w
          BY <2>3, <3>2
        <5>3. QED
          BY <2>3, <2>5, <5>1, <5>2
      <4>2. h \in 0 .. shown.height - 1 /\ shown.i < h
        <5>1. shown.i < shown.first
          BY <1>1
        <5>2. h \in Nat /\ h < reader.from
          BY <2>3, <2>5
        <5>3. QED
          BY <2>2, <2>3, <4>1, <5>1, <5>2
      <4>3. \E r \in shown.rows : r.height = h
        BY <1>1, <2>1, <4>1, <4>2 DEF PageUnderWay
      <4>4. QED
        BY <1>6, <4>3
    <3>3. QED
      BY <3>1, <3>2
  <2>6. last => shown.height - (w + PageLength) < 0
    <3>1. \A p \in Nat \ {0} : \A a, n \in Nat : n >= a \div p => p * (n + 1) > a
      OBVIOUS
    <3>2. last => PageLength * (shown.number + 1) > shown.height
      BY <1>4, <2>3, <3>1 DEF total_page_no
    <3>3. QED
      BY <2>3, <2>4, <3>2
  <2>7. \A h \in 0 .. reader.from - 1 : h >= Len(blocks) - PageLength * (reader.next + 1) => h \in reader'.seen
    <3>1. PageLength * (reader.next + 1) = w + PageLength
      BY <2>2, <2>4
    <3>2. \A h \in 0 .. reader.from - 1 :
              h >= Len(blocks) - (w + PageLength) => h >= shown.height - (w + PageLength)
      BY <1>2, <2>2, <2>3
    <3>3. QED
      BY <2>5, <3>1, <3>2
  <2>8. last => \A h \in 0 .. reader.from - 1 : h \in reader'.seen
    BY <2>3, <2>5, <2>6
  <2>9. QED
    BY <1>1, <1>6, <2>1, <2>7, <2>8 DEF PagesTurned
<1>11. QED
  BY <1>1, <1>7, <1>8, <1>9, <1>10 DEF PagesInv, ReaderKeepsUp

LEMMA PagesGoOn == PagesInv /\ [PagesNext]_pagesVars => PagesInv'
<1> SUFFICES ASSUME PagesInv, [PagesNext]_pagesVars PROVE PagesInv'
  OBVIOUS
<1>1. CASE NodeAdds \/ NodeRemoves
  BY <1>1, NodeKeepsRows, NodeKeepsStood, NodeKeepsReader DEF PagesInv
<1>2. ASSUME NEW kind \in {"index2", "json_transactions"}, AskForPage(kind)
      PROVE  PagesInv'
  BY <1>2, AskForPageStep
<1>3. CASE RenderPage
  BY <1>3, NoBlockStep, PageBlockStep, PageHashStep, RowsFromCacheStep, RowsFromNodeStep, AnswerPageStep
  DEF RenderPage
<1>4. CASE BeginAgain
  BY <1>4, BeginStep
<1>5. CASE UNCHANGED pagesVars
  BY <1>5 DEF pagesVars, chainVars, cacheVars, PagesInv, PagesTypes, RowsAreSound, RowIsSound, WasThere,
              GoneFrom, StandsAt, HasHeight, StoodSincePage, ReaderKeepsUp, PagesTurned, PageUnderWay,
              firstHeight
<1>6. QED
  BY <1>1, <1>2, <1>3, <1>4, <1>5 DEF PagesNext

\* The pages hold the invariant in every state: the cache's and the page's rows are of
\* blocks that were there, and the reader has seen what he turned the pages of.
THEOREM PagesInvariant == PagesSpec => []PagesInv
BY PagesStart, PagesGoOn, PTL DEF PagesSpec

\* The rows of the last blocks are of blocks that stood in the chain while the page was
\* rendered, and a block in the chain is shown under its own hash, though cached rows, a
\* block and its hash are read at different times (index2 and its cache in page.h).
THEOREM LastRowsAreOfTheChain == PagesSpec => []LastRowsStood
<1>1. PagesInv => LastRowsStood
  <2> SUFFICES ASSUME PagesInv, NEW r \in shown.rows
               PROVE  /\ <<r.height, r.block>> \in stood \/ r.height + SpendableAge <= shown.height
                      /\ <<r.height, r.block>> \in Chain(blocks) => r.hash = r.block
    BY DEF LastRowsStood
  <2>1. <<r.height, r.block>> \in Chain(blocks) => StandsAt(r.height, r.block)
    <3>1. blocks \in Seq(Nat)
      BY DEF PagesInv, PagesTypes
    <3>2. QED
      BY <3>1, ChainElements DEF StandsAt, HasHeight
  <2>2. StandsAt(r.height, r.block) => r.hash = r.block
    BY DEF PagesInv, RowsAreSound, RowIsSound, GoneFrom
  <2>3. QED
    BY <2>1, <2>2 DEF PagesInv, StoodSincePage
<1>2. QED
  BY <1>1, PagesInvariant, PTL

\* A reader who turns the pages to the last one announced has seen every block that was
\* there when he began, unless blocks were removed (total_page_no and start_height of
\* index2 and json_transactions in page.h).
THEOREM ReaderMissesNoBlock == PagesSpec => []ReaderSeesEveryBlock
<1>1. PagesInv => ReaderSeesEveryBlock
  BY DEF PagesInv, ReaderKeepsUp, PagesTurned, ReaderSeesEveryBlock
<1>2. QED
  BY <1>1, PagesInvariant, PTL
=============================================================================
