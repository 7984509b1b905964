----------------------------- MODULE IngestProofs -----------------------------
(***************************************************************************)
(* Proofs about Ingest, for every height, every choice of hash maps and    *)
(* tables, every batch and any number of processes that die wherever       *)
(* CrashAt says: types, that an id stands for one block only, that the     *)
(* tables have no row twice, and that a saved height means stored rows.    *)
(*                                                                         *)
(* The argument counts, for each counter on its own, how often its last id *)
(* has been saved: a process that begins after s saves gives block b the   *)
(* id s * end_block_height + b, so that two blocks never get the same id   *)
(* and a process that parses the blocks again before the next save gives   *)
(* them the ids that they had.                                             *)
(***************************************************************************)
EXTENDS Ingest, FiniteSetTheorems, SequenceTheorems, TLAPS

\* The id of block b in a process that began after e saves of its counter.
IdAt(e, b) == e * end_block_height + b

Saved(c) == \E n \in 1 .. stored : StoreOrder[n] = c
Saves(c) == IF lastIds[c] = 0 THEN 0 ELSE (lastIds[c] - 1) \div end_block_height

\* The saves of c before the process began.
Epoch(c) == IF Saved(c) THEN Saves(c) - 1 ELSE Saves(c)

Running == {"parse", "ids", "flag", "join"}

-----------------------------------------------------------------------------
(* The inductive invariant.                                                *)

\* Where main() and the threads are.
Control ==
    /\ lastBlockHeight # 0 => main \in {"start", "done"}
    /\ main = "load" => x = 1
    /\ main \in Running => x # 0
    /\ main \in {"ids", "flag", "join"} => x = end_block_height + 1
    /\ main \in {"start", "load", "parse"} => stored = 0
    /\ main \in {"flag", "join"} => stored = Len(StoreOrder)
    /\ isAllBlockDone => main \in {"join", "done"}
    /\ \A d \in Vector : vectors[d] # <<>> => main \in Running \cup {"done"}
    /\ \A d \in stopped \ Racy : vectors[d] = <<>> /\ main \in {"join", "done"}

\* The saved ids, and those of the process.
IdsSaved ==
    \A c \in Counter :
        /\ Saves(c) \in Nat
        /\ Saved(c) => Saves(c) # 0
        /\ lastIds[c] = IF Saves(c) = 0 THEN 0 ELSE IdAt(Saves(c), 1)
IdsCount == main \in Running => \A c \in Counter : ids[c] = IdAt(Epoch(c), x)

\* What waits, and what is on disk.
WaitingRows ==
    \A d \in Vector : \A i \in DOMAIN vectors[d] :
        /\ vectors[d][i].process = crashes
        /\ \A c \in Counter : vectors[d][i].ids[c] = IdAt(Epoch(c), vectors[d][i].block)
StoredRows ==
    \A t \in Table : \A r \in rows[t] : \A c \in Counter :
        \E e \in 0 .. Epoch(c) : r.ids[c] = IdAt(e, r.block)
StoredPairs ==
    \A m \in HashMap : \A b \in Block :
        hashToId[m][b] # 0 => \E e \in 0 .. Epoch(IdOf[m]) : hashToId[m][b] = IdAt(e, b)
PrimaryKeys ==
    \A t \in Table : \A r, s \in rows[t] : r.ids[KeyOf[t]] = s.ids[KeyOf[t]] => r = s

\* What the process has parsed waits or is stored, with the ids of the process.
Waits(d, b) == \E i \in DOMAIN vectors[d] : vectors[d][i].block = b
PairIsStored(m, b) == hashToId[m][b] = IdAt(Epoch(IdOf[m]), b)
RowIsStored(t, b) ==
    \E r \in rows[t] : r.block = b /\ r.ids[KeyOf[t]] = IdAt(Epoch(KeyOf[t]), b)
Parsed ==
    main \in Running => \A b \in Block : b < x =>
        /\ \A m \in HashMap : Waits(m, b) \/ PairIsStored(m, b)
        /\ \A t \in Table : Waits(t, b) \/ RowIsStored(t, b)

IngestInv ==
    /\ TypeOK /\ Control /\ IdsSaved /\ IdsCount
    /\ WaitingRows /\ StoredRows /\ StoredPairs /\ PrimaryKeys /\ Parsed
    /\ HeightMeansStored /\ OneRowPerIdRange

\* The counters move together unless a process dies among the seven Puts.
AllEqual(f) == \A c, d \in Counter : f[c] = f[d]
Uniform ==
    /\ AllEqual(ids)
    /\ \A d \in Vector : \A i \in DOMAIN vectors[d] : AllEqual(vectors[d][i].ids)
    /\ \A t \in Table : \A r \in rows[t] : AllEqual(r.ids)
    /\ main # "ids" => AllEqual(lastIds)
    /\ main = "ids" => \A c \in Counter : Saved(c) => lastIds[c] = ids[c]

-----------------------------------------------------------------------------
(* Arithmetic of the ids.                                                  *)

LEMMA IdAtSums ==
    ASSUME ConstantsOK, NEW e \in Nat, NEW b \in Nat
    PROVE  /\ IdAt(e, b) \in Nat
           /\ IdAt(e, b + 1) = IdAt(e, b) + 1
           /\ IdAt(e, end_block_height + 1) = IdAt(e + 1, 1)
           /\ IdAt(0, b) = b
           /\ b # 0 => IdAt(e, b) # 0
<1> DEFINE N == end_block_height
<1>0. N \in Nat /\ N > 1
  BY DEF ConstantsOK
<1> HIDE DEF N
<1>1. e * N \in Nat
  BY <1>0, Z3
<1>2. (e + 1) * N = e * N + N
  BY <1>0, Z3
<1>3. 0 * N = 0
  BY <1>0, Z3
<1>4. QED
  BY <1>0, <1>1, <1>2, <1>3 DEF IdAt, N

LEMMA IdAtOrder ==
    ASSUME ConstantsOK, NEW e \in Nat, NEW f \in Nat, e < f, NEW a \in Block, NEW b \in Block
    PROVE  IdAt(e, a) < IdAt(f, b)
<1> DEFINE N == end_block_height
<1>0. N \in Nat /\ N > 1 /\ a \in Nat /\ a <= N /\ b \in Nat /\ b >= 1
  BY DEF ConstantsOK, Block
<1> HIDE DEF N
<1>1. PICK k \in Nat : f = (e + 1) + k
  BY f - (e + 1) \in Nat
<1>2. f * N = e * N + N + k * N
  BY <1>0, <1>1, Z3
<1>3. e * N \in Nat /\ k * N \in Nat /\ f * N \in Nat
  BY <1>0, Z3
<1>4. QED
  BY <1>0, <1>2, <1>3 DEF IdAt, N

\* Two blocks have the same id only if they are the same block of the same epoch.
LEMMA IdAtInjective ==
    ASSUME ConstantsOK, NEW e \in Nat, NEW f \in Nat, NEW a \in Block, NEW b \in Block,
           IdAt(e, a) = IdAt(f, b)
    PROVE  e = f /\ a = b
<1>0. a \in Nat /\ b \in Nat /\ IdAt(e, a) \in Nat /\ IdAt(f, b) \in Nat
  BY IdAtSums DEF Block, ConstantsOK
<1>1. ~(e < f) /\ ~(f < e)
  BY <1>0, IdAtOrder
<1>2. e = f
  BY <1>1
<1>3. e * end_block_height \in Int
  BY Z3 DEF ConstantsOK
<1>4. QED
  BY <1>0, <1>2, <1>3 DEF IdAt

LEMMA IdAtDivides ==
    ASSUME ConstantsOK, NEW e \in Nat
    PROVE  (IdAt(e, 1) - 1) \div end_block_height = e
<1> DEFINE N == end_block_height
<1>0. N \in Nat /\ N > 1
  BY DEF ConstantsOK
<1> HIDE DEF N
<1>1. e * N \in Nat
  BY <1>0, Z3
<1>2. (e * N) \div N = e
  BY <1>0, Z3
<1>3. QED
  BY <1>1, <1>2 DEF IdAt, N

LEMMA OrderOfSaves ==
    /\ Len(StoreOrder) = 7
    /\ \A n \in 1 .. 7 : StoreOrder[n] \in Counter
    /\ \A n, m \in 1 .. 7 : StoreOrder[n] = StoreOrder[m] => n = m
    /\ \A c \in Counter : \E n \in 1 .. 7 : StoreOrder[n] = c
<1>1. Len(StoreOrder) = 7
  BY DEF StoreOrder
<1>2. /\ StoreOrder[1] = "Block" /\ StoreOrder[2] = "Transaction"
      /\ StoreOrder[3] = "StealthAddress" /\ StoreOrder[4] = "Output"
      /\ StoreOrder[5] = "KeyImage" /\ StoreOrder[6] = "RingMember"
      /\ StoreOrder[7] = "Input"
  BY DEF StoreOrder
<1>3. \A n \in 1 .. 7 : n = 1 \/ n = 2 \/ n = 3 \/ n = 4 \/ n = 5 \/ n = 6 \/ n = 7
  OBVIOUS
<1>4. QED
  BY <1>1, <1>2, <1>3 DEF Counter

-----------------------------------------------------------------------------
(* Epochs.                                                                 *)

LEMMA EpochIsNat ==
    ASSUME IdsSaved, NEW c \in Counter
    PROVE  Epoch(c) \in Nat
BY DEF IdsSaved, Epoch

\* An epoch depends on what is saved, and by whom, only.
LEMMA EpochKept ==
    ASSUME UNCHANGED <<lastIds, stored>>
    PROVE  \A c : /\ Saves(c)' = Saves(c)
                  /\ Saved(c)' <=> Saved(c)
                  /\ Epoch(c)' = Epoch(c)
BY DEF Epoch, Saves, Saved

LEMMA IdsSavedKept ==
    ASSUME IdsSaved, UNCHANGED <<lastIds, stored>>
    PROVE  IdsSaved'
BY EpochKept DEF IdsSaved

-----------------------------------------------------------------------------
(* What a step leaves alone.                                               *)

LEMMA DataKept ==
    ASSUME IngestInv, UNCHANGED <<lastIds, stored, hashToId, rows, vectors, crashes>>
    PROVE  (IdsSaved /\ WaitingRows /\ StoredRows /\ StoredPairs /\ PrimaryKeys)'
<1>1. IdsSaved'
  BY IdsSavedKept DEF IngestInv
<1>2. \A c : Epoch(c)' = Epoch(c)
  BY EpochKept
<1>3. WaitingRows'
  BY <1>2 DEF IngestInv, WaitingRows
<1>4. StoredRows' /\ StoredPairs'
  BY <1>2 DEF IngestInv, StoredRows, StoredPairs
<1>5. PrimaryKeys'
  BY DEF IngestInv, PrimaryKeys
<1>6. QED
  BY <1>1, <1>3, <1>4, <1>5

\* The height says nothing before it is saved, and what it says lasts with the disk.
LEMMA NoHeightYet ==
    ASSUME IngestInv, main \in Running \cup {"load"}, UNCHANGED lastBlockHeight
    PROVE  (HeightMeansStored /\ OneRowPerIdRange)'
<1>1. lastBlockHeight' = 0
  BY DEF IngestInv, Control, Running
<1>2. 1 .. lastBlockHeight' = {}
  BY <1>1
<1>3. QED
  BY <1>2 DEF HeightMeansStored, OneRowPerIdRange

LEMMA HeightKept ==
    ASSUME IngestInv, UNCHANGED disk
    PROVE  (HeightMeansStored /\ OneRowPerIdRange)'
<1>1. HeightMeansStored'
  BY DEF disk, IngestInv, HeightMeansStored, RowsOf
<1>2. OneRowPerIdRange'
  BY DEF disk, IngestInv, OneRowPerIdRange, RowsOf
<1>3. QED
  BY <1>1, <1>2

LEMMA ParsedKept ==
    ASSUME IngestInv, main \in Running, UNCHANGED <<lastIds, stored, hashToId, rows, vectors, x, ids>>
    PROVE  (IdsCount /\ Parsed)'
<1>1. \A c : Epoch(c)' = Epoch(c)
  BY EpochKept
<1>2. IdsCount'
  BY <1>1 DEF IngestInv, IdsCount
<1>3. Parsed'
  BY <1>1 DEF IngestInv, Parsed, Waits, PairIsStored, RowIsStored
<1>4. QED
  BY <1>2, <1>3

-----------------------------------------------------------------------------
(* Types.                                                                  *)

\* The ids that maps and tables have are counters.
LEMMA CountersOf ==
    ASSUME ConstantsOK
    PROVE  /\ \A m \in HashMap : IdOf[m] \in Counter
           /\ \A t \in Table : KeyOf[t] \in Counter
<1>1. \A m \in DOMAIN IdOf : IdOf[m] \in Counter
  BY DEF IdOf, Counter
<1>2. \A t \in DOMAIN KeyOf : KeyOf[t] \in Counter
  BY DEF KeyOf, Counter
<1>3. QED
  BY <1>1, <1>2 DEF ConstantsOK

LEMMA TypesKept ==
    ASSUME ConstantsOK, TypeOK, Control, [Next]_vars
    PROVE  TypeOK'
<1> USE DEF TypeOK
<1>0. end_block_height \in Nat /\ end_block_height > 1 /\ Len(StoreOrder) = 7
  BY OrderOfSaves DEF ConstantsOK
<1>1. CASE Start
  <2>1. x' \in 0 .. end_block_height + 1
    BY <1>0, <1>1 DEF Start
  <2>2. QED
    BY <1>1, <2>1 DEF Start, disk, thread
<1>2. CASE getLastIdList
  BY <1>2 DEF getLastIdList, disk, thread
<1>3. CASE xmrProcessor
  <2> DEFINE row == [block |-> x, ids |-> ids, process |-> crashes]
  <2>1. x \in Block /\ x + 1 \in 0 .. end_block_height + 1
    BY <1>0, <1>3 DEF xmrProcessor, Control, Running, Block
  <2>2. row \in Row
    BY <2>1 DEF Row
  <2>3. \A d \in Vector : Append(vectors[d], row) \in Seq(Row)
    BY <2>2, AppendProperties
  <2>4. vectors' \in [Vector -> Seq(Row)]
    BY <1>3, <2>3 DEF xmrProcessor
  <2>5. ids' \in [Counter -> Nat]
    BY <1>3 DEF xmrProcessor
  <2>6. QED
    BY <1>3, <2>1, <2>4, <2>5 DEF xmrProcessor, disk, thread
<1>4. CASE storeLastId
  <2>1. StoreOrder[stored + 1] \in Counter
    <3>1. stored + 1 \in 1 .. 7
      BY <1>0, <1>4 DEF storeLastId
    <3>2. QED
      BY <3>1, OrderOfSaves
  <2>2. stored' \in 0 .. Len(StoreOrder)
    BY <1>0, <1>4 DEF storeLastId
  <2>3. lastIds' \in [Counter -> Nat]
    BY <1>4, <2>1 DEF storeLastId
  <2>4. QED
    BY <1>4, <2>2, <2>3 DEF storeLastId, thread
<1>5. CASE SetAllBlockDone
  BY <1>5 DEF SetAllBlockDone, disk, thread
<1>6. CASE storeLastSavedBlockHeight
  BY <1>6 DEF storeLastSavedBlockHeight, thread
<1>7. ASSUME NEW m \in HashMap, insertKey(m)
      PROVE  TypeOK'
  <2> DEFINE row == Head(vectors[m])
  <2>1. vectors[m] \in Seq(Row) /\ vectors[m] # <<>>
    <3>1. m \in Vector /\ vectors \in [Vector -> Seq(Row)] /\ vectors[m] # <<>>
      BY <1>7 DEF Vector, insertKey, TypeOK
    <3>2. QED
      BY <3>1
  <2>2. row \in Row /\ Tail(vectors[m]) \in Seq(Row)
    BY <2>1, HeadTailProperties
  <2>3. IdOf[m] \in Counter
    BY CountersOf
  <2>4. row.block \in Block /\ row.ids[IdOf[m]] \in Nat
    BY <2>2, <2>3 DEF Row
  <2>5. hashToId' \in [HashMap -> [Block -> Nat]]
    BY <1>7, <2>4 DEF insertKey
  <2>6. vectors' \in [Vector -> Seq(Row)]
    <3>1. vectors' = [vectors EXCEPT ![m] = Tail(vectors[m])]
      BY <1>7 DEF insertKey
    <3>2. QED
      BY <2>2, <3>1
  <2>7. QED
    BY <1>7, <2>5, <2>6 DEF insertKey, thread
<1>8. ASSUME NEW t \in Table, insertData(t)
      PROVE  TypeOK'
  <2>1. vectors[t] \in Seq(Row)
    BY DEF Vector
  <2>2. Range(vectors[t]) \subseteq Row
    BY <2>1, RangeOfSeq
  <2>3. rows' \in [Table -> SUBSET Row]
    BY <1>8, <2>2 DEF insertData
  <2>4. vectors' \in [Vector -> Seq(Row)]
    <3>1. <<>> \in Seq(Row)
      OBVIOUS
    <3>2. QED
      BY <1>8, <3>1 DEF insertData
  <2>5. QED
    BY <1>8, <2>3, <2>4 DEF insertData, thread
<1>9. ASSUME NEW d \in Vector, SeesEmpty(d) \/ ReadsFlag(d) \/ Leaves(d)
      PROVE  TypeOK'
  <2>1. sawEmpty' \subseteq Racy /\ stopped' \subseteq Vector
    BY <1>9 DEF SeesEmpty, ReadsFlag, Leaves
  <2>2. ThreadOnly
    BY <1>9 DEF SeesEmpty, ReadsFlag, Leaves
  <2>3. QED
    BY <2>1, <2>2 DEF ThreadOnly, disk
<1>10. CASE Crash
  <2>1. crashes' \in 0 .. MaxCrashes
    BY <1>10 DEF Crash, ConstantsOK
  <2>2. 0 \in 0 .. end_block_height + 1 /\ 0 \in 0 .. Len(StoreOrder)
    BY <1>0
  <2>3. [d \in Vector |-> <<>>] \in [Vector -> Seq(Row)]
    <3>1. <<>> \in Seq(Row)
      OBVIOUS
    <3>2. QED
      BY <3>1
  <2>4. [c \in Counter |-> 0] \in [Counter -> Nat]
    OBVIOUS
  <2>5. QED
    BY <1>10, <2>1, <2>2, <2>3, <2>4 DEF Crash, disk
<1>11. CASE Ended \/ UNCHANGED vars
  BY <1>11 DEF Ended, vars, disk, thread
<1>12. QED
  BY <1>1, <1>2, <1>3, <1>4, <1>5, <1>6, <1>7, <1>8, <1>9, <1>10, <1>11
  DEF Next, mainFunction, Store

-----------------------------------------------------------------------------
(* main() and mainFunction.                                                *)

LEMMA StartStep ==
    ASSUME ConstantsOK, IngestInv, TypeOK', Start
    PROVE  IngestInv'
<1>0. UNCHANGED <<lastIds, stored, hashToId, rows, vectors, crashes, disk>>
  BY DEF Start, disk
<1>1. Control'
  <2>1. main = "start" /\ stored = 0 /\ stopped \ Racy = {} /\ isAllBlockDone = FALSE
    BY DEF Start, IngestInv, Control, TypeOK
  <2>2. \A d \in Vector : vectors[d] = <<>>
    BY <2>1 DEF IngestInv, Control, Running
  <2>3. main' \in {"load", "done"} /\ stored' = 0 /\ stopped' \ Racy = {}
        /\ isAllBlockDone' = FALSE /\ vectors' = vectors
    BY <2>1 DEF Start, thread
  <2>4. lastBlockHeight' # 0 => main' = "done"
    BY DEF Start, IngestInv, TypeOK, disk
  <2>5. main' = "load" => x' = 1
    BY <2>4 DEF Start, disk, IngestInv, TypeOK, ConstantsOK
  <2>6. QED
    BY <2>2, <2>3, <2>4, <2>5 DEF Control, Running
<1>2. (IdsCount /\ Parsed)'
  BY DEF Start, IdsCount, Parsed, Running
<1>3. (IdsSaved /\ WaitingRows /\ StoredRows /\ StoredPairs /\ PrimaryKeys)'
  BY <1>0, DataKept
<1>4. (HeightMeansStored /\ OneRowPerIdRange)'
  BY <1>0, HeightKept
<1>5. QED
  BY <1>1, <1>2, <1>3, <1>4 DEF IngestInv

LEMMA LoadStep ==
    ASSUME ConstantsOK, IngestInv, TypeOK', getLastIdList
    PROVE  IngestInv'
<1>0. UNCHANGED <<lastIds, stored, hashToId, rows, vectors, crashes, disk, lastBlockHeight>>
  BY DEF getLastIdList, disk
<1>a. main = "load" /\ main' = "parse" /\ x = 1 /\ x' = 1 /\ stored = 0 /\ stored' = 0
  BY DEF getLastIdList, IngestInv, Control
<1>1. Control'
  <2>1. stopped' \ Racy = {} /\ isAllBlockDone' = FALSE /\ lastBlockHeight' = 0
    BY <1>a DEF getLastIdList, disk, thread, IngestInv, Control, TypeOK
  <2>2. QED
    BY <1>a, <2>1 DEF Control, Running
<1>2. IdsCount'
  <2> SUFFICES ASSUME NEW c \in Counter PROVE ids'[c] = IdAt(Epoch(c)', 1)
    BY <1>a DEF IdsCount
  <2>1. Epoch(c)' = Saves(c) /\ Saves(c) \in Nat
    BY <1>0, <1>a, EpochKept DEF IngestInv, IdsSaved, Epoch, Saved
  <2>2. IdAt(0, 1) = 1 /\ (Saves(c) # 0 => IdAt(Saves(c), 1) # 0)
    BY <2>1, IdAtSums
  <2>3. QED
    BY <2>1, <2>2 DEF getLastIdList, IngestInv, IdsSaved
<1>3. Parsed'
  <2>1. \A b \in Block : ~(b < 1)
    BY DEF Block, ConstantsOK
  <2>2. QED
    BY <1>a, <2>1 DEF Parsed
<1>4. (IdsSaved /\ WaitingRows /\ StoredRows /\ StoredPairs /\ PrimaryKeys)'
  BY <1>0, DataKept
<1>5. (HeightMeansStored /\ OneRowPerIdRange)'
  BY <1>0, HeightKept
<1>6. QED
  BY <1>1, <1>2, <1>3, <1>4, <1>5 DEF IngestInv

LEMMA ProcessStep ==
    ASSUME ConstantsOK, IngestInv, TypeOK', xmrProcessor
    PROVE  IngestInv'
<1> DEFINE r == [block |-> x, ids |-> ids, process |-> crashes]
<1>0. /\ main = "parse" /\ main' = "parse" /\ main \in Running
      /\ x \in Block /\ x' = x + 1 /\ x \in Nat /\ stored' = stored
      /\ UNCHANGED <<lastIds, stored, hashToId, rows, crashes, disk, lastBlockHeight>>
  BY DEF xmrProcessor, disk, IngestInv, Control, TypeOK, Running, Block, ConstantsOK
<1>e. \A c : Epoch(c)' = Epoch(c)
  BY <1>0, EpochKept
<1>p. \A d \in Vector :
        /\ Len(vectors[d]) \in Nat
        /\ DOMAIN vectors[d] = 1 .. Len(vectors[d])
        /\ DOMAIN vectors'[d] = 1 .. Len(vectors[d]) + 1
        /\ \A i \in DOMAIN vectors[d] : vectors'[d][i] = vectors[d][i]
        /\ vectors'[d][Len(vectors[d]) + 1] = r
        /\ vectors'[d] # <<>>
  <2> SUFFICES ASSUME NEW d \in Vector
               PROVE  /\ Len(vectors[d]) \in Nat
                      /\ DOMAIN vectors[d] = 1 .. Len(vectors[d])
                      /\ DOMAIN vectors'[d] = 1 .. Len(vectors[d]) + 1
                      /\ \A i \in DOMAIN vectors[d] : vectors'[d][i] = vectors[d][i]
                      /\ vectors'[d][Len(vectors[d]) + 1] = r
                      /\ vectors'[d] # <<>>
    OBVIOUS
  <2>1. vectors[d] \in Seq(Row) /\ vectors'[d] = Append(vectors[d], r)
    BY DEF xmrProcessor, IngestInv, TypeOK
  <2>2. r \in Row
    BY <1>0 DEF Row, IngestInv, TypeOK
  <2> HIDE DEF r
  <2>3. QED
    BY <2>1, <2>2, AppendProperties, LenProperties
<1>1. Control'
  <2>1. stopped' \ Racy = {} /\ isAllBlockDone' = FALSE /\ lastBlockHeight' = 0 /\ stored' = 0
    BY <1>0 DEF xmrProcessor, disk, thread, IngestInv, Control, TypeOK
  <2>2. x' # 0
    BY <1>0
  <2>3. QED
    BY <1>0, <2>1, <2>2 DEF Control, Running
<1>2. IdsCount'
  <2> SUFFICES ASSUME NEW c \in Counter PROVE ids'[c] = IdAt(Epoch(c), x + 1)
    BY <1>0, <1>e DEF IdsCount
  <2>1. ids'[c] = ids[c] + 1 /\ ids[c] = IdAt(Epoch(c), x) /\ Epoch(c) \in Nat
    BY <1>0, EpochIsNat DEF xmrProcessor, IngestInv, IdsCount
  <2>2. QED
    BY <1>0, <2>1, IdAtSums
<1>3. WaitingRows'
  <2> SUFFICES ASSUME NEW d \in Vector, NEW i \in DOMAIN vectors'[d]
               PROVE  /\ vectors'[d][i].process = crashes
                      /\ \A c \in Counter :
                            vectors'[d][i].ids[c] = IdAt(Epoch(c), vectors'[d][i].block)
    BY <1>0, <1>e DEF WaitingRows
  <2>1. CASE i \in DOMAIN vectors[d]
    BY <1>p, <2>1 DEF IngestInv, WaitingRows
  <2>2. CASE i \notin DOMAIN vectors[d]
    <3>1. vectors'[d][i] = r
      BY <1>p, <2>2
    <3>2. QED
      BY <1>0, <3>1 DEF IngestInv, IdsCount
  <2>3. QED
    BY <2>1, <2>2
<1>4. Parsed'
  <2> SUFFICES ASSUME NEW b \in Block, b < x + 1
               PROVE  /\ \A m \in HashMap : Waits(m, b)' \/ PairIsStored(m, b)
                      /\ \A t \in Table : Waits(t, b)' \/ RowIsStored(t, b)
    BY <1>0, <1>e DEF Parsed, PairIsStored, RowIsStored
  <2>1. CASE b = x
    <3>1. \A d \in Vector : Waits(d, b)'
      BY <1>p, <2>1 DEF Waits
    <3>2. QED
      BY <3>1 DEF Vector
  <2>2. CASE b < x
    <3>1. \A d \in Vector : Waits(d, b) => Waits(d, b)'
      BY <1>p DEF Waits
    <3>2. QED
      BY <1>0, <2>2, <3>1 DEF IngestInv, Parsed, Vector
  <2>3. QED
    BY <1>0, <2>1, <2>2 DEF Block, ConstantsOK
<1>5. (IdsSaved /\ StoredRows /\ StoredPairs /\ PrimaryKeys)'
  BY <1>0, <1>e, IdsSavedKept DEF IngestInv, StoredRows, StoredPairs, PrimaryKeys
<1>6. (HeightMeansStored /\ OneRowPerIdRange)'
  BY <1>0, NoHeightYet
<1>7. QED
  BY <1>1, <1>2, <1>3, <1>4, <1>5, <1>6 DEF IngestInv

\* A Put saves the id that the next process gives its first block: the counter gets an
\* epoch more on disk, and the process stays in its own.
LEMMA SavedId ==
    ASSUME ConstantsOK, IngestInv, storeLastId
    PROVE  /\ IdsSaved'
           /\ \A c \in Counter : Epoch(c)' = Epoch(c)
           /\ stored \in 0 .. 6
           /\ lastIds' = [lastIds EXCEPT ![StoreOrder[stored + 1]] = ids[StoreOrder[stored + 1]]]
           /\ \A c \in Counter : Saved(c)' <=> Saved(c) \/ c = StoreOrder[stored + 1]
<1>a. PICK k : k = StoreOrder[stored + 1]
  OBVIOUS
<1>0. stored \in 0 .. 6 /\ stored + 1 \in 1 .. 7 /\ stored' = stored + 1
  BY OrderOfSaves DEF storeLastId, IngestInv, TypeOK
<1>1. k \in Counter
  BY <1>0, <1>a, OrderOfSaves
<1>2. lastIds' = [lastIds EXCEPT ![k] = ids[k]]
  BY <1>a DEF storeLastId
<1>3. \A c \in Counter : Saved(c)' <=> Saved(c) \/ c = k
  <2>1. \A n : n \in 1 .. stored' <=> n \in 1 .. stored \/ n = stored + 1
    BY <1>0
  <2>2. QED
    BY <1>a, <2>1 DEF Saved
<1>4. ~Saved(k)
  <2>1. \A n \in 1 .. stored : n \in 1 .. 7 /\ n # stored + 1
    BY <1>0
  <2>2. QED
    BY <1>0, <1>a, <2>1, OrderOfSaves DEF Saved
<1>5. lastIds \in [Counter -> Nat]
  BY DEF IngestInv, TypeOK
<1>6. ASSUME NEW c \in Counter, c # k
      PROVE  /\ lastIds'[c] = lastIds[c]
             /\ Saves(c)' = Saves(c)
             /\ Saved(c)' <=> Saved(c)
             /\ Epoch(c)' = Epoch(c)
  BY <1>2, <1>3, <1>5, <1>6 DEF Saves, Epoch
<1>7. Epoch(k) = Saves(k) /\ Epoch(k) \in Nat
  BY <1>1, <1>4, EpochIsNat DEF Epoch, IngestInv
<1>8. lastIds'[k] = IdAt(Epoch(k) + 1, 1) /\ lastIds'[k] # 0
  <2>1. x = end_block_height + 1 /\ main \in Running
    BY DEF storeLastId, IngestInv, Control, TypeOK, Running, ConstantsOK
  <2>2. ids[k] = IdAt(Epoch(k), end_block_height + 1)
    BY <1>1, <2>1 DEF IngestInv, IdsCount
  <2>3. /\ IdAt(Epoch(k), end_block_height + 1) = IdAt(Epoch(k) + 1, 1)
        /\ IdAt(Epoch(k) + 1, 1) # 0
    BY <1>7, IdAtSums, Epoch(k) + 1 \in Nat
  <2>4. QED
    BY <1>1, <1>2, <1>5, <2>2, <2>3
<1>9. Saves(k)' = Epoch(k) + 1
  BY <1>7, <1>8, IdAtDivides, Epoch(k) + 1 \in Nat DEF Saves
<1>10. Epoch(k)' = Epoch(k)
  BY <1>1, <1>3, <1>7, <1>9 DEF Epoch
<1>11. IdsSaved'
  <2> SUFFICES ASSUME NEW c \in Counter
               PROVE  /\ Saves(c)' \in Nat
                      /\ Saved(c)' => Saves(c)' # 0
                      /\ lastIds'[c] = IF Saves(c)' = 0 THEN 0 ELSE IdAt(Saves(c)', 1)
    BY DEF IdsSaved
  <2>1. CASE c = k
    BY <1>7, <1>8, <1>9, <2>1
  <2>2. CASE c # k
    BY <1>6, <2>2 DEF IngestInv, IdsSaved
  <2>3. QED
    BY <2>1, <2>2
<1>12. QED
  BY <1>0, <1>a, <1>2, <1>3, <1>6, <1>10, <1>11

LEMMA SaveIdStep ==
    ASSUME ConstantsOK, IngestInv, TypeOK', storeLastId
    PROVE  IngestInv'
<1>0. /\ main \in Running /\ main' \in {"ids", "flag"} /\ lastBlockHeight = 0
      /\ x = end_block_height + 1
      /\ UNCHANGED <<lastBlockHeight, hashToId, rows, ids, x, vectors, isAllBlockDone, crashes,
                     thread>>
  BY DEF storeLastId, IngestInv, Control, TypeOK, Running, ConstantsOK
<1>1. \A c \in Counter : Epoch(c)' = Epoch(c)
  BY SavedId
<1>2. Control'
  <2>1. main' = "flag" => stored' = Len(StoreOrder)
    BY DEF storeLastId
  <2>2. stopped' \ Racy = {} /\ isAllBlockDone' = FALSE /\ lastBlockHeight' = 0 /\ x' # 0
    BY <1>0 DEF storeLastId, thread, IngestInv, Control, TypeOK, ConstantsOK
  <2>3. QED
    BY <1>0, <2>1, <2>2 DEF Control, Running
<1>3. IdsCount'
  BY <1>0, <1>1 DEF IngestInv, IdsCount
<1>5. (WaitingRows /\ StoredRows)'
  BY <1>0, <1>1 DEF IngestInv, WaitingRows, StoredRows
<1>6. \A m \in HashMap : IdOf[m] \in Counter
  BY DEF ConstantsOK, IdOf, Counter
<1>7. \A t \in Table : KeyOf[t] \in Counter
  BY DEF ConstantsOK, KeyOf, Counter
<1>8. StoredPairs' /\ PrimaryKeys'
  BY <1>0, <1>1, <1>6 DEF IngestInv, StoredPairs, PrimaryKeys
<1>9. Parsed'
  BY <1>0, <1>1, <1>6, <1>7 DEF IngestInv, Parsed, Waits, PairIsStored, RowIsStored
<1>10. (HeightMeansStored /\ OneRowPerIdRange)'
  BY <1>0, NoHeightYet
<1>11. QED
  BY <1>2, <1>3, <1>5, <1>8, <1>9, <1>10, SavedId DEF IngestInv

LEMMA FlagStep ==
    ASSUME ConstantsOK, IngestInv, TypeOK', SetAllBlockDone
    PROVE  IngestInv'
<1>0. /\ main = "flag" /\ main' = "join" /\ main \in Running
      /\ UNCHANGED <<lastIds, stored, hashToId, rows, vectors, crashes, x, ids, lastBlockHeight>>
  BY DEF SetAllBlockDone, disk, Running
<1>1. Control'
  BY <1>0 DEF SetAllBlockDone, thread, IngestInv, Control, Running
<1>2. (IdsCount /\ Parsed)'
  BY <1>0, ParsedKept
<1>3. (IdsSaved /\ WaitingRows /\ StoredRows /\ StoredPairs /\ PrimaryKeys)'
  BY <1>0, DataKept
<1>4. (HeightMeansStored /\ OneRowPerIdRange)'
  BY <1>0, NoHeightYet
<1>5. QED
  BY <1>1, <1>2, <1>3, <1>4 DEF IngestInv

\* The rows of a block have as many keys as there were epochs.
LEMMA RowsPerEpoch ==
    ASSUME ConstantsOK, IngestInv, NEW t \in Table, NEW b \in Block
    PROVE  Cardinality(RowsOf(t, b)) <= Epoch(KeyOf[t]) + 1
<1> DEFINE c == KeyOf[t]
           S == RowsOf(t, b)
           T == 0 .. Epoch(c)
<1>0. c \in Counter /\ Epoch(c) \in Nat
  BY CountersOf, EpochIsNat DEF IngestInv
<1>1. \A r \in S : \E e \in T : r.ids[c] = IdAt(e, b)
  BY <1>0 DEF IngestInv, StoredRows, RowsOf
<1>2. \A r, s \in S : r.ids[c] = s.ids[c] => r = s
  BY DEF IngestInv, PrimaryKeys, RowsOf
<1> DEFINE f == [r \in S |-> CHOOSE e \in T : r.ids[c] = IdAt(e, b)]
<1> HIDE DEF S, T, c
<1>3. \A r \in S : f[r] \in T /\ r.ids[c] = IdAt(f[r], b)
  BY <1>1
<1>4. f \in [S -> T] /\ \A r, s \in S : f[r] = f[s] => r = s
  <2>1. f \in [S -> T]
    BY <1>3
  <2> HIDE DEF f
  <2>2. QED
    BY <1>2, <1>3, <2>1
<1> HIDE DEF f
<1>5. f \in Injection(S, T)
  BY <1>4 DEF Injection, IsInjective
<1>6. IsFiniteSet(T) /\ Cardinality(T) = Epoch(c) + 1
  BY <1>0, FS_Interval DEF T
<1>7. Cardinality(S) <= Cardinality(T)
  BY <1>5, <1>6, FS_Injection
<1>8. QED
  BY <1>6, <1>7 DEF S, c

LEMMA SaveHeightStep ==
    ASSUME ConstantsOK, IngestInv, TypeOK', storeLastSavedBlockHeight
    PROVE  IngestInv'
<1>0. /\ main = "join" /\ main' = "done" /\ main \in Running /\ stopped = Vector
      /\ x = end_block_height + 1 /\ stored = 7
      /\ lastBlockHeight' = end_block_height
      /\ 1 .. lastBlockHeight' = Block
      /\ UNCHANGED <<lastIds, stored, hashToId, rows, vectors, crashes>>
  BY OrderOfSaves DEF storeLastSavedBlockHeight, Running, IngestInv, Control, Block
<1>1. Control'
  BY <1>0 DEF storeLastSavedBlockHeight, thread, IngestInv, Control, Running
<1>2. (IdsCount /\ Parsed)'
  BY <1>0 DEF IdsCount, Parsed, Running
<1>3. (IdsSaved /\ WaitingRows /\ StoredRows /\ StoredPairs /\ PrimaryKeys)'
  BY <1>0, DataKept
<1>b. \A b \in Block : b < x /\ b \in Nat /\ b # 0
  BY <1>0 DEF Block, ConstantsOK
<1>4. HeightMeansStored'
  <2> SUFFICES ASSUME NEW b \in Block
               PROVE  /\ \A m \in HashMap \ Racy : hashToId[m][b] # 0
                      /\ \A t \in Table \ Racy : RowsOf(t, b) # {}
    BY <1>0 DEF HeightMeansStored, RowsOf
  <2>1. \A d \in Vector \ Racy : ~Waits(d, b)
    <3>1. \A d \in Vector \ Racy : vectors[d] = <<>>
      BY <1>0 DEF IngestInv, Control
    <3>2. DOMAIN <<>> = {}
      OBVIOUS
    <3>3. QED
      BY <3>1, <3>2 DEF Waits
  <2>2. /\ \A m \in HashMap \ Racy : PairIsStored(m, b)
        /\ \A t \in Table \ Racy : RowIsStored(t, b)
    BY <1>0, <1>b, <2>1 DEF IngestInv, Parsed, Vector
  <2>3. ASSUME NEW m \in HashMap \ Racy
        PROVE  hashToId[m][b] # 0
    <3>1. Epoch(IdOf[m]) \in Nat
      BY CountersOf, EpochIsNat DEF IngestInv
    <3>2. IdAt(Epoch(IdOf[m]), b) # 0
      BY <1>b, <3>1, IdAtSums
    <3>3. QED
      BY <2>2, <3>2 DEF PairIsStored
  <2>4. ASSUME NEW t \in Table \ Racy
        PROVE  RowsOf(t, b) # {}
    BY <2>2 DEF RowIsStored, RowsOf
  <2>5. QED
    BY <2>3, <2>4
<1>5. OneRowPerIdRange'
  <2> SUFFICES ASSUME NEW b \in Block, NEW t \in Table
               PROVE  Cardinality(RowsOf(t, b)) <= (lastIds[KeyOf[t]] - 1) \div end_block_height
    BY <1>0 DEF OneRowPerIdRange, RowsOf
  <2>1. KeyOf[t] \in Counter
    BY CountersOf
  <2>2. Saved(KeyOf[t])
    BY <1>0, <2>1, OrderOfSaves DEF Saved
  <2>3. /\ Saves(KeyOf[t]) \in Nat
        /\ Epoch(KeyOf[t]) + 1 = Saves(KeyOf[t])
        /\ lastIds[KeyOf[t]] = IdAt(Saves(KeyOf[t]), 1)
    BY <2>1, <2>2 DEF Epoch, IngestInv, IdsSaved
  <2>4. QED
    BY <2>3, RowsPerEpoch, IdAtDivides
<1>6. QED
  BY <1>1, <1>2, <1>3, <1>4, <1>5 DEF IngestInv

-----------------------------------------------------------------------------
(* The storing threads.                                                    *)

LEMMA InsertKeyStep ==
    ASSUME ConstantsOK, IngestInv, TypeOK', NEW m \in HashMap, insertKey(m)
    PROVE  IngestInv'
<1>a. PICK row : row = Head(vectors[m])
  OBVIOUS
<1>0. /\ main \in Running /\ main' = main /\ m \notin stopped
      /\ vectors[m] # <<>>
      /\ hashToId' = [hashToId EXCEPT ![m][row.block] = row.ids[IdOf[m]]]
      /\ vectors' = [vectors EXCEPT ![m] = Tail(vectors[m])]
      /\ UNCHANGED <<thread, lastBlockHeight, lastIds, rows, ids, x, stored, isAllBlockDone,
                     crashes>>
  BY <1>a DEF insertKey, Looping, IngestInv, Control, TypeOK, Running, Vector
<1>1. \A c : Epoch(c)' = Epoch(c)
  BY <1>0, EpochKept
<1>2. /\ vectors \in [Vector -> Seq(Row)] /\ m \in Vector
      /\ hashToId \in [HashMap -> [Block -> Nat]]
  BY DEF IngestInv, TypeOK, Vector
<1>3. /\ Len(vectors[m]) \in Nat \ {0}
      /\ DOMAIN vectors[m] = 1 .. Len(vectors[m])
      /\ row = vectors[m][1] /\ row \in Row
      /\ DOMAIN vectors'[m] = 1 .. Len(vectors[m]) - 1
      /\ \A i \in DOMAIN vectors'[m] : vectors'[m][i] = vectors[m][i + 1]
  <2>1. vectors[m] \in Seq(Row) /\ vectors'[m] = Tail(vectors[m])
    BY <1>0, <1>2
  <2>2. Head(vectors[m]) = vectors[m][1]
    BY <2>1
  <2>3. Len(vectors[m]) \in Nat /\ Len(vectors[m]) # 0 /\ DOMAIN vectors[m] = 1 .. Len(vectors[m])
    BY <1>0, <2>1, LenProperties
  <2>4. row \in Row /\ vectors'[m] \in Seq(Row) /\ Len(vectors'[m]) = Len(vectors[m]) - 1
        /\ \A i \in 1 .. Len(vectors'[m]) : vectors'[m][i] = vectors[m][i + 1]
    <3>1. /\ row \in Row /\ Tail(vectors[m]) \in Seq(Row)
          /\ Len(Tail(vectors[m])) = Len(vectors[m]) - 1
      BY <1>a, <1>0, <2>1, HeadTailProperties
    <3>2. \A i \in 1 .. Len(Tail(vectors[m])) : Tail(vectors[m])[i] = vectors[m][i + 1]
      BY <1>0, <2>1, HeadTailProperties
    <3>3. QED
      BY <2>1, <3>1, <3>2
  <2>5. DOMAIN vectors'[m] = 1 .. Len(vectors'[m])
    BY <2>4, LenProperties
  <2>6. QED
    BY <1>a, <2>2, <2>3, <2>4, <2>5
<1>4. \A d \in Vector : d # m => vectors'[d] = vectors[d]
  BY <1>0, <1>2
<1>5. /\ row.block \in Block
      /\ row.ids[IdOf[m]] = IdAt(Epoch(IdOf[m]), row.block)
      /\ IdOf[m] \in Counter /\ Epoch(IdOf[m]) \in Nat
  <2>1. IdOf[m] \in Counter /\ Epoch(IdOf[m]) \in Nat
    BY CountersOf, EpochIsNat DEF IngestInv
  <2>2. row.block \in Block
    BY <1>3 DEF Row
  <2>3. 1 \in DOMAIN vectors[m]
    BY <1>3
  <2>4. row.ids[IdOf[m]] = IdAt(Epoch(IdOf[m]), row.block)
    BY <1>2, <1>3, <2>1, <2>3 DEF IngestInv, WaitingRows
  <2>5. QED
    BY <2>1, <2>2, <2>4
<1>6. \A n \in HashMap, b \in Block :
          hashToId'[n][b] = IF n = m /\ b = row.block THEN row.ids[IdOf[m]] ELSE hashToId[n][b]
  BY <1>0, <1>2
<1>7. Control'
  <2>1. \A d \in stopped \ Racy : vectors'[d] = vectors[d]
    BY <1>0, <1>4 DEF IngestInv, TypeOK
  <2>2. QED
    BY <1>0, <2>1 DEF thread, IngestInv, Control
<1>8. IdsSaved' /\ IdsCount'
  BY <1>0, <1>1, IdsSavedKept DEF IngestInv, IdsCount
<1>9. WaitingRows'
  <2> SUFFICES ASSUME NEW d \in Vector, NEW i \in DOMAIN vectors'[d]
               PROVE  \E j \in DOMAIN vectors[d] : vectors'[d][i] = vectors[d][j]
    BY <1>0, <1>1 DEF IngestInv, WaitingRows
  <2>1. CASE d = m
    BY <1>3, <2>1
  <2>2. CASE d # m
    BY <1>4, <2>2
  <2>3. QED
    BY <2>1, <2>2
<1>10. StoredRows' /\ PrimaryKeys'
  BY <1>0, <1>1 DEF IngestInv, StoredRows, PrimaryKeys
<1>11. StoredPairs'
  <2> SUFFICES ASSUME NEW n \in HashMap, NEW b \in Block, hashToId'[n][b] # 0
               PROVE  \E e \in 0 .. Epoch(IdOf[n]) : hashToId'[n][b] = IdAt(e, b)
    BY <1>1 DEF StoredPairs
  <2>1. CASE n = m /\ b = row.block
    <3>1. Epoch(IdOf[n]) \in 0 .. Epoch(IdOf[n])
      BY <1>5, <2>1
    <3>2. QED
      BY <1>5, <1>6, <2>1, <3>1
  <2>2. CASE ~(n = m /\ b = row.block)
    BY <1>6, <2>2 DEF IngestInv, StoredPairs
  <2>3. QED
    BY <2>1, <2>2
<1>12. Parsed'
  <2> SUFFICES ASSUME NEW b \in Block, b < x
               PROVE  /\ \A n \in HashMap : Waits(n, b)' \/ PairIsStored(n, b)'
                      /\ \A t \in Table : Waits(t, b)' \/ RowIsStored(t, b)
    BY <1>0, <1>1 DEF Parsed, RowIsStored
  <2>1. \A d \in Vector : d # m /\ Waits(d, b) => Waits(d, b)'
    BY <1>4 DEF Waits
  <2>2. \A n \in HashMap : PairIsStored(n, b) => PairIsStored(n, b)'
    BY <1>1, <1>5, <1>6 DEF PairIsStored
  <2>3. Waits(m, b) => Waits(m, b)' \/ PairIsStored(m, b)'
    <3> SUFFICES ASSUME NEW i \in DOMAIN vectors[m], vectors[m][i].block = b
                 PROVE  Waits(m, b)' \/ PairIsStored(m, b)'
      BY DEF Waits
    <3>1. CASE i = 1
      BY <1>1, <1>3, <1>5, <1>6, <3>1 DEF PairIsStored
    <3>2. CASE i # 1
      <4>1. i \in 2 .. Len(vectors[m]) /\ i - 1 \in 1 .. Len(vectors[m]) - 1 /\ (i - 1) + 1 = i
        BY <1>3, <3>2
      <4>2. PICK j : j \in DOMAIN vectors'[m] /\ j + 1 = i
        BY <1>3, <4>1
      <4>3. vectors'[m][j] = vectors[m][i]
        BY <1>3, <4>2
      <4>4. QED
        BY <4>2, <4>3 DEF Waits
    <3>3. QED
      BY <3>1, <3>2
  <2>4. m \notin Table
    BY DEF ConstantsOK, IdOf, KeyOf
  <2>5. \A n \in HashMap : Waits(n, b) \/ PairIsStored(n, b)
    BY <1>0 DEF IngestInv, Parsed
  <2>6. \A t \in Table : Waits(t, b) \/ RowIsStored(t, b)
    BY <1>0 DEF IngestInv, Parsed
  <2>7. QED
    BY <2>1, <2>2, <2>3, <2>4, <2>5, <2>6 DEF Vector
<1>13. (HeightMeansStored /\ OneRowPerIdRange)'
  BY <1>0, NoHeightYet
<1>14. QED
  BY <1>7, <1>8, <1>9, <1>10, <1>11, <1>12, <1>13 DEF IngestInv

LEMMA InsertDataStep ==
    ASSUME ConstantsOK, IngestInv, TypeOK', NEW t \in Table, insertData(t)
    PROVE  IngestInv'
<1> DEFINE key == KeyOf[t]
<1>0. /\ main \in Running /\ main' = main /\ t \notin stopped
      /\ rows' = [rows EXCEPT ![t] = rows[t] \cup {row \in Range(vectors[t]) : Kept(t, row)}]
      /\ vectors' = [vectors EXCEPT ![t] = <<>>]
      /\ UNCHANGED <<thread, lastBlockHeight, lastIds, hashToId, ids, x, stored, isAllBlockDone,
                     crashes>>
  BY DEF insertData, Looping, IngestInv, Control, TypeOK, Running, Vector
<1>1. \A c : Epoch(c)' = Epoch(c)
  BY <1>0, EpochKept
<1>2. /\ vectors \in [Vector -> Seq(Row)] /\ t \in Vector
      /\ rows \in [Table -> SUBSET Row]
      /\ key \in Counter /\ Epoch(key) \in Nat
  BY CountersOf, EpochIsNat DEF IngestInv, TypeOK, Vector
<1> HIDE DEF key
<1>3. /\ vectors'[t] = <<>>
      /\ \A d \in Vector : d # t => vectors'[d] = vectors[d]
      /\ rows'[t] = rows[t] \cup {row \in Range(vectors[t]) : Kept(t, row)}
      /\ \A u \in Table : u # t => rows'[u] = rows[u]
  BY <1>0, <1>2
<1>4. \A r \in Range(vectors[t]) :
          /\ r \in Row /\ r.process = crashes
          /\ \A c \in Counter : r.ids[c] = IdAt(Epoch(c), r.block)
  <2>1. \A r \in Range(vectors[t]) : \E i \in DOMAIN vectors[t] : r = vectors[t][i]
    BY DEF Range
  <2>2. Range(vectors[t]) \subseteq Row
    BY <1>2, RangeOfSeq
  <2>3. QED
    BY <1>2, <2>1, <2>2 DEF IngestInv, WaitingRows
<1>5. \A r \in rows[t] : r \in Row /\ \E e \in Nat : r.ids[key] = IdAt(e, r.block)
  BY <1>2 DEF IngestInv, StoredRows
<1>6. \A r \in Row : r.block \in Block
  BY DEF Row
<1>7. Control'
  <2>1. \A d \in stopped \ Racy : vectors'[d] = vectors[d]
    BY <1>0, <1>3 DEF IngestInv, TypeOK
  <2>2. QED
    BY <1>0, <2>1 DEF thread, IngestInv, Control
<1>8. IdsSaved' /\ IdsCount'
  BY <1>0, <1>1, IdsSavedKept DEF IngestInv, IdsCount
<1>9. WaitingRows'
  <2>1. DOMAIN <<>> = {}
    OBVIOUS
  <2>2. QED
    BY <1>0, <1>1, <1>3, <2>1 DEF IngestInv, WaitingRows
<1>10. StoredRows'
  <2> SUFFICES ASSUME NEW u \in Table, NEW r \in rows'[u], NEW c \in Counter
               PROVE  \E e \in 0 .. Epoch(c) : r.ids[c] = IdAt(e, r.block)
    BY <1>1 DEF StoredRows
  <2>1. CASE r \in rows[u]
    BY <2>1 DEF IngestInv, StoredRows
  <2>2. CASE r \notin rows[u]
    <3>1. r.ids[c] = IdAt(Epoch(c), r.block)
      BY <1>3, <1>4, <2>2
    <3>2. Epoch(c) \in 0 .. Epoch(c)
      BY EpochIsNat DEF IngestInv
    <3>3. QED
      BY <3>1, <3>2
  <2>3. QED
    BY <2>1, <2>2
<1>11. StoredPairs'
  BY <1>0, <1>1 DEF IngestInv, StoredPairs
<1>12. PrimaryKeys'
  <2> SUFFICES ASSUME NEW u \in Table, NEW r \in rows'[u], NEW s \in rows'[u],
                      r.ids[KeyOf[u]] = s.ids[KeyOf[u]]
               PROVE  r = s
    BY DEF PrimaryKeys
  <2>1. CASE r \in rows[u] /\ s \in rows[u]
    BY <2>1 DEF IngestInv, PrimaryKeys
  <2>2. CASE u = t /\ (r \in rows[u] <=> s \notin rows[u])
    BY <1>3, <2>2 DEF Kept
  <2>3. CASE u = t /\ r \notin rows[u] /\ s \notin rows[u]
    <3>1. r \in Range(vectors[t]) /\ s \in Range(vectors[t])
      BY <1>3, <2>3
    <3>2. r.block = s.block
      <4>1. r.ids[key] = IdAt(Epoch(key), r.block) /\ s.ids[key] = IdAt(Epoch(key), s.block)
        BY <1>2, <1>4, <3>1
      <4>2. IdAt(Epoch(key), r.block) = IdAt(Epoch(key), s.block)
        BY <2>3, <4>1 DEF key
      <4>3. QED
        BY <1>2, <1>4, <1>6, <3>1, <4>2, IdAtInjective
    <3>3. r.ids \in [Counter -> Nat] /\ s.ids \in [Counter -> Nat]
      BY <1>4, <3>1 DEF Row
    <3>4. r.ids = s.ids
      <4>1. \A c \in Counter : r.ids[c] = s.ids[c]
        BY <1>4, <3>1, <3>2
      <4>2. QED
        BY <3>3, <4>1
    <3>5. r.process = s.process
      BY <1>4, <3>1
    <3>6. r = [block |-> r.block, ids |-> r.ids, process |-> r.process]
          /\ s = [block |-> s.block, ids |-> s.ids, process |-> s.process]
      BY <1>4, <3>1 DEF Row
    <3>7. QED
      BY <3>2, <3>4, <3>5, <3>6
  <2>4. QED
    BY <1>3, <2>1, <2>2, <2>3
<1>13. Parsed'
  <2> SUFFICES ASSUME NEW b \in Block, b < x
               PROVE  /\ \A m \in HashMap : Waits(m, b)' \/ PairIsStored(m, b)
                      /\ \A u \in Table : Waits(u, b)' \/ RowIsStored(u, b)'
    BY <1>0, <1>1 DEF Parsed, PairIsStored
  <2>1. \A d \in Vector : d # t /\ Waits(d, b) => Waits(d, b)'
    BY <1>3 DEF Waits
  <2>2. \A u \in Table : RowIsStored(u, b) => RowIsStored(u, b)'
    BY <1>1, <1>3 DEF RowIsStored
  <2>3. Waits(t, b) => RowIsStored(t, b)'
    <3> SUFFICES ASSUME NEW i \in DOMAIN vectors[t], vectors[t][i].block = b
                 PROVE  RowIsStored(t, b)'
      BY DEF Waits
    <3>1. PICK r \in Range(vectors[t]) : r = vectors[t][i]
      BY DEF Range
    <3>2. r.block = b /\ r.ids[key] = IdAt(Epoch(key), b)
      BY <1>2, <1>4, <3>1
    <3>3. CASE Kept(t, r)
      BY <1>1, <1>3, <3>2, <3>3 DEF RowIsStored, key
    <3>4. CASE ~Kept(t, r)
      <4>1. PICK s \in rows[t] : s.ids[key] = r.ids[key]
        BY <3>4 DEF Kept, key
      <4>2. PICK e \in Nat : s.ids[key] = IdAt(e, s.block)
        BY <1>5
      <4>3. e = Epoch(key) /\ s.block = b
        <5>1. s.block \in Block
          BY <1>5, <1>6
        <5>2. IdAt(e, s.block) = IdAt(Epoch(key), b)
          BY <3>2, <4>1, <4>2
        <5>3. QED
          <6>1. PICK c \in Block : c = s.block
            BY <5>1
          <6>2. IdAt(e, c) = IdAt(Epoch(key), b) /\ Epoch(key) \in Nat
            BY <1>2, <5>2, <6>1
          <6>3. e = Epoch(key) /\ c = b
            BY <6>2, IdAtInjective
          <6>4. QED
            BY <6>1, <6>3
      <4>4. QED
        BY <1>1, <1>3, <4>1, <4>2, <4>3 DEF RowIsStored, key
    <3>5. QED
      BY <3>3, <3>4
  <2>4. t \notin HashMap
    BY DEF ConstantsOK, IdOf, KeyOf
  <2>5. \A m \in HashMap : Waits(m, b) \/ PairIsStored(m, b)
    BY <1>0 DEF IngestInv, Parsed
  <2>6. \A u \in Table : Waits(u, b) \/ RowIsStored(u, b)
    BY <1>0 DEF IngestInv, Parsed
  <2>7. QED
    BY <2>1, <2>2, <2>3, <2>4, <2>5, <2>6 DEF Vector
<1>14. (HeightMeansStored /\ OneRowPerIdRange)'
  BY <1>0, NoHeightYet
<1>15. QED
  BY <1>7, <1>8, <1>9, <1>10, <1>11, <1>12, <1>13, <1>14 DEF IngestInv

LEMMA ThreadStep ==
    ASSUME ConstantsOK, IngestInv, TypeOK', NEW d \in Vector,
           SeesEmpty(d) \/ ReadsFlag(d) \/ Leaves(d)
    PROVE  IngestInv'
<1>0. UNCHANGED <<disk, lastBlockHeight, lastIds, hashToId, rows, ids, x, stored, vectors,
                  isAllBlockDone, main, crashes>>
  BY DEF SeesEmpty, ReadsFlag, Leaves, ThreadOnly, disk
<1>1. Control'
  <2>1. \A e \in stopped' \ Racy : vectors[e] = <<>> /\ main \in {"join", "done"}
    <3>1. CASE SeesEmpty(d)
      BY <3>1 DEF SeesEmpty, IngestInv, Control
    <3>2. CASE ReadsFlag(d)
      BY <3>2 DEF ReadsFlag, IngestInv, Control, TypeOK
    <3>3. CASE Leaves(d)
      BY <3>3 DEF Leaves, IngestInv, Control
    <3>4. QED
      BY <3>1, <3>2, <3>3
  <2>2. QED
    BY <1>0, <2>1 DEF IngestInv, Control
<1>2. (IdsCount /\ Parsed)'
  <2>1. CASE main \in Running
    BY <1>0, <2>1, ParsedKept
  <2>2. CASE main \notin Running
    BY <1>0, <2>2 DEF IdsCount, Parsed
  <2>3. QED
    BY <2>1, <2>2
<1>3. (IdsSaved /\ WaitingRows /\ StoredRows /\ StoredPairs /\ PrimaryKeys)'
  BY <1>0, DataKept
<1>4. (HeightMeansStored /\ OneRowPerIdRange)'
  BY <1>0, HeightKept
<1>5. QED
  BY <1>1, <1>2, <1>3, <1>4 DEF IngestInv

-----------------------------------------------------------------------------
(* The process dies: the saves that it made begin a new epoch.              *)

LEMMA CrashStep ==
    ASSUME ConstantsOK, IngestInv, TypeOK', Crash
    PROVE  IngestInv'
<1>0. /\ main' = "start" /\ x' = 0 /\ stored' = 0 /\ stopped' = {} /\ isAllBlockDone' = FALSE
      /\ \A d \in Vector : vectors'[d] = <<>>
      /\ UNCHANGED <<disk, lastBlockHeight, lastIds, hashToId, rows>>
  BY DEF Crash, disk
<1>1. \A c : Saves(c)' = Saves(c) /\ Epoch(c)' = Saves(c)
  <2>1. 1 .. stored' = {}
    BY <1>0
  <2>2. QED
    BY <1>0, <2>1 DEF Saves, Epoch, Saved
<1>2. \A c \in Counter : 0 .. Epoch(c) \subseteq 0 .. Epoch(c)'
  BY <1>1 DEF Epoch, IngestInv, IdsSaved
<1>3. DOMAIN <<>> = {}
  OBVIOUS
<1>4. Control'
  BY <1>0 DEF Control, Running
<1>5. IdsSaved'
  <2>1. \A c : ~Saved(c)'
    BY <1>0 DEF Saved
  <2>2. QED
    BY <1>0, <1>1, <2>1 DEF IngestInv, IdsSaved
<1>6. (IdsCount /\ Parsed)'
  BY <1>0 DEF IdsCount, Parsed, Running
<1>7. WaitingRows'
  BY <1>0, <1>3 DEF WaitingRows
<1>8. StoredRows'
  BY <1>0, <1>2 DEF IngestInv, StoredRows
<1>9. StoredPairs'
  BY <1>0, <1>2, CountersOf DEF IngestInv, StoredPairs
<1>10. PrimaryKeys'
  BY <1>0 DEF IngestInv, PrimaryKeys
<1>11. (HeightMeansStored /\ OneRowPerIdRange)'
  BY <1>0, HeightKept
<1>12. QED
  BY <1>4, <1>5, <1>6, <1>7, <1>8, <1>9, <1>10, <1>11 DEF IngestInv

-----------------------------------------------------------------------------
(* The invariant.                                                          *)

LEMMA IngestInvInit == Init => IngestInv
<1> SUFFICES ASSUME Init
             PROVE  IngestInv
  OBVIOUS
<1> USE DEF Init
<1>0. Len(StoreOrder) = 7
  BY OrderOfSaves
<1>1. TypeOK
  <2>1. <<>> \in Seq(Row)
    OBVIOUS
  <2>2. vectors \in [Vector -> Seq(Row)]
    BY <2>1
  <2>3. hashToId \in [HashMap -> [Block -> Nat]] /\ rows \in [Table -> SUBSET Row]
    OBVIOUS
  <2>4. lastIds \in [Counter -> Nat] /\ ids \in [Counter -> Nat]
    OBVIOUS
  <2>5. 0 \in 0 .. end_block_height + 1 /\ 0 \in 0 .. MaxCrashes
    BY ConstantsOK DEF ConstantsOK
  <2>6. /\ lastBlockHeight \in {0, end_block_height}
        /\ sawEmpty \subseteq Racy /\ stopped \subseteq Vector
        /\ isAllBlockDone \in BOOLEAN
        /\ main \in {"start", "load", "parse", "ids", "flag", "join", "done"}
        /\ x = 0 /\ crashes = 0 /\ stored = 0
    OBVIOUS
  <2>7. 0 \in 0 .. Len(StoreOrder)
    BY <1>0
  <2> HIDE DEF Init
  <2>8. QED
    BY <2>2, <2>3, <2>4, <2>5, <2>6, <2>7 DEF TypeOK
<1>2. Control
  BY DEF Control, Running
<1>3. \A c \in Counter : Saves(c) = 0 /\ ~Saved(c)
  BY DEF Saves, Saved
<1>4. IdsSaved /\ IdsCount
  BY <1>3 DEF IdsSaved, IdsCount, Running
<1>5. WaitingRows /\ StoredRows /\ PrimaryKeys
  <2>1. DOMAIN <<>> = {}
    OBVIOUS
  <2>2. QED
    BY <2>1 DEF WaitingRows, StoredRows, PrimaryKeys
<1>6. StoredPairs /\ Parsed
  BY DEF StoredPairs, Parsed, Running
<1>7. 1 .. lastBlockHeight = {}
  OBVIOUS
<1>8. HeightMeansStored /\ OneRowPerIdRange
  BY <1>7 DEF HeightMeansStored, OneRowPerIdRange
<1>9. QED
  BY <1>1, <1>2, <1>4, <1>5, <1>6, <1>8 DEF IngestInv

LEMMA IngestInvStep == IngestInv /\ [Next]_vars => IngestInv'
<1> SUFFICES ASSUME IngestInv, [Next]_vars
             PROVE  IngestInv'
  OBVIOUS
<1>0. ConstantsOK
  BY ConstantsOK
<1>1. TypeOK'
  BY <1>0, TypesKept DEF IngestInv
<1>2. CASE mainFunction
  BY <1>0, <1>1, <1>2, StartStep, LoadStep, ProcessStep, SaveIdStep, FlagStep, SaveHeightStep
  DEF mainFunction
<1>3. ASSUME NEW d \in Vector, Store(d)
      PROVE  IngestInv'
  BY <1>0, <1>1, <1>3, InsertKeyStep, InsertDataStep, ThreadStep DEF Store
<1>4. CASE Crash
  BY <1>0, <1>1, <1>4, CrashStep
<1>5. CASE Ended \/ UNCHANGED vars
  <2>1. UNCHANGED <<disk, lastBlockHeight, lastIds, hashToId, rows, ids, x, stored, vectors,
                    thread, isAllBlockDone, main, crashes>>
    BY <1>5 DEF Ended, vars, disk
  <2>2. Control'
    BY <2>1 DEF IngestInv, Control, thread
  <2>3. (IdsCount /\ Parsed)'
    <3>1. CASE main \in Running
      BY <2>1, <3>1, ParsedKept
    <3>2. CASE main \notin Running
      BY <2>1, <3>2 DEF IdsCount, Parsed
    <3>3. QED
      BY <3>1, <3>2
  <2>4. (IdsSaved /\ WaitingRows /\ StoredRows /\ StoredPairs /\ PrimaryKeys)'
    BY <2>1, DataKept
  <2>5. (HeightMeansStored /\ OneRowPerIdRange)'
    BY <2>1, HeightKept
  <2>6. QED
    BY <1>1, <2>2, <2>3, <2>4, <2>5 DEF IngestInv
<1>6. QED
  BY <1>2, <1>3, <1>4, <1>5 DEF Next

\* The counters, the rows on their way and the rows and pairs on disk belong together, in
\* whatever process they were made (parser.h:237-298, main.cpp:144-196).
THEOREM IngestInvariant == Spec => []IngestInv
BY IngestInvInit, IngestInvStep, PTL DEF Spec

\* A block that gets an id in a process has the id of no other block, in that process or
\* in one before it, wherever processes died, among the seven Puts as well: the counters
\* are read back with values that no row has used, or with those that the same blocks had
\* (parser.h:237-298).
THEOREM IdsAreNotShared == Spec => []NoSharedIds
<1>1. IngestInv => NoSharedIds
  <2> SUFFICES ASSUME IngestInv, NEW m \in HashMap, NEW a \in Block, NEW b \in Block,
                      hashToId[m][a] = hashToId[m][b], hashToId[m][a] # 0
               PROVE  a = b
    BY DEF NoSharedIds
  <2>1. Epoch(IdOf[m]) \in Nat
    BY ConstantsOK, CountersOf, EpochIsNat DEF IngestInv
  <2>2. PICK e \in 0 .. Epoch(IdOf[m]) : hashToId[m][a] = IdAt(e, a)
    BY DEF IngestInv, StoredPairs
  <2>3. PICK f \in 0 .. Epoch(IdOf[m]) : hashToId[m][b] = IdAt(f, b)
    BY DEF IngestInv, StoredPairs
  <2>4. IdAt(e, a) = IdAt(f, b)
    BY <2>2, <2>3
  <2>5. e \in Nat /\ f \in Nat
    BY <2>1
  <2>6. QED
    BY <2>4, <2>5, ConstantsOK, IdAtInjective
<1>2. QED
  BY <1>1, IngestInvariant, PTL

\* Blocks that are parsed again, because a process died before its ids were saved, add no
\* row: a table has no more rows of a block than its counter was saved (SQLiteDB.h, the
\* PRIMARY KEYs).
THEOREM RowsAreNotRepeated == Spec => []OneRowPerIdRange
<1>1. IngestInv => OneRowPerIdRange
  BY DEF IngestInv
<1>2. QED
  BY <1>1, IngestInvariant, PTL

\* A saved height means that the blocks up to it are in the maps and tables whose threads
\* cannot leave early, for every batch size and wherever processes died before
\* (main.cpp:184-196).
THEOREM SavedHeightMeansStored == Spec => []HeightMeansStored
<1>1. IngestInv => HeightMeansStored
  BY DEF IngestInv
<1>2. QED
  BY <1>1, IngestInvariant, PTL

-----------------------------------------------------------------------------
(* When no process dies among the seven Puts.                              *)

IndexInv == IngestInv /\ Uniform /\ TransactionsAreIndexed

NoCrashInIds == "ids" \notin CrashAt
IndexIsKept  == "tx" \in HashMap /\ {"TX_INDEX", "BLOCK_DATA"} \subseteq Table

LEMMA UniformKept ==
    ASSUME Uniform, UNCHANGED <<ids, vectors, rows, lastIds>>,
           main # "ids", main' # "ids"
    PROVE  Uniform'
BY DEF Uniform, AllEqual

LEMMA UniformStep ==
    ASSUME ConstantsOK, NoCrashInIds, IngestInv, Uniform, [Next]_vars
    PROVE  Uniform'
<1>1. CASE Start \/ SetAllBlockDone \/ storeLastSavedBlockHeight
  BY <1>1, UniformKept DEF Start, SetAllBlockDone, storeLastSavedBlockHeight, disk
<1>2. CASE getLastIdList
  <2>1. main = "load" /\ main' = "parse" /\ UNCHANGED <<lastIds, rows, vectors>>
    BY <1>2 DEF getLastIdList, disk
  <2>2. AllEqual(ids')
    BY <1>2, <2>1 DEF getLastIdList, Uniform, AllEqual
  <2>3. QED
    BY <2>1, <2>2 DEF Uniform, AllEqual
<1>3. CASE xmrProcessor
  <2>1. main = "parse" /\ main' = "parse" /\ UNCHANGED <<lastIds, rows>>
    BY <1>3 DEF xmrProcessor, disk
  <2>2. AllEqual(ids')
    BY <1>3 DEF xmrProcessor, Uniform, AllEqual
  <2>3. ASSUME NEW d \in Vector, NEW i \in DOMAIN vectors'[d]
        PROVE  AllEqual(vectors'[d][i].ids)
    <3> DEFINE r == [block |-> x, ids |-> ids, process |-> crashes]
    <3>1. vectors[d] \in Seq(Row) /\ vectors'[d] = Append(vectors[d], r)
      BY <1>3 DEF xmrProcessor, IngestInv, TypeOK
    <3>2. r \in Row
      <4>1. x \in Block
        BY <1>3 DEF xmrProcessor, IngestInv, Control, TypeOK, Running, Block, ConstantsOK
      <4>2. QED
        BY <4>1 DEF Row, IngestInv, TypeOK
    <3>3. AllEqual(r.ids)
      BY DEF Uniform
    <3> HIDE DEF r
    <3>4. CASE i \in DOMAIN vectors[d]
      BY <3>1, <3>2, <3>4, AppendProperties, LenProperties DEF Uniform
    <3>5. CASE i \notin DOMAIN vectors[d]
      <4>1. vectors'[d][i] = r
        BY <3>1, <3>2, <3>5, AppendProperties, LenProperties
      <4>2. QED
        BY <3>3, <4>1
    <3>6. QED
      BY <3>4, <3>5
  <2>4. QED
    BY <2>1, <2>2, <2>3 DEF Uniform, AllEqual
<1>4. CASE storeLastId
  <2>1. UNCHANGED <<ids, rows, vectors>> /\ main \in {"parse", "ids"}
        /\ (stored' = 7 => main' = "flag") /\ (stored' # 7 => main' = "ids")
        /\ stored' = stored + 1 /\ (main = "parse" => stored = 0)
    BY <1>4, OrderOfSaves DEF storeLastId, IngestInv, Control
  <2>2. \A c \in Counter : Saved(c)' => lastIds'[c] = ids[c]
    <3> SUFFICES ASSUME NEW c \in Counter, Saved(c)'
                 PROVE  lastIds'[c] = ids[c]
      OBVIOUS
    <3>1. Saved(c) => lastIds[c] = ids[c]
      BY <2>1 DEF Uniform, Saved
    <3>2. QED
      BY <1>4, <3>1, SavedId DEF IngestInv, TypeOK
  <2>3. main' = "flag" => AllEqual(lastIds')
    <3> SUFFICES ASSUME stored' = 7
                 PROVE  AllEqual(lastIds')
      BY <2>1
    <3>1. \A c \in Counter : Saved(c)'
      BY OrderOfSaves DEF Saved
    <3>2. QED
      BY <2>2, <3>1 DEF Uniform, AllEqual
  <2>4. QED
    BY <2>1, <2>2, <2>3 DEF Uniform, AllEqual
<1>5. ASSUME NEW m \in HashMap, insertKey(m)
      PROVE  Uniform'
  <2>1. UNCHANGED <<ids, rows, lastIds, stored, main>>
    BY <1>5 DEF insertKey
  <2>2. ASSUME NEW d \in Vector, NEW i \in DOMAIN vectors'[d]
        PROVE  AllEqual(vectors'[d][i].ids)
    <3>1. CASE d = m
      <4>1. vectors[m] \in Seq(Row) /\ vectors[m] # <<>> /\ vectors'[m] = Tail(vectors[m])
        BY <1>5, <3>1 DEF insertKey, IngestInv, TypeOK
      <4>2. /\ vectors'[m] \in Seq(Row) /\ Len(vectors'[m]) = Len(vectors[m]) - 1
            /\ \A j \in 1 .. Len(vectors'[m]) : vectors'[m][j] = vectors[m][j + 1]
        BY <4>1, HeadTailProperties
      <4>3. i \in 1 .. Len(vectors'[m]) /\ Len(vectors[m]) \in Nat
            /\ DOMAIN vectors[m] = 1 .. Len(vectors[m])
        BY <3>1, <4>1, <4>2, LenProperties
      <4>4. i + 1 \in DOMAIN vectors[m] /\ vectors'[m][i] = vectors[m][i + 1]
        BY <4>2, <4>3
      <4>5. QED
        BY <3>1, <4>4 DEF Uniform
    <3>2. CASE d # m
      <4>1. vectors'[d] = vectors[d]
        BY <1>5, <3>2 DEF insertKey, IngestInv, TypeOK
      <4>2. QED
        BY <4>1 DEF Uniform
    <3>3. QED
      BY <3>1, <3>2
  <2>3. \A c : Saved(c)' <=> Saved(c)
    BY <2>1, EpochKept
  <2>4. QED
    BY <2>1, <2>2, <2>3 DEF Uniform, AllEqual
<1>6. ASSUME NEW t \in Table, insertData(t)
      PROVE  Uniform'
  <2>1. UNCHANGED <<ids, lastIds, stored, main>>
    BY <1>6 DEF insertData
  <2>2. ASSUME NEW d \in Vector, NEW i \in DOMAIN vectors'[d]
        PROVE  AllEqual(vectors'[d][i].ids)
    <3>1. DOMAIN <<>> = {}
      OBVIOUS
    <3>2. d # t /\ vectors'[d] = vectors[d]
      BY <1>6, <2>2, <3>1 DEF insertData, IngestInv, TypeOK
    <3>3. QED
      BY <3>2 DEF Uniform
  <2>3. ASSUME NEW u \in Table, NEW r \in rows'[u]
        PROVE  AllEqual(r.ids)
    <3>1. CASE r \in rows[u]
      BY <3>1 DEF Uniform
    <3>2. CASE r \notin rows[u]
      <4>1. u = t /\ r \in Range(vectors[t])
        BY <1>6, <3>2 DEF insertData, IngestInv, TypeOK
      <4>2. PICK i \in DOMAIN vectors[t] : r = vectors[t][i]
        BY <4>1 DEF Range
      <4>3. QED
        BY <4>2 DEF Uniform, Vector
    <3>3. QED
      BY <3>1, <3>2
  <2>4. \A c : Saved(c)' <=> Saved(c)
    BY <2>1, EpochKept
  <2>5. QED
    BY <2>1, <2>2, <2>3, <2>4 DEF Uniform, AllEqual
<1>7. ASSUME NEW d \in Vector, SeesEmpty(d) \/ ReadsFlag(d) \/ Leaves(d)
      PROVE  Uniform'
  <2>1. UNCHANGED <<ids, vectors, rows, lastIds, stored, main>>
    BY <1>7 DEF SeesEmpty, ReadsFlag, Leaves, ThreadOnly, disk
  <2>2. QED
    BY <2>1, EpochKept DEF Uniform, AllEqual
<1>8. CASE Crash
  <2>1. main # "ids" /\ main' = "start" /\ UNCHANGED <<rows, lastIds>>
        /\ ids' = [c \in Counter |-> 0] /\ \A d \in Vector : vectors'[d] = <<>>
    BY <1>8 DEF Crash, disk, NoCrashInIds
  <2>2. DOMAIN <<>> = {}
    OBVIOUS
  <2>3. QED
    BY <2>1, <2>2 DEF Uniform, AllEqual
<1>9. CASE Ended \/ UNCHANGED vars
  <2>1. UNCHANGED <<ids, vectors, rows, lastIds, stored, main>>
    BY <1>9 DEF Ended, vars, disk
  <2>2. QED
    BY <2>1, EpochKept DEF Uniform, AllEqual
<1>10. QED
  BY <1>1, <1>2, <1>3, <1>4, <1>5, <1>6, <1>7, <1>8, <1>9 DEF Next, mainFunction, Store

\* Where the height is saved, the counters are in the same epoch, so that the rows of
\* the process lead to one another.
LEMMA IndexedAtTheEnd ==
    ASSUME ConstantsOK, IndexIsKept, IngestInv, Uniform, storeLastSavedBlockHeight
    PROVE  TransactionsAreIndexed'
<1>0. /\ main = "join" /\ main \in Running /\ stopped = Vector
      /\ x = end_block_height + 1
      /\ 1 .. lastBlockHeight' = Block
      /\ UNCHANGED <<hashToId, rows>>
  BY DEF storeLastSavedBlockHeight, Running, IngestInv, Control, Block
<1>1. {"tx", "TX_INDEX", "BLOCK_DATA"} \subseteq Vector \ Racy
  BY DEF IndexIsKept, Vector, Racy
<1>2. \A d \in {"tx", "TX_INDEX", "BLOCK_DATA"} : vectors[d] = <<>>
  BY <1>0, <1>1 DEF IngestInv, Control
<1>3. Epoch("Block") = Epoch("Transaction")
  <2>1. {"Block", "Transaction"} \subseteq Counter
    BY DEF Counter
  <2>2. /\ Epoch("Block") \in Nat /\ Epoch("Transaction") \in Nat
        /\ IdAt(Epoch("Block"), end_block_height + 1) = ids["Block"]
        /\ IdAt(Epoch("Transaction"), end_block_height + 1) = ids["Transaction"]
    BY <1>0, <2>1, EpochIsNat DEF IngestInv, IdsCount
  <2>3. IdAt(Epoch("Block") + 1, 1) = IdAt(Epoch("Transaction") + 1, 1)
    BY <2>1, <2>2, IdAtSums DEF Uniform, AllEqual
  <2>4. 1 \in Block
    BY DEF Block, ConstantsOK
  <2>5. Epoch("Block") + 1 = Epoch("Transaction") + 1
    BY <2>2, <2>3, <2>4, IdAtInjective, Epoch("Block") + 1 \in Nat,
       Epoch("Transaction") + 1 \in Nat
  <2>6. QED
    BY <2>2, <2>5
<1>4. SUFFICES ASSUME NEW b \in Block
               PROVE  \E row \in RowsOf("TX_INDEX", b) :
                         /\ row.ids["Transaction"] = hashToId["tx"][b]
                         /\ \E blockRow \in RowsOf("BLOCK_DATA", b) :
                               blockRow.ids["Block"] = row.ids["Block"]
  <2>1. \A t, b : RowsOf(t, b)' = RowsOf(t, b)
    BY <1>0 DEF RowsOf
  <2>2. QED
    BY <1>0, <2>1 DEF TransactionsAreIndexed
<1>5. \A d \in {"tx", "TX_INDEX", "BLOCK_DATA"} : ~Waits(d, b)
  <2>1. DOMAIN <<>> = {}
    OBVIOUS
  <2>2. QED
    BY <1>2, <2>1 DEF Waits
<1>6. b < x
  BY <1>0 DEF Block, ConstantsOK
<1>7. PairIsStored("tx", b) /\ RowIsStored("TX_INDEX", b) /\ RowIsStored("BLOCK_DATA", b)
  BY <1>0, <1>5, <1>6 DEF IngestInv, Parsed, IndexIsKept
<1>8. /\ IdOf["tx"] = "Transaction" /\ KeyOf["TX_INDEX"] = "Transaction"
      /\ KeyOf["BLOCK_DATA"] = "Block"
  BY DEF IdOf, KeyOf
<1>9. PICK row \in rows["TX_INDEX"] :
          row.block = b /\ row.ids["Transaction"] = IdAt(Epoch("Transaction"), b)
  BY <1>7, <1>8 DEF RowIsStored
<1>10. PICK blockRow \in rows["BLOCK_DATA"] :
          blockRow.block = b /\ blockRow.ids["Block"] = IdAt(Epoch("Block"), b)
  BY <1>7, <1>8 DEF RowIsStored
<1>11. row.ids["Block"] = row.ids["Transaction"]
  BY DEF Uniform, AllEqual, IndexIsKept, Counter
<1>12. hashToId["tx"][b] = IdAt(Epoch("Transaction"), b)
  BY <1>7, <1>8 DEF PairIsStored
<1>13. row \in RowsOf("TX_INDEX", b) /\ blockRow \in RowsOf("BLOCK_DATA", b)
  BY <1>9, <1>10 DEF RowsOf
<1>14. blockRow.ids["Block"] = row.ids["Block"]
  BY <1>3, <1>9, <1>10, <1>11
<1>15. QED
  BY <1>9, <1>12, <1>13, <1>14

LEMMA IndexedStep ==
    ASSUME ConstantsOK, IndexIsKept, IngestInv, Uniform, TransactionsAreIndexed, [Next]_vars
    PROVE  TransactionsAreIndexed'
<1>1. CASE storeLastSavedBlockHeight
  BY <1>1, IndexedAtTheEnd
<1>2. CASE UNCHANGED <<lastBlockHeight, hashToId, rows>>
  BY <1>2 DEF TransactionsAreIndexed, RowsOf
<1>3. CASE main \in Running \cup {"load"} /\ UNCHANGED lastBlockHeight
  <2>1. lastBlockHeight' = 0
    BY <1>3 DEF IngestInv, Control, Running
  <2>2. 1 .. lastBlockHeight' = {}
    BY <2>1
  <2>3. QED
    BY <2>2 DEF TransactionsAreIndexed
<1>4. \A m \in HashMap : insertKey(m) =>
          main \in Running \cup {"load"} /\ UNCHANGED lastBlockHeight
  BY DEF insertKey, Looping, IngestInv, TypeOK, Running
<1>5. \A t \in Table : insertData(t) =>
          main \in Running \cup {"load"} /\ UNCHANGED lastBlockHeight
  BY DEF insertData, Looping, IngestInv, TypeOK, Running
<1>6. Start \/ getLastIdList \/ xmrProcessor \/ storeLastId \/ SetAllBlockDone \/ Crash =>
          UNCHANGED <<lastBlockHeight, hashToId, rows>>
  BY DEF Start, getLastIdList, xmrProcessor, storeLastId, SetAllBlockDone, Crash, disk
<1>7. \A d \in Vector : SeesEmpty(d) \/ ReadsFlag(d) \/ Leaves(d) =>
          UNCHANGED <<lastBlockHeight, hashToId, rows>>
  BY DEF SeesEmpty, ReadsFlag, Leaves, ThreadOnly, disk
<1>8. Ended \/ UNCHANGED vars => UNCHANGED <<lastBlockHeight, hashToId, rows>>
  BY DEF Ended, vars, disk
<1>9. QED
  BY <1>1, <1>2, <1>3, <1>4, <1>5, <1>6, <1>7, <1>8 DEF Next, mainFunction, Store

\* What a saved height promises, for every height, batch size and choice of maps and tables
\* among which are those of transactions and blocks, and however often processes died, but
\* for a death among the seven Puts of storeLastIdList: everything that was parsed is
\* stored, and the id of a transaction hash leads to its row and on to the row of its block
\* (main.cpp:184-196, parser.h:237-298).
THEOREM SavedHeightIsKept ==
    ASSUME NoCrashInIds, IndexIsKept
    PROVE  Spec => []HeightInv
<1>1. Init => IndexInv
  <2> SUFFICES ASSUME Init PROVE IndexInv
    OBVIOUS
  <2>1. Uniform
    <3>1. DOMAIN <<>> = {}
      OBVIOUS
    <3>2. QED
      BY <3>1 DEF Init, Uniform, AllEqual
  <2>2. 1 .. lastBlockHeight = {}
    BY DEF Init
  <2>3. TransactionsAreIndexed
    BY <2>2 DEF TransactionsAreIndexed
  <2>4. QED
    BY <2>1, <2>3, IngestInvInit DEF IndexInv
<1>2. IndexInv /\ [Next]_vars => IndexInv'
  BY ConstantsOK, IngestInvStep, UniformStep, IndexedStep DEF IndexInv
<1>3. IndexInv => HeightInv
  BY DEF IndexInv, IngestInv, HeightInv
<1>4. QED
  BY <1>1, <1>2, <1>3, PTL DEF Spec

=============================================================================
