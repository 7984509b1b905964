------------------------------- MODULE Ingest -------------------------------
(***************************************************************************)
(* The life of the parser over several processes: main() reads the saved   *)
(* block height, mainFunction parses the blocks from there with ids that   *)
(* continue the saved last ids, the storing threads write hash -> id pairs *)
(* to RocksDB and rows to SQLite, mainFunction saves the seven last ids    *)
(* one Put after the other, and main() saves the height after the joins.   *)
(* The process may die between any two of these steps; what it held in     *)
(* memory is gone, and the next process starts from what is on disk.       *)
(*                                                                         *)
(* A block stands for one entity of every kind (itself, a transaction, an  *)
(* output with its stealth address, a key image, an input with its ring    *)
(* member): every counter advances by one per block, and block b is known  *)
(* by b in every hash map.  How the vectors between the threads behave is  *)
(* the business of StoreThreads: here a storing thread stores what it has  *)
(* taken in one step, because what it has taken and what is still in the   *)
(* vector are lost alike when the process dies; and the exit test of the   *)
(* block, transaction and key image threads is one step, because           *)
(* StoreThreads shows that it lets no row behind.  The exit tests of the   *)
(* other threads do, and are two steps.  The ring member hash map, which   *)
(* the parsing thread reads, is the business of RingMembers.               *)
(***************************************************************************)
EXTENDS Naturals, Sequences, FiniteSets, Functions

CONSTANTS
    end_block_height,  \* the last block to parse
    HashMap,           \* the RocksDB hash -> id stores that a run keeps
    Table,             \* the SQLite tables that a run keeps
    Batch,             \* rows that make a batch before the run ends
    CrashAt,           \* where in main() or mainFunction the process may die
    MaxCrashes         \* bound: how often it dies

Counter == {"Block", "Transaction", "StealthAddress", "Output", "KeyImage",
            "RingMember", "Input"}

\* The vectors whose thread reads empty() before isAllBlockDone.
Racy == {"stealth", "SA_DATA", "SA_INDEX", "RM_DATA", "RM_INDEX"}

\* The counter that gives the ids of a hash map, and the DATA_ID (ID) of a table.
IdOf == [blocks |-> "Block", tx |-> "Transaction", stealth |-> "StealthAddress",
         keyImages |-> "KeyImage"]
KeyOf == [BLOCK_DATA |-> "Block", BLOCK_INDEX |-> "Block",
          TX_DATA |-> "Transaction", TX_INDEX |-> "Transaction",
          SA_DATA |-> "Output", SA_INDEX |-> "Output", KI_DATA |-> "KeyImage",
          RM_DATA |-> "Input", RM_INDEX |-> "Input"]

\* The order of the calls in storeLastIdList.
StoreOrder == <<"Block", "Transaction", "StealthAddress", "Output", "KeyImage",
                "RingMember", "Input">>

ASSUME ConstantsOK ==
    /\ end_block_height \in Nat \ {0, 1}
    /\ HashMap \subseteq DOMAIN IdOf
    /\ Table \subseteq DOMAIN KeyOf
    /\ Batch \in Nat \ {0}
    /\ MaxCrashes \in Nat

VARIABLES
    lastBlockHeight,   \* on disk: the saved block height, 0 for "null"
    lastIds,           \* on disk: the saved ids, 0 for "null"
    hashToId,          \* on disk: hashToId[m][b], the id of the hash of b; 0 for none
    rows,              \* on disk: the rows of each table
    ids,               \* the counters of the process
    sawEmpty,          \* the vectors that an exit test found empty just now
    stopped,           \* the vectors whose thread has left its loop
    x,                 \* the block that is parsed next
    stored,            \* the ids of storeLastIdList that have been saved
    vectors,           \* what waits for the storing threads
    isAllBlockDone,
    main,              \* what mainFunction, then main(), does next
    crashes

disk    == <<lastBlockHeight, lastIds, hashToId, rows>>
thread  == <<sawEmpty, stopped>>
vars    == <<disk, ids, x, stored, vectors, thread, isAllBlockDone, main, crashes>>

Block  == 1 .. end_block_height
Vector == HashMap \cup Table

Init ==
    /\ lastBlockHeight = 0
    /\ lastIds = [c \in Counter |-> 0]
    /\ hashToId = [m \in HashMap |-> [b \in Block |-> 0]]
    /\ rows = [t \in Table |-> {}]
    /\ ids = [c \in Counter |-> 0]
    /\ x = 0
    /\ stored = 0
    /\ vectors = [d \in Vector |-> <<>>]
    /\ sawEmpty = {}
    /\ stopped = {}
    /\ isAllBlockDone = FALSE
    /\ main = "start"
    /\ crashes = 0

-----------------------------------------------------------------------------
(* main() and mainFunction.                                                *)

\* The range of blocks; a range that is empty, or that has one block, ends main().
Start ==
    /\ main = "start"
    /\ x' = lastBlockHeight + 1
    /\ main' = IF lastBlockHeight + 1 >= end_block_height THEN "done" ELSE "load"
    /\ UNCHANGED <<thread, disk, ids, stored, vectors, isAllBlockDone, crashes>>

\* "null" becomes 1
getLastIdList ==
    /\ main = "load"
    /\ ids' = [c \in Counter |-> IF lastIds[c] = 0 THEN 1 ELSE lastIds[c]]
    /\ main' = "parse"
    /\ UNCHANGED <<thread, disk, x, stored, vectors, isAllBlockDone, crashes>>

\* A row also says which process pushed it, so that the same row of two processes counts
\* as two.
xmrProcessor ==
    /\ main = "parse" /\ x <= end_block_height
    /\ vectors' = [d \in Vector |->
                      Append(vectors[d], [block |-> x, ids |-> ids, process |-> crashes])]
    /\ ids' = [c \in Counter |-> ids[c] + 1]
    /\ x' = x + 1
    /\ UNCHANGED <<thread, disk, stored, isAllBlockDone, main, crashes>>

\* Seeded fault: the last id in use is saved, not the next one.
storeLastIdInUse ==
    /\ main \in {"parse", "ids"} /\ x > end_block_height
    /\ stored < Len(StoreOrder)
    /\ LET c == StoreOrder[stored + 1] IN
          lastIds' = [lastIds EXCEPT ![c] = ids[c] - 1]
    /\ stored' = stored + 1
    /\ main' = IF stored' = Len(StoreOrder) THEN "flag" ELSE "ids"
    /\ UNCHANGED <<thread, lastBlockHeight, hashToId, rows, ids, x, vectors,
                   isAllBlockDone, crashes>>

\* One of the seven Puts, in their order.
storeLastId ==
    /\ main \in {"parse", "ids"} /\ x > end_block_height
    /\ stored < Len(StoreOrder)
    /\ LET c == StoreOrder[stored + 1] IN
          lastIds' = [lastIds EXCEPT ![c] = ids[c]]
    /\ stored' = stored + 1
    /\ main' = IF stored' = Len(StoreOrder) THEN "flag" ELSE "ids"
    /\ UNCHANGED <<thread, lastBlockHeight, hashToId, rows, ids, x, vectors,
                   isAllBlockDone, crashes>>

SetAllBlockDone ==
    /\ main = "flag"
    /\ isAllBlockDone' = TRUE
    /\ main' = "join"
    /\ UNCHANGED <<thread, disk, ids, x, stored, vectors, crashes>>

\* Seeded fault: the height is saved without waiting for the storing threads.
HeightBeforeJoin ==
    /\ main = "join"
    /\ lastBlockHeight' = end_block_height
    /\ main' = "done"
    /\ UNCHANGED <<thread, lastIds, hashToId, rows, ids, x, stored, vectors,
                   isAllBlockDone, crashes>>

\* The joins return; then storeLastSavedBlockHeight(end_block_height).
storeLastSavedBlockHeight ==
    /\ main = "join"
    /\ stopped = Vector
    /\ lastBlockHeight' = end_block_height
    /\ main' = "done"
    /\ UNCHANGED <<thread, lastIds, hashToId, rows, ids, x, stored, vectors,
                   isAllBlockDone, crashes>>

-----------------------------------------------------------------------------
(* The storing threads.                                                    *)

\* main() has started the thread of d, and it is not within its exit test.
Looping(d) == main \notin {"start", "done"} /\ d \notin sawEmpty \cup stopped

\* mapCon.insertKey(hash, id): the pair replaces an older one.
insertKey(m) ==
    /\ Looping(m) /\ vectors[m] # <<>>
    /\ LET row == Head(vectors[m]) IN
          hashToId' = [hashToId EXCEPT ![m][row.block] = row.ids[IdOf[m]]]
    /\ vectors' = [vectors EXCEPT ![m] = Tail(@)]
    /\ UNCHANGED <<thread, lastBlockHeight, lastIds, rows, ids, x, stored,
                   isAllBlockDone, main, crashes>>

\* Seeded fault: a table without a PRIMARY KEY keeps every row.
KeptAlways(t, row) == TRUE

\* INSERT is rejected, and the next row tried, when the PRIMARY KEY exists.
Kept(t, row) ==
    \A r \in rows[t] : r.ids[KeyOf[t]] # row.ids[KeyOf[t]]

\* One transaction; the keys within one batch differ.
insertData(t) ==
    /\ Looping(t) /\ vectors[t] # <<>>
    /\ Len(vectors[t]) >= Batch \/ isAllBlockDone
    /\ rows' = [rows EXCEPT ![t] = @ \cup {row \in Range(vectors[t]) : Kept(t, row)}]
    /\ vectors' = [vectors EXCEPT ![t] = <<>>]
    /\ UNCHANGED <<thread, lastBlockHeight, lastIds, hashToId, ids, x, stored,
                   isAllBlockDone, main, crashes>>

ThreadOnly == UNCHANGED <<disk, ids, x, stored, vectors, isAllBlockDone, main, crashes>>

\* `empty() && isAllBlockDone', one operand after the other.
SeesEmpty(d) ==
    /\ d \in Racy /\ Looping(d) /\ vectors[d] = <<>>
    /\ sawEmpty' = sawEmpty \cup {d}
    /\ UNCHANGED stopped
    /\ ThreadOnly
ReadsFlag(d) ==
    /\ d \in sawEmpty
    /\ sawEmpty' = sawEmpty \ {d}
    /\ stopped' = IF isAllBlockDone THEN stopped \cup {d} ELSE stopped
    /\ ThreadOnly

\* Seeded fault: the exit test holds and the loop goes on.
LeavesNever(d) ==
    /\ d \notin Racy /\ Looping(d) /\ isAllBlockDone /\ vectors[d] = <<>>
    /\ UNCHANGED thread
    /\ ThreadOnly

\* The exit test of the block, transaction and key image threads.
Leaves(d) ==
    /\ d \notin Racy /\ Looping(d) /\ isAllBlockDone /\ vectors[d] = <<>>
    /\ stopped' = stopped \cup {d}
    /\ UNCHANGED sawEmpty
    /\ ThreadOnly

-----------------------------------------------------------------------------
\* The process dies, or has ended, and is started again.
Crash ==
    /\ main \in CrashAt /\ crashes < MaxCrashes
    /\ crashes' = crashes + 1
    /\ ids' = [c \in Counter |-> 0]
    /\ x' = 0
    /\ stored' = 0
    /\ vectors' = [d \in Vector |-> <<>>]
    /\ sawEmpty' = {}
    /\ stopped' = {}
    /\ isAllBlockDone' = FALSE
    /\ main' = "start"
    /\ UNCHANGED disk

Ended == main = "done" /\ UNCHANGED vars

mainFunction ==
    \/ Start \/ getLastIdList \/ xmrProcessor \/ storeLastId \/ SetAllBlockDone
    \/ storeLastSavedBlockHeight

Store(d) ==
    \/ d \in HashMap /\ insertKey(d)
    \/ d \in Table /\ insertData(d)
    \/ SeesEmpty(d) \/ ReadsFlag(d) \/ Leaves(d)

Next == mainFunction \/ (\E d \in Vector : Store(d)) \/ Crash \/ Ended

Spec == Init /\ [][Next]_vars

\* Threads of their own; the process need not die.
FairSpec ==
    /\ Spec
    /\ WF_vars(mainFunction)
    /\ \A d \in Vector : WF_vars(Store(d))
-----------------------------------------------------------------------------
Row == [block : Block, ids : [Counter -> Nat], process : 0 .. MaxCrashes]

TypeOK ==
    /\ lastBlockHeight \in {0, end_block_height}
    /\ lastIds \in [Counter -> Nat]
    /\ hashToId \in [HashMap -> [Block -> Nat]]
    /\ rows \in [Table -> SUBSET Row]
    /\ ids \in [Counter -> Nat]
    /\ x \in 0 .. end_block_height + 1
    /\ stored \in 0 .. Len(StoreOrder)
    /\ vectors \in [Vector -> Seq(Row)]
    /\ sawEmpty \subseteq Racy /\ stopped \subseteq Vector
    /\ isAllBlockDone \in BOOLEAN
    /\ main \in {"start", "load", "parse", "ids", "flag", "join", "done"}
    /\ crashes \in 0 .. MaxCrashes

RowsOf(t, b) == {row \in rows[t] : row.block = b}

\* The saved height promises the blocks up to it: each has an id in the hash
\* maps and a row in the tables of the block, transaction and key image threads,
\* whenever processes died before (main.cpp:184-196).
HeightMeansStored ==
    \A b \in 1 .. lastBlockHeight :
        /\ \A m \in HashMap \ Racy : hashToId[m][b] # 0
        /\ \A t \in Table \ Racy : RowsOf(t, b) # {}

\* Parsing the same blocks again with the same ids adds no row, because the
\* PRIMARY KEYs reject what is there: a table has at most one row of a block for
\* each time that the ids were saved (and so moved on by end_block_height).
OneRowPerIdRange ==
    \A b \in 1 .. lastBlockHeight, t \in Table :
        Cardinality(RowsOf(t, b)) <= (lastIds[KeyOf[t]] - 1) \div end_block_height

\* The transactions can be found once the height is saved: the id that the hash
\* map gives leads to an index row of the same block, and its BLOCK_ID to a row of
\* that block, also after processes that died before or after, but not within,
\* storeLastIdList.
TransactionsAreIndexed ==
    \A b \in 1 .. lastBlockHeight : \E row \in RowsOf("TX_INDEX", b) :
        /\ row.ids["Transaction"] = hashToId["tx"][b]
        /\ \E blockRow \in RowsOf("BLOCK_DATA", b) : blockRow.ids["Block"] = row.ids["Block"]

\* What the saved height promises, with the types of the state.
HeightInv == TypeOK /\ HeightMeansStored /\ TransactionsAreIndexed

\* "First store hash-id mapping of SA ... Third store indexes of SA" (parser.h:
\* 349-351): an index row is stored under the id that the hash map gives.
IndexesOfSAStored ==
    \A b \in 1 .. lastBlockHeight :
        RowsOf("SA_INDEX", b) # {} /\ hashToId["stealth"][b] # 0 =>
            \E row \in RowsOf("SA_INDEX", b) :
                row.ids["StealthAddress"] = hashToId["stealth"][b]

\* No id stands for two hashes, in whatever process either of them got it: a
\* process goes on from ids that are free (parser.h:237-298).
NoSharedIds ==
    \A m \in HashMap : \A a, b \in Block :
        hashToId[m][a] = hashToId[m][b] /\ hashToId[m][a] # 0 => a = b

\* When the process stops dying, the blocks get parsed and the height saved.
RunEnds == <>(main = "done")
=============================================================================
