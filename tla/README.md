# MoneroSci-parser in TLA+

MoneroSci-parser reads the Monero blockchain block by block, gives every block,
transaction, stealth address, key image and ring member a small integer id, and
writes hash -> id pairs to RocksDB and rows to SQLite.  One thread parses; nine
threads store.  There are no tests, and the documentation is comments and log
lines.  This directory models the parts where the order of steps, a limit or a
conversion decides whether data is right: the pipeline between the threads in its
three variants, the rows and the ids that join the tables, the ids of ring members and
their filter, the database batches, the life of the program over several processes,
and the readers of the node: the parser's requests, the pages, and the two status
threads.

Paths below are relative to `src/` of the repository; line numbers are those of
the modelled commit.

## The system

| Part | State | Operations | Works with |
| --- | --- | --- | --- |
| Parsing thread (`src/parser.h` `mainFunction`, `xmrProcessor`) | seven id counters, block number | push rows onto 13 shared vectors and one map, save the last ids, set `isAllBlockDone` | storing threads (vectors, mutexes, flag), RocksDB |
| Block, transaction, key image threads (`parser.h:492-769`) | local vectors | pop a hash, take a batch, insert, exit test over several vectors | their vectors, RocksDB, SQLite |
| Stealth address and ring member threads (`parser.h:771-1056`) | local vector | the same over one vector each | their vector, RocksDB or SQLite |
| Ring member ids (`parser.h:412-465`, `1057-1078`) | Bloom filter, map `rmHashIdVector`, store `ringMemberHashMap` | look up, give an id, move a pair to the store, close the store | parsing thread and one storing thread |
| Lifecycle (`main.cpp:140-200`) | saved height, saved ids | read them, run, join ten threads, save the height | everything above |
| Variant with many producers (`src/parser-7thread.h`, `main-7thread.cpp`) | ranges, the same vectors, the filter and the map | producers over ranges, one consumer | not in the build of `CMakeLists.txt` |
| Pools (`src/multithreads.h`) | the same vectors | nine single threads and four pools of ten, each with its database file | not in the build |
| Bloom filter (`src/bloomFilter.cpp`, `hashFn.cpp`) | bit buffer, hashes of the last window | `add`, `exists`, `substringExists` | ring member ids |
| SQLite and RocksDB wrappers (`src/indexmapper.h`, `idhashmapper.h`) | connections, an open transaction | batch insert, put, get, close | storing threads |
| Requests of the node (`page.h` `json_block`, `json_detailedtransaction`; `MicroCore.cpp`) | none between two calls | reads of the node's database, which the node goes on writing | parsing thread |
| Search for outputs (`page.h` `json_outputsblocks`, `find_our_outputs`) | none between two calls | look through a copy of the pool, then through the last blocks | compiled in, not called |
| Pages of blocks (`page.h` `index2`, `json_transactions`) | a cache of rows for 200 blocks | render a page from the cache or the node | compiled in, not called |
| Blockchain status thread (`CurrentBlockchainStatus.cpp`) | total emission, checkpoint file | scan a chunk, save, sleep; answer | compiled in, not started by `main.cpp` |
| Mempool status thread (`MempoolStatus.cpp`, `rpccalls.cpp`) | list of transactions, network info | poll the node, publish, sleep | compiled in, not started by `main.cpp` |
| Tools, options, other pages | | | an explorer the parser was grown from |

What is hard here: empty tests without a lock, exit tests that read a vector
before the flag, a store that is closed while it is written to, an undefined read
past the end of a map, a process that dies between two of the seven id writes, a
filter that does not survive the process, results of SQLite that nobody looks at, a
chain that changes between two reads of it, unsigned differences, and a cache of what
the chain once was.  What makes the system correct:
no row is lost or stored twice, a stopped thread has stored everything, an id
stands for one hash, the saved height tells the truth, and the program ends.
`PROJECT.json` lists each hazard at its line with the properties aimed at it.

Some properties are conjunctions of named parts (`IdsInv`, `HeightInv`, `PoolKeepsRows`,
`RowsJoin`, `PairsKeepTheirKeys`, `LookupsExplained`, `BlocksShared`, `SearchIsRight`, `CountedBlocksStand`, `InfoIsWhatItSeems`, `ExitIsSafe`): each
part has its own comment beside it.

## The modules

**RowLog** is the promise of the pipeline with no threads in it: rows are logged
in order for each kind, and what has been stored is a prefix of the log.

**StoreThreads** is the pipeline.  A row is its ordinal in its vector.  A critical
section is one step; the unlocked `empty()` and flag reads are one step each, so
that everything that can happen between two operands of an exit test happens.
`Push` is a `push_back` under its mutex; `PeekHash` and `PopHash` are the test
without and the removal with the lock; `TakeBatch` copies and erases under the lock;
`Insert` is the call of the database wrapper; `ReadExit` reads one operand of the
exit test.  Vectors, threads, visiting order and exit tests are constants.

**ParserTopology** gives those constants the values of the code: the order of the
pushes of `xmrProcessor` and one loop for each storing thread.  **MCStoreThreads**
selects threads for a run.  `PushOrder` projects the order of pushes onto the
vectors of the threads at hand: a push onto another vector is a step that these
threads cannot see, and their vectors are disjoint (assumption `OneOwner`).

**RingMembers** is the lookup of `parser.h:412-450` against the hash thread.  A key
is a number (its order in the `std::map`), the filter is a set of bits, and
`Bits[k]` says which bits a key sets, so that false positives are a choice of the
run (`Covered`) or excluded (`Apart`).  `find()` of a missing key gives any member
of `PastEnd`.  A Put on a closed store loses its pair.  The process may die and
start again with an empty filter and map.  `AtMixin` walks through the mixins; the
row of the index table records where its id came from.

**IdPromise** is what both ways of giving ids promise, the counter here and the composed
ids of SharedFilter below, without filter, map or thread: an id that is given names one
key, and its pair waits until the store has it, unless a later pair of the key takes its
place or the store is closed.  Both modules implement it.  Lookups are no steps of it: what
they may get wrong is what the other properties of the two modules are about.

**Ingest** is the life of the program.  A block stands for one entity of each kind,
because the seven counters matter one by one and not how many entities a block
has.  `Start`, `getLastIdList`, `xmrProcessor`, `storeLastId` (one of the seven
Puts), `SetAllBlockDone` and `storeLastSavedBlockHeight` are the steps of the main
threads; `insertKey` overwrites a pair, `insertData` keeps the rows whose PRIMARY
KEY is new (a table is a set of rows, each with the number of the process that made it);
`Crash` loses what is in memory.  The threads that StoreThreads shows
to lose nothing leave their loop in one step; the exit test of the others
(`Racy`) is two steps, as it is in the code.

**ProducerRanges** is `getProducerRangers` with the producers that run over the
ranges and the joins before the flag.

**TableRows** is what a block turns into: the loops of `xmrProcessor` over
transactions, outputs, inputs and ring members, one action for each group of pushes,
the seven counters, and the insert functions as operators from a pushed row to the
columns it is bound to.  Detail rows carry their place in the chain (`of`), so that the
properties can say that joining the tables by their integers gives what belongs
together.  How many outputs, inputs and mixins there are is a choice of the node.

**StorePool** is the pipeline of `multithreads.h`.  Unlike in StoreThreads a vector can
have many owners.  `Look` and `EraseFirst` are the thread that looks before it locks,
`Take` is the critical section of a pool's thread, `TestEmpty` and `TestDone` the two
reads of the exit test.  **PoolTopology** says which function has which vector and how
many copies.

**SharedFilter** is ring member ids in `parser-7thread.h`: `exists` bit by bit,
`setBit` as `LoadByte` and `StoreByte`, `Count` under the lock and `Find` without it,
the consumer that moves pairs to the store.  `find()` of a missing key ends the
process or gives a text that is no id.

**RollingHash** is `HashFn` with words of `Width` bits, signed and unsigned characters
and both ways of `customPow`, and `substringExists` window by window.  The loop of
`customPow` is a recursive function (`Squaring`), not a RECURSIVE operator, so that it can be
proved about.

**SqliteBatches** is an insert function of `indexmapper.h` statement by statement, for
a thread that stores batch after batch: `Prepare`, `StepRow` and `CommitTransaction` may
fail, `Die` may happen anywhere.  What SQLite does then is taken from its interface.
**BatchPromise** is what the thread relies on: a batch is kept whole or not at all, and
SqliteBatches implements it with the two exceptions it names.

**EmissionMonitor** is `CurrentBlockchainStatus`: the thread from `Wake` to `Sleep` with
`chunkEnd`, the checkpoint file as absent, empty, short, cut or whole, and a request in
its three reads.  A sum is the sequence of blocks it was made of, so that a block
counted twice, left out, or replaced by another makes a difference.

**MempoolMonitor** is `MempoolStatus` and what a page makes of it.  Time passes in
units of the refresh time, when the thread sleeps or the node is slow.

**BlockPages** is `index2` and `json_transactions` with a reader who turns their pages.
`GetBlock`, `GetHash` and the rows are three reads of the chain.  `Put` is the cache's,
with the list of its policy.

**NodeRequests** is the chain of calls behind one `xmrProcessor`: height, block, hash,
transactions, then for each transaction its inputs and ring members.  `Throws` is the
`at()` of a field that an error answer lacks.

**OutputSearch** is `json_outputsblocks`: the copy of the pool, the height, and each of
the last blocks with its transactions are separate reads.  A transaction has one output
of the address, or one that `decode_ringct` cannot read.  The pool's copy is made by
`FetchPool` and `PublishPool`, the two ends of `read_mempool`, which MempoolMonitor has in
full; what the node does to transactions between pool and chain is external.

The last five have the node as an action: it adds blocks, and a reorganisation removes
the top ones, so that other blocks take their heights.  They are external, like the
process that dies.

**MCParts** and **MCExplorer** put modules that share no state into one run: the first
state says which of them moves, and the others stay in their first states.  A property
speaks of one module.

The theorems are in **StoreThreadsProofs** (StoreThreads),
**ProducerRangesProofs**, **StorePoolProofs**, **RingMembersProofs**, **IngestProofs**,
**StoragePartsProofs** (SqliteBatches, SharedFilter and TableRows), **RollingHashProofs** and
**NodeReadersProofs**
(EmissionMonitor, MempoolMonitor, BlockPages, NodeRequests and OutputSearch).

## The runs

| Run | Shows | Bounds |
| --- | --- | --- |
| `MainThreads` | the pipeline with the block, transaction and key image threads: types, conservation, safe pops, nothing left behind, what the exit tests have read stays good (see the proofs), implements RowLog, the threads stop | 3 rows per vector, batch of 2: a full batch, a short last batch and a row between two reads all occur.  The threads share no vector, so that a behaviour has the pushes of one thread's vectors and the others find theirs empty |
| `ConsumerThread` | `ExitIsSafe`: the single consumer with two producers leaves nothing behind, and what its test has read stays good | 2 rows per vector; the vectors of each kind that differ in position in the exit test are kept, the others behave like a kept neighbour |
| `RingMembers` | `IdsInv`: ids reach the store or are on their way; every miss of the database is explained (a false positive, or the key that the thread holds between `parser.h:1066` and 1069, where the comment "value is in the database" at 432 is wrong); within one process a key draws an id from the counter at most once; implements IdPromise; the run ends | 3 keys of which 1 and 3 cover the bits of 2, 3 mixins, one crash |
| `IngestRestart` | `HeightInv`: the saved height means stored and linked blocks and transactions; ids are not shared, replay adds no row under the same ids, the run ends | 2 blocks, 2 crashes while parsing, before or after the flag, or a start after the end; three tables, one of a thread with the two-step exit test |
| `StorageParts` | six parts, below | |
| `NodeReaders` | five parts, below | |

`StorageParts` (module MCParts):

| Part | Shows | Bounds |
| --- | --- | --- |
| ProducerRanges | the ranges partition the blocks and each is parsed once | up to 5 producers and 8 blocks: fewer, as many and more blocks than producers |
| StorePool | `PoolKeepsRows`: a row taken is in one thread's hands, once, files are in order, a seen row is there; `PoolFinishes`: once parsing is over one thread that is not in the middle of its exit test is enough to empty the vector and for all to stop | one vector with a single thread, one with two threads of its pool, 3 rows each.  `PoolFinishes` speaks of any one thread, so that two show what ten rely on |
| SharedFilter | a key gets a second id only when two producers overlap on it or a late store clears a bit; an id is never another key's; a pair looked for in the wrong place is on its way to the store; implements IdPromise | two producers with 2 and 1 mixins over 2 keys with bits in one byte, of which one covers the other: the least with a lost bit |
| SqliteBatches | KeepsThePromise, and rows that are missing without a trace are the last ones | 3 batches of 2 rows, 2 faults, death anywhere: a fault in one batch, the next within its transaction, and one after it |
| RollingHash | `SearchIsRight`: the rolled hash is the full one and a no is a no, for characters below 128 | words of 14 bits, a table of 2 powers, the first two primes the filter uses, texts of length 2 and 5, windows of 3: overflow, a power from the table and one by squaring, and a text shorter than the window all occur |
| TableRows | `RowsJoin`: joining the tables gives each output and ring member its own block, transaction and input; counts are numbers of rows; hashes lead to rows, those of a repeated output key to the newest | 2 blocks of up to 2 transactions, 3 outputs and 2 ring members in all, 2 inputs per transaction, 2 keys: repeated keys, empty rings, and neighbours on each level |

`NodeReaders` (module MCExplorer):

| Part | Shows | Bounds |
| --- | --- | --- |
| EmissionMonitor | what is counted or saved is the chain's, unless a full chunk ended among the top blocks; only removed blocks are missed; a checkpoint never goes back, over deaths; the thread catches up | chunks of 4, gap of 2, chain up to 6 from height 1, one reorganisation of up to 2 blocks, one death: a chain shorter than the gap, a cut and a full chunk |
| MempoolMonitor | the list shown is one whole pool; the number fits it except while both are published; `InfoIsWhatItSeems`: info marked as current is at most a minute of turns old, and only a page of more than a minute doubts fresher info; the info heals | pools with no, two good, and one bad transaction; 2 turns a minute; delays of 1 a turn, pages of up to 3 units |
| BlockPages | rows of the last blocks stood in the chain while the page was made; a block has its own hash; a reader who turns all pages has seen every block | pages of 2, cache of 3, chain of 3 to 5 with one reorganisation of up to 2: the cache is full and a cached block is replaced |
| NodeRequests | the program ends early only over a removed block or past the chain; a row of a mixed block is the last; only orphans lose inputs | heights 2 to 3, rings one block below, chain of 3 to 5, one reorganisation of up to 3 |
| OutputSearch | `SearchMissesNothing`: a transaction that the node had when it was asked for the pool, and still has in its pool or its last blocks at the end of the search, is found, unless blocks were removed; `SearchIsExplained`: the same output is listed twice only as waiting and mined, and a block cannot be read only on a chain shorter than the search | one transaction, readable or not, the last 2 blocks of a chain of 1 to 4, one reorganisation of up to 2: it can wait, be mined before, between and after the reads, expire, and come back |

A batch is 1000 rows in the code.  What matters is only whether a vector has
reached it; the proofs hold for every batch size.

Six runs are expected to find a violation.  Each takes the claim of a comment or
log line as its property; `PROJECT.json` quotes the line.

| Run | What happens |
| --- | --- |
| `SaThreadsExit` | `empty()` of the vector is read as true, the parser pushes the last rows and sets the flag, the flag is read as true: the thread leaves (`parser.h:854`, and 789 in the else branch of the hash thread; 920, 985 and 1050 have the same form) |
| `RingMemberInMemory` | `find()` of a key that has been moved to the store is dereferenced (`parser.h:425`) |
| `RingMemberStored` | the store is closed before the flag is set (`parser.h:1209-1213`) |
| `RingMemberDuplicates` | a second process knows no ring member of the first one (`parser.h:58`) |
| `IngestCrashInIds` | a process dies between the Put of the stealth address id and that of the output id (`parser.h:293-294`) |
| `PageCacheDitched` | a page finds cached rows of a block that has been replaced; the `break` at `page.h:713`, 723 or 729 leaves the loop before the statement that clears the cache (741): the block is shown empty, the rows stay, and are shown unchecked once the block is `CRYPTONOTE_DEFAULT_TX_SPENDABLE_AGE` deep |

The block, transaction and key image threads and the consumer are the interesting
contrast: their exit tests also read vectors before the flag, or read the flag
first, and nothing is lost, for two different reasons that the mutants
`TxFlagLast` and `ConsumerFlagLast` take away.  `ExitTestsCovered` in
StoreThreads says what the two have in common, and the proof below that it is
enough; the threads of `SaThreadsExit` do not meet it.

Operators introduced by "Seeded fault" are not part of any specification: each is
a definition of the model changed by a plausible slip, and the property named in
`PROJECT.json` fails when it takes the place of the original.

### Fairness

Weak fairness of each thread (`Step(t)`, `Produce(p)`, the steps of `mainFunction`,
`Store(d)`, `runRMIdHashMappingThread`): each is an operating system thread that is
runnable all the time, spins instead of waiting, and holds a mutex only for a few
statements.  Crashes are never fair: they need not happen and are bounded.
The liveness claims are that all threads leave their loops and the program ends.

In MCParts each thread of a pool is fair, for the same reason (`PoolThread`); the other
parts are only checked for safety.  In MCExplorer the emission thread, the mempool
thread and the loading of info are fair: they wait for nothing
but the node, whose calls have a time limit (`rpccalls.h`, `timeout_time_ms`).  The node,
its failures, requests, readers and deaths are not.  `InfoHeals` supposes that the node
answers for good, and `ThreadCatchesUp` leaves out a thread that has died, was refused
or ran away.

In NodeReaders deadlock is not checked: the emission thread is not started with a
damaged checkpoint, and the parser ends.

### Data races

The build sets no optimisation (`CMakeLists.txt`), so that the plain flag and the
unlocked `empty()` are loads that are done each time, in program order; that is
what is modelled.  `empty()` compares two pointers that a locked writer may change
between the two loads.  For a vector that only grows between the owner's removals
an inconsistent pair can only come out as one of the answers before or after the
push, except when the buffer moves, when it comes out as not empty, and a row is
there.  With an optimising compiler the races are undefined behaviour and none of
these results applies.

## What is proved

For every choice of vectors, threads, exit tests, order of pushes, number of rows
and batch size that satisfies `ConstantsOK` and `OneOwner`:

* `TypeCorrect`: the types.
* `PopsAreSafe`: a thread that has seen a row takes a row.  The argument is that the
  owner is the only one who removes: a step of another thread leaves the vector
  alone (`OneOwner`) and a push only lengthens it.
* `RowsAreConserved`: inserted, held and waiting rows, in this order, are the rows
  pushed.  It is inductive given the types, `PopsARow`, and that a thread holds rows
  of a vector only when its next step is to insert them (`HeldOnlyAtInsert`):
  without the last, a second take would overwrite rows that were not inserted.
* `PipelineImplementsLog`: RowLog with the stored rows as `stored`.  `Conserved` makes
  them a prefix of the log (`InsertedPrefix`) and `DoneMeansReturned` says that nothing
  is pushed after the flag.

* `StoppedThreadsStoredAll`, for every topology that satisfies
  `ExitTestsCovered`: a stopped thread has inserted every row of its vectors.  The
  test is covered when each vector is read after the flag, or is read before it and
  belongs to a set of places `O` that no producer leaves except by pushing onto a
  vector that is read after the flag.  `NothingLeftBehind` is not inductive: it says
  nothing of a thread in the middle of its test.  `ExitInv` does: what has been read
  after the flag is still empty; what has been read before it is empty, or a
  producer is still within `O`, or a vector that the test has yet to read has a row
  (`Announced`).  When the flag has been read no producer is within `O`
  (`DoneMeansReturned`), and when the late vectors have been read too only the first
  case is left.  `Conserved` and `HeldOnlyAtInsert` turn empty vectors into stored rows.
  The proof is for any number of producers and any interleaving; that the tests of
  the block, transaction and key image threads and of the consumer are covered is
  evaluated by TLC in their runs (the first conjunct of `ReadsStayGood`), on the order
  of pushes of `xmrProcessor`.
* `ExitReadsStayGood`: `ReadsStayGood`, the same invariant as the runs check it.

For every number of producers and every height (`BoundsOK` bounds them by arbitrary
numbers):

* `RangesArePartition`, by the properties of quotient and remainder and the
  monotony of the product, the last range taking the remainder.
* `BlocksAreParsedOnce`, with the invariant that `parsed[b]` is 1 exactly when some
  producer's `x` has passed `b`, which needs the ranges to be disjoint.
* `BlocksAreSharedOut`: the two as the one property of the run.
* `TypeCorrect` of ProducerRanges.

For every number of vectors, threads and rows that satisfies `PoolOK` (a thread that
looks before it locks has its vector for itself), in StorePoolProofs:

* `PoolTypesCorrect`: the types.
* `SeenRowsAreThere`: a thread that looked finds its row.  Another thread's `Take` or
  `EraseFirst` cannot disturb it, because the assumption gives that thread another vector.
* `PoolRowsAreAccountedFor`: rows in a vector are the newest, in order; every other row
  is in one thread's hands at one place.  A step either moves a row from `temp` to
  `database`, which leaves `Taken` as it is, or the head of the vector to one thread's
  `temp`; the head is the row that nobody has, since what has been taken is older
  than everything that waits.
* `PoolFilesAreInOrder`, from the same: a row that is taken is newer than all that have
  been.
* `PoolRowsAreKept`: the last three as the one property of the run, `PoolKeepsRows`.

For every set of keys, bits and number of mixins and crashes (`ConstantsOK`), in
RingMembersProofs:

* `IdsReachTheStore` (`IdsInv`) and `MissesAreExplained`, from `RingInv`.  `IdsConserved` alone
  is not inductive: that no second id replaces the first needs that a key which was
  given an id is in the filter (`NewIsFiltered`), that the map's and the thread's pairs
  are given ones (`MapIsGiven`, `HeldIsGiven`), and that a row tells of each key once that
  it is new (`GivenOnce`).
* `CounterNeverOvercounts`: in the first process the counter is one more than the
  number of keys that are new (`CountInv`), and new keys are among the keys seen.
  `LookupsAreExplained` puts it together with `MissesExplained`.
* `CounterKeepsIdPromise`: RingMembers implements IdPromise.  The pairs given are those of
  the rows that are new, and a pair waits in the map or in the thread's hands.  `RingInv` lacks
  two facts that `PairInv` adds: the ids of this process are below the counter, so that the
  next one is nobody's, and a pair that the thread holds has left the map, so that the Put
  is the end of its waiting.  Taking a pair out of the map is no step of the promise, a Put
  on the closed store is `Lose`, and a death is `Restart`.

For every height, batch size, choice of maps and tables, and number of deaths
(`ConstantsOK`), in IngestProofs:

* `IdsAreNotShared`, `RowsAreNotRepeated` and `SavedHeightMeansStored`, from `IngestInv`.  Every
  id has the form `IdAt(e, b)` of a block `b` and of the number `e` of times that its
  counter had been saved when the process began (`Epoch`): rows and pairs on disk have
  an epoch up to this one's, those on their way have this one's, so that a process either
  counts in an epoch that nobody used or gives the same blocks the same ids, and PRIMARY
  KEYs keep a repeated row out.  A death among the seven Puts is
  allowed.
* `SavedHeightIsKept` (`HeightInv`) adds that the counters move together (`Uniform`), which is
  so unless a process dies among the seven Puts (`NoCrashInIds`; `IngestCrashInIds` shows
  what happens if one does), and needs the map of transactions and the two tables it
  leads to (`IndexIsKept`).

In StoragePartsProofs:

* `LossesComeLast`, for any number of batches, rows and faults: of a batch at hand every
  row is in the open transaction or was printed as refused, and no row in the file is of
  a batch in the open transaction (`BatchInv`).  `WrapperKeepsThePromise` is the
  refinement of BatchPromise, step by step: a batch is kept or dropped in the abstract
  sense when COMMIT ends, and every other step leaves what the file has of each batch.
* `SecondIdsAreExplained`, for any producers, keys and bits in bytes (`FilterOK`): the bits of
  a new key stay set unless a late store has cleared one (`BitsStay`), and only one
  producer is adding a key on which no two overlapped (`OnlyOneAdds`), so that a second
  one finds it (`FilterInv`).  A store of a byte that was loaded before is the step that
  needs both.
* `PairsStayWithTheirKeys`: an id names the row that made it, and pairs in the map, the
  store and the consumer's hands are such ids with their keys (`PairsInv`).
* `ProducersKeepTheirPromise`: SharedFilter implements the same IdPromise.  The next id is
  nobody's because it is the place of a row that is not there yet (`GivenIdsArePlaces`),
  whatever the filter answered; a pair that a second one of its key replaces in the map is
  the one that the promise allows to go.
* `RowsJoinAlways` and `HashesAlwaysLead`, for blocks of any shape: the counters are one more
  than the rows of their kind (`Counted`), so that the id of a row is its number in the
  vector, and the ids in an index row are the numbers of the rows of the same block,
  transaction and input (`OutRowsRight`, `ImageRowsRight`, `RingRowsRight`), which have places of
  their own in the chain (`TxHashesRight`).  `NumbersInv` counts the rows that belong to the
  block, transaction and input at hand; it is inductive relative to `RowsInv`, whose
  bounds make each new row one more.

In RollingHashProofs, for every width of a word, table size, list of primes, characters and
lengths (`RollingOK`; that a power of two is positive is assumed there, because the provers
know nothing of `^`):

* `customPowIsPower`: the table and the loop of squarings both give the power, modulo the word.
* `SearchIsAlwaysRight` (`SearchIsRight`).  The full hash is the sum of the characters weighed with
  powers, so that moving the window takes one term out, multiplies what is left, and adds one:
  prefixes of the two windows differ by one factor of `p` and the first term
  (`RolledHashIsFull`).  `RollingInv` says that the last hash is the full one of the window
  before, that the windows passed are not the key, and that the filter has the key's bits.

The hashes are defined by recursion over strings and exponents, and the induction theorems of
the library, which have predicates as parameters, cannot be used.  `Induct` is induction
over a set of numbers, from the least number outside it (`WFMin`), and `RecursionExists`
gives the function that a recursion defines; the powers, the loop of squarings and the prefix
hashes are these two applied to sets and functions.

In NodeReadersProofs, for every chain and every number of reorganisations up to the
depth that each module's assumption bounds:

* NodeRequests, `RequestInv`: what the parser has read stands in the chain, or its height
  and fork have gone and cannot come back, because each reorganisation starts a new
  fork.  `OnlyRemovalsEndIt`, `NothingFollowsAMixedBlock` and `StandingBlocksKeepInputs` follow.
* OutputSearch, `SearchInv`: whatever the node knew when the copy was asked for is in the
  copy, or in a block above the one the search has come to, or found.  The order pool
  first, height second is what makes it hold.  `NothingSlipsThrough`, `DoublesAreExplained`.
* EmissionMonitor, `EmissionInv`: counted blocks lie so far below the top that no
  reorganisation has reached them (`CountedIsSettled`; the gap covers the depth by
  `EmissionOK`), but for those of a full chunk.  `CountsTheChain`; `CheckpointNeverShrinks` is
  the action property, from `SavedIsCounted`.
* MempoolMonitor: `PagesListOnePool` from `PoolInv` (what is parsed and what is still to be
  are one pool), `InfoIsAsOldAsItSeems` from `InfoInv` (age between the turns of the loop and
  those turns with their delays, by linear arithmetic over a product).
* BlockPages, `PagesInv`: rows in the cache and on the page are of blocks that were there,
  and those on the page stood since it was asked for or are too deep to be checked
  (`StoodSincePage`); pages turned cover what was announced, shifted by the blocks
  that came since (`PagesTurned`, `PageUnderWay`).  `LastRowsAreOfTheChain`,
  `ReaderMissesNoBlock`.

`CoveredExitsAreSafe` puts `NothingLeftBehind` and `ReadsStayGood` together
as the property of the consumer's run.

Each inductive invariant was an invariant of the component's run before it was proved.

Only model-checked: the claims that fail, and all liveness properties
(`EveryThreadStops`, `RunEnds`, `PoolFinishes`, `ThreadCatchesUp`, `InfoHeals`), which are out of
the prover's reach.

## Not modelled

* Formatting and contents of rows, `tools.cpp`, `monero_headers.h`: stateless
  conversions for the pages; the parser stores what `page.h` returns.
* The other pages of `page.h` (one transaction, one key, proofs of payment, search, raw
  transactions and their submission): nothing in the build calls them.  Each reads the
  chain once, in the way NodeRequests models, and formats the answer.  This is most of
  the 6,500 lines of the file.
* Two pages rendered at a time: `cache.hpp` guards its operations with a temporary,
  `operation_guard{safe_op}`, that is gone at the end of the statement.  No code of the
  repository renders two pages at a time.
* The command line, and the samples of `/proc`, which nothing reads.
* What SQLite does within its calls, and what it leaves on disk beyond rows: SqliteBatches
  takes any of the rows of the transaction for what can be read after a death within
  COMMIT.
* `deleteFromKey` and opening a RocksDB store twice, which no run of the parser does.
* Exceptions other than those of a missing field (a crash in Ingest).
* `src/ext`: json, crow, fmt, mstch, minicsv and the cache library are third-party code.
  They are 31,000 of the 48,000 lines of code, and with the pages and tools above
  they are why the mapped lines stay below a tenth of all lines; of the storing
  code, the wrappers and the status threads nearly every line that changes state is
  mapped.  The ten copies of each pool function in `multithreads.h` are mapped as one.

Met while modelling and not made into runs, because no property of the stored data
depends on them: `substringExists`, which the parser does not call, takes a leaving character
out of the hash as an `unsigned char` that was added as a signed one (`hashFn.cpp:11`), so that
after a character of 128 or more it can answer no for a key that is there (`SearchIsRight`
speaks of smaller ones); `performanceAnalyser` (`parser.h:1081`) takes its last samples by value,
so that the CPU share it prints is that since boot; the duration "PER 100/blocks"
(`parser.h:1169`) counts from the start of the program; `json_block` returns the data
without a status (`page.h:4528`), so that `json_search` (`page.h:4886`) never finds a
block.

## Plan

Every safety invariant, action property and refinement that the passing runs check is
proved.  What is left needs other means: liveness under fairness, and the data races under
an optimising compiler, for which the code promises nothing.
