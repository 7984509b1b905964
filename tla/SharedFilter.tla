----------------------------- MODULE SharedFilter -----------------------------
(***************************************************************************)
(* Ring member ids in the variant with many producers (parser-7thread.h).  *)
(* The id of a mixin is made of its block, transaction, input and place,   *)
(* so that no counter is shared.  What is shared is the Bloom filter, read *)
(* and written without a lock, and the map rmHashIdVector, counted in      *)
(* under its lock and searched without it, while the consumer moves its    *)
(* pairs to the store.  setBit is a load and a store of one byte, and two  *)
(* of them can overlap.                                                    *)
(*                                                                         *)
(* A find() of a missing key is dereferenced as a string: the process dies *)
(* or a text that is nobody's id comes out (Garbage).                      *)
(***************************************************************************)
EXTENDS Integers, Sequences, Functions

CONSTANTS
    Keys,           \* public keys of ring members, numbers for their order
    BitsOf,         \* BitsOf[k]: the <<byte, bit>> of each hash function
    Bytes,          \* the bytes of the filter
    Producers,
    MixinsOf,       \* bound: MixinsOf[p] is how many mixins p meets
    Garbage         \* the text behind the end of the map

ASSUME FilterOK ==
    /\ Keys \subseteq Int
    /\ \A k \in Keys : BitsOf[k] \in Seq(Bytes \X Nat) /\ BitsOf[k] # <<>>
    /\ MixinsOf \in [Producers -> Nat]
    /\ Garbage \notin Producers \X Nat

VARIABLES
    met,            \* met[p]: the keys of the mixins p meets, in order
    row,            \* row[p]: the index rows p has pushed: key, id, origin
    doing,          \* doing[p]: the statement p does next
    hash,           \* hash[p]: the hash function p has come to
    loaded,         \* loaded[p]: the byte p has read in setBit
    buffer,         \* buffer[b]: the bits set in byte b
    memory,         \* rmHashIdVector
    storing,        \* the pair the consumer has taken out of it
    stored,         \* ringMemberHashMap
    died,
    overlapped,     \* history: keys that two producers looked up at a time
    unset           \* history: keys a bit of which a late store has cleared

memberVars == <<met, row, doing, hash, loaded, buffer, memory, storing, stored, died,
                overlapped, unset>>
producerVars == <<row, doing, hash, loaded>>

NoPairs == [k \in {} |-> Garbage]
Put(f, k, id) == [j \in DOMAIN f \cup {k} |-> IF j = k THEN id ELSE f[j]]
Least(S) == CHOOSE k \in S : \A j \in S : k <= j

key(p) == met[p][Len(row[p]) + 1]
bit(p) == BitsOf[key(p)][hash[p]]

\* block "-" transaction "-" input "-" place: no two mixins have the same.
currentRingMemberID(p) == <<p, Len(row[p]) + 1>>

MembersInit ==
    /\ met \in [Producers -> UNION {[1 .. MixinsOf[p] -> Keys] : p \in Producers}]
    /\ \A p \in Producers : Len(met[p]) = MixinsOf[p]
    /\ row = [p \in Producers |-> <<>>]
    /\ doing = [p \in Producers |-> "exists"]
    /\ hash = [p \in Producers |-> 1]
    /\ loaded = [p \in Producers |-> {}]
    /\ buffer = [b \in Bytes |-> {}]
    /\ memory = NoPairs
    /\ storing = <<>>
    /\ stored = NoPairs
    /\ died = FALSE
    /\ overlapped = {}
    /\ unset = {}

Working(p) == ~died /\ Len(row[p]) < Len(met[p])

\* p is between the first bit it tests for k and the end of the mixin.
Busy(p, k) == Working(p) /\ key(p) = k /\ (doing[p] # "exists" \/ hash[p] > 1)

From(p, from) == Working(p) /\ doing[p] = from
Goes(p, to) == doing' = [doing EXCEPT ![p] = to]

\* The rows of the mixin are pushed and the next mixin begins.
PushRowOf(p, id, origin) ==
    /\ row' = [row EXCEPT ![p] = Append(@, [key |-> key(p), id |-> id, origin |-> origin])]
    /\ Goes(p, "exists")
    /\ hash' = [hash EXCEPT ![p] = 1]
-----------------------------------------------------------------------------
\* BloomFilter::exists, one bit after the other; a bit that is not set ends it.
Exists(p) ==
    /\ From(p, "exists")
    /\ IF bit(p)[2] \notin buffer[bit(p)[1]]
       THEN Goes(p, "load") /\ hash' = [hash EXCEPT ![p] = 1]
       ELSE IF hash[p] < Len(BitsOf[key(p)])
       THEN hash' = [hash EXCEPT ![p] = @ + 1] /\ UNCHANGED doing
       ELSE Goes(p, "count") /\ hash' = [hash EXCEPT ![p] = 1]
    /\ overlapped' = overlapped \cup
          {k \in {key(p)} : \E q \in Producers \ {p} : Busy(q, k)}
    /\ UNCHANGED <<met, row, loaded, buffer, memory, storing, stored, died, unset>>

\* setBit: buffer[byte] is read ...
LoadByte(p) ==
    /\ From(p, "load")
    /\ loaded' = [loaded EXCEPT ![p] = buffer[bit(p)[1]]]
    /\ Goes(p, "store")
    /\ UNCHANGED <<met, row, hash, buffer, memory, storing, stored, died, overlapped, unset>>

\* Keys that have been added and have a bit among those of byte b that are lost.
Losers(b, lost) ==
    {k \in Keys : \E i \in DOMAIN BitsOf[k] : BitsOf[k][i][1] = b /\ BitsOf[k][i][2] \in lost}

\* Seeded fault: the bit of the last hash function is not stored.
StoreByteSkips(p) ==
    /\ From(p, "store")
    /\ UNCHANGED <<buffer, unset>>
    /\ IF hash[p] < Len(BitsOf[key(p)])
       THEN hash' = [hash EXCEPT ![p] = @ + 1] /\ Goes(p, "load")
       ELSE hash' = [hash EXCEPT ![p] = 1] /\ Goes(p, "record")
    /\ UNCHANGED <<met, row, loaded, memory, storing, stored, died, overlapped>>

\* ... and written with one more bit; add() goes on with the next hash function.
StoreByte(p) ==
    LET b == bit(p)[1] IN
    /\ From(p, "store")
    /\ buffer' = [buffer EXCEPT ![b] = loaded[p] \cup {bit(p)[2]}]
    /\ unset' = unset \cup Losers(b, buffer[b] \ buffer'[b])
    /\ IF hash[p] < Len(BitsOf[key(p)])
       THEN hash' = [hash EXCEPT ![p] = @ + 1] /\ Goes(p, "load")
       ELSE hash' = [hash EXCEPT ![p] = 1] /\ Goes(p, "record")
    /\ UNCHANGED <<met, row, loaded, memory, storing, stored, died, overlapped>>

\* The new pair goes into the map, with the lock.
Record(p) ==
    /\ From(p, "record")
    /\ memory' = Put(memory, key(p), currentRingMemberID(p))
    /\ PushRowOf(p, currentRingMemberID(p), "new")
    /\ UNCHANGED <<met, loaded, buffer, storing, stored, died, overlapped, unset>>

\* rmHashIdVector.count(key), with the lock.
Count(p) ==
    /\ From(p, "count")
    /\ Goes(p, IF key(p) \in DOMAIN memory THEN "find" ELSE "get")
    /\ UNCHANGED <<met, row, hash, loaded, buffer, memory, storing, stored, died,
                   overlapped, unset>>

\* rmHashIdVector.find(key)->second, without the lock.
Find(p) ==
    /\ From(p, "find")
    /\ \/ /\ key(p) \in DOMAIN memory
          /\ PushRowOf(p, memory[key(p)], "memory")
          /\ UNCHANGED died
       \/ /\ key(p) \notin DOMAIN memory
          /\ PushRowOf(p, Garbage, "past end")
          /\ UNCHANGED died
       \/ /\ key(p) \notin DOMAIN memory
          /\ died' = TRUE
          /\ UNCHANGED <<row, doing, hash>>
    /\ UNCHANGED <<met, loaded, buffer, memory, storing, stored, overlapped, unset>>

\* ringMemberHashMap.isKeyExist(key); "null" keeps the mixin's own id.
Get(p) ==
    /\ From(p, "get")
    /\ IF key(p) \in DOMAIN stored
       THEN PushRowOf(p, stored[key(p)], "store")
       ELSE PushRowOf(p, currentRingMemberID(p), "not found")
    /\ UNCHANGED <<met, loaded, buffer, memory, storing, stored, died, overlapped, unset>>
-----------------------------------------------------------------------------
\* Seeded fault: the pair is copied and not erased.
TakePairKeeps ==
    /\ ~died
    /\ storing = <<>>
    /\ DOMAIN memory # {}
    /\ storing' = <<Least(DOMAIN memory), memory[Least(DOMAIN memory)]>>
    /\ UNCHANGED <<met, producerVars, buffer, memory, stored, died, overlapped, unset>>

\* dataConsumerThread: the least pair leaves the map, with the lock ...
TakePair ==
    /\ ~died
    /\ storing = <<>>
    /\ DOMAIN memory # {}
    /\ LET k == Least(DOMAIN memory) IN
          /\ storing' = <<k, memory[k]>>
          /\ memory' = Restrict(memory, DOMAIN memory \ {k})
    /\ UNCHANGED <<met, producerVars, buffer, stored, died, overlapped, unset>>

\* Seeded fault: the store refuses the pair, because it was closed too early.
PutPairClosed ==
    /\ ~died
    /\ storing # <<>>
    /\ storing' = <<>>
    /\ UNCHANGED <<met, producerVars, buffer, memory, stored, died, overlapped, unset>>

\* ... and is put into the store.
PutPair ==
    /\ ~died
    /\ storing # <<>>
    /\ stored' = Put(stored, storing[1], storing[2])
    /\ storing' = <<>>
    /\ UNCHANGED <<met, producerVars, buffer, memory, died, overlapped, unset>>

MembersEnded ==
    /\ died \/ ((\A p \in Producers : ~Working(p)) /\ DOMAIN memory = {} /\ storing = <<>>)
    /\ UNCHANGED memberVars

ProducerStep(p) ==
    \/ Exists(p) \/ LoadByte(p) \/ StoreByte(p) \/ Record(p)
    \/ Count(p) \/ Find(p) \/ Get(p)

MembersNext ==
    \/ \E p \in Producers : ProducerStep(p)
    \/ TakePair \/ PutPair
    \/ MembersEnded

MembersSpec == MembersInit /\ [][MembersNext]_memberVars
-----------------------------------------------------------------------------
Rows == UNION {{<<p, n>> : n \in DOMAIN row[p]} : p \in Producers}
RowAt(r) == row[r[1]][r[2]]

\* Where the pairs of a key are.
Homes == DOMAIN memory \cup DOMAIN stored \cup (IF storing = <<>> THEN {} ELSE {storing[1]})

\* A key gets a second id through the filter only if two producers looked it up at
\* a time or a late store has cleared one of its bits (parser-7thread.h:402,
\* bloomFilter.cpp:43).
SecondIdExplained ==
    \A r, s \in Rows :
        (/\ r # s
         /\ RowAt(r).origin = "new"
         /\ RowAt(s).origin = "new"
         /\ RowAt(r).key = RowAt(s).key)
            => RowAt(r).key \in overlapped \cup unset

\* The id of a row is an id that was made for the same key: overlapping producers,
\* lost bits and overwritten pairs never give a key the id of another one
\* (parser-7thread.h:395, 429).
IdsOfTheSameKey ==
    \A r \in Rows :
        RowAt(r).origin # "past end" =>
            \E s \in Rows : RowAt(s).key = RowAt(r).key /\ RowAt(r).id = s

\* Every pair that was made reaches the store, though perhaps under a later id: a key
\* that was counted in the map and that find() then misses is not lost, only looked for
\* in the wrong place (parser-7thread.h:408-413, 429, 736-746).
NewKeysHaveAHome ==
    \A r \in Rows : RowAt(r).origin = "new" => RowAt(r).key \in Homes

\* Between the threads no key takes another one's id and none is dropped
\* (parser-7thread.h:395-429, 736-746).
PairsKeepTheirKeys == IdsOfTheSameKey /\ NewKeysHaveAHome

\* The pairs <<key, id>> that were given, and those on their way to the store.
PairsGiven == {<<RowAt(r).key, RowAt(r).id>> : r \in {s \in Rows : RowAt(s).origin = "new"}}
PairsWaiting ==
    {<<k, memory[k]>> : k \in DOMAIN memory} \cup (IF storing = <<>> THEN {} ELSE {storing})

Ids == INSTANCE IdPromise WITH
    given <- PairsGiven, waiting <- PairsWaiting, store <- stored, closed <- FALSE

\* Producers that race give ids that are each one key's, and a pair is stored once, or
\* replaced while it waits by one that was given later (parser-7thread.h:424-431,
\* 736-746): the promise that the parsing thread and its hash thread keep.
ProducersKeepIdPromise == Ids!PromiseSpec
=============================================================================
