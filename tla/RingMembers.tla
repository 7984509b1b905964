---------------------------- MODULE RingMembers ----------------------------
(***************************************************************************)
(* How parser.h gives a ring member its id.  The parsing thread looks the  *)
(* public key up in a Bloom filter, in the map rmHashIdVector and in the   *)
(* RocksDB store ringMemberHashMap, in that order; runRMIdHashMappingThread *)
(* moves the entries of the map to the store meanwhile.  The filter and    *)
(* the map live in memory and are empty in each new process; the store and *)
(* the last ids survive.                                                   *)
(*                                                                         *)
(* Two reads of the code are undefined and are choices here: find() of a   *)
(* missing key, dereferenced (PastEnd), and a Put on a closed store (the   *)
(* pair is lost, or the process dies).                                     *)
(***************************************************************************)
EXTENDS Naturals, Sequences, FiniteSetsExt, Functions

CONSTANTS
    Key,         \* public keys of ring members, numbers for their order
    Bits,        \* Bits[k]: the bits of the Bloom filter that k sets
    PastEnd,     \* what an int read past the end of the map may be
    MaxMixins,   \* bound: mixins in the blocks of a run
    MaxCrashes   \* bound: times the process dies

ASSUME ConstantsOK ==
    /\ Key \subseteq Nat
    /\ Bits \in [Key -> SUBSET Nat]
    /\ \A k \in Key : Bits[k] # {}
    /\ PastEnd \subseteq Nat
    /\ MaxMixins \in Nat
    /\ MaxCrashes \in Nat

VARIABLES
    mixins,              \* the keys of the mixins, in the order of the blocks
    bloomFilter,         \* the bits that are set
    rmHashIdVector,      \* key -> id, in memory
    ringMemberHashMap,   \* key -> id, in RocksDB
    open,                \* ringMemberHashMap has not been closed
    lastRingMemberId,
    savedRingMemberId,   \* lastRingMemberId in the last ids; 0 for "null"
    outputIndexOfRingMembers,  \* the rows of this run: key, id and where it is from
    isAllBlockDone,
    main,                \* what the parsing thread does next
    rm,                  \* what the ring member hash thread does next
    held,                \* the pair it has taken out of the map
    crashes

disk   == <<mixins, ringMemberHashMap, savedRingMemberId>>
parser == <<bloomFilter, lastRingMemberId, outputIndexOfRingMembers, main>>
thread == <<rm, held>>
vars   == <<disk, parser, thread, rmHashIdVector, open, isAllBlockDone, crashes>>

Empty == [k \in {} |-> 0]
With(f, k, id) == [j \in DOMAIN f \cup {k} |-> IF j = k THEN id ELSE f[j]]
Without(f, k)  == Restrict(f, DOMAIN f \ {k})

\* Every new process starts with these, before main() reads the last ids.
FreshProcess ==
    /\ bloomFilter' = {}
    /\ rmHashIdVector' = Empty
    /\ outputIndexOfRingMembers' = <<>>
    /\ open' = TRUE
    /\ isAllBlockDone' = FALSE
    /\ main' = "start"
    /\ rm' = "test"
    /\ held' = <<>>

Init ==
    /\ mixins \in UNION {[1 .. n -> Key] : n \in 0 .. MaxMixins}
    /\ bloomFilter = {}
    /\ rmHashIdVector = Empty
    /\ ringMemberHashMap = Empty
    /\ open = TRUE
    /\ lastRingMemberId = 0
    /\ savedRingMemberId = 0
    /\ outputIndexOfRingMembers = <<>>
    /\ isAllBlockDone = FALSE
    /\ main = "start"
    /\ rm = "test"
    /\ held = <<>>
    /\ crashes = 0

-----------------------------------------------------------------------------
(* The parsing thread.                                                     *)

\* "null" becomes 1
getLastIdList ==
    /\ main = "start"
    /\ lastRingMemberId' = IF savedRingMemberId = 0 THEN 1 ELSE savedRingMemberId
    /\ main' = "parse"
    /\ UNCHANGED <<disk, thread, bloomFilter, outputIndexOfRingMembers,
                   rmHashIdVector, open, isAllBlockDone, crashes>>

\* The mixin that comes next, and its row.
NextMixin == Len(outputIndexOfRingMembers) + 1
AtMixin(k) ==
    /\ NextMixin <= Len(mixins)
    /\ k = mixins[NextMixin]
Row(k, id, from) ==
    outputIndexOfRingMembers' =
        Append(outputIndexOfRingMembers, [key |-> k, id |-> id, from |-> from])

exists(k) == Bits[k] \subseteq bloomFilter

\* Seeded fault: the key is not added to the Bloom filter.
NewMemberUnfiltered(k) ==
    /\ main = "parse" /\ AtMixin(k) /\ ~exists(k)
    /\ bloomFilter' = bloomFilter
    /\ rmHashIdVector' = With(rmHashIdVector, k, lastRingMemberId)
    /\ lastRingMemberId' = lastRingMemberId + 1
    /\ Row(k, lastRingMemberId, "new")
    /\ UNCHANGED <<disk, thread, open, isAllBlockDone, main, crashes>>

\* Seeded fault: the counter stays where it is.
NewMemberUncounted(k) ==
    /\ main = "parse" /\ AtMixin(k) /\ ~exists(k)
    /\ bloomFilter' = bloomFilter \cup Bits[k]
    /\ rmHashIdVector' = With(rmHashIdVector, k, lastRingMemberId)
    /\ Row(k, lastRingMemberId, "new")
    /\ UNCHANGED <<disk, thread, lastRingMemberId, open, isAllBlockDone, main, crashes>>

\* The filter does not know the key: it gets the next id.
NewMember(k) ==
    /\ main = "parse" /\ AtMixin(k) /\ ~exists(k)
    /\ bloomFilter' = bloomFilter \cup Bits[k]
    /\ rmHashIdVector' = With(rmHashIdVector, k, lastRingMemberId)
    /\ lastRingMemberId' = lastRingMemberId + 1
    /\ Row(k, lastRingMemberId, "new")
    /\ UNCHANGED <<disk, thread, open, isAllBlockDone, main, crashes>>

\* nowId = rmHashIdVector.find(k)->second, which for a missing key is
\* whatever memory holds there.
nowIds(k) == IF k \in DOMAIN rmHashIdVector THEN {rmHashIdVector[k]} ELSE PastEnd

FindInMemory(k) ==
    /\ main = "parse" /\ AtMixin(k) /\ exists(k)
    /\ \E nowId \in nowIds(k) :
          IF nowId # 0 THEN Row(k, nowId, "memory") /\ main' = "parse"
                       ELSE main' = "lookup" /\ UNCHANGED outputIndexOfRingMembers
    /\ UNCHANGED <<disk, thread, bloomFilter, rmHashIdVector, open,
                   lastRingMemberId, isAllBlockDone, crashes>>

\* isKeyExist: a key that the store does not have gets the next id, which
\* stays the next id.
LookupInDatabase(k) ==
    /\ main = "lookup" /\ AtMixin(k)
    /\ IF k \in DOMAIN ringMemberHashMap
       THEN Row(k, ringMemberHashMap[k], "database")
       ELSE Row(k, lastRingMemberId, "database")
    /\ main' = "parse"
    /\ UNCHANGED <<disk, thread, bloomFilter, rmHashIdVector, open,
                   lastRingMemberId, isAllBlockDone, crashes>>

storeLastIdList ==
    /\ main = "parse" /\ NextMixin > Len(mixins)
    /\ savedRingMemberId' = lastRingMemberId
    /\ main' = "close"
    /\ UNCHANGED <<mixins, ringMemberHashMap, thread, bloomFilter, rmHashIdVector,
                   open, lastRingMemberId, outputIndexOfRingMembers,
                   isAllBlockDone, crashes>>

\* ringMemberHashMap.close()
Close ==
    /\ main = "close"
    /\ open' = FALSE
    /\ main' = "flag"
    /\ UNCHANGED <<disk, thread, bloomFilter, rmHashIdVector, lastRingMemberId,
                   outputIndexOfRingMembers, isAllBlockDone, crashes>>

SetAllBlockDone ==
    /\ main = "flag"
    /\ isAllBlockDone' = TRUE
    /\ main' = "join"
    /\ UNCHANGED <<disk, thread, bloomFilter, rmHashIdVector, open,
                   lastRingMemberId, outputIndexOfRingMembers, crashes>>

-----------------------------------------------------------------------------
(* runRMIdHashMappingThread.                                               *)

RMUnchanged == UNCHANGED <<mixins, savedRingMemberId, bloomFilter, lastRingMemberId,
                           outputIndexOfRingMembers, isAllBlockDone>>

\* if(!rmHashIdVector.empty()), read without the lock
Test ==
    /\ rm = "test"
    /\ rm' = IF rmHashIdVector # Empty THEN "take" ELSE "exit"
    /\ RMUnchanged
    /\ UNCHANGED <<ringMemberHashMap, rmHashIdVector, open, main, held, crashes>>

\* Seeded fault: the whole map is cleared, not its first entry.
TakeFirstClears(k) ==
    /\ rm = "take" /\ k = Min(DOMAIN rmHashIdVector)
    /\ held' = <<k, rmHashIdVector[k]>>
    /\ rmHashIdVector' = Empty
    /\ rm' = "insert"
    /\ RMUnchanged
    /\ UNCHANGED <<ringMemberHashMap, open, main, crashes>>

\* lock; begin()->first and ->second; erase(begin()); unlock.  A std::map
\* begins with its smallest key.
TakeFirst(k) ==
    /\ rm = "take" /\ k = Min(DOMAIN rmHashIdVector)
    /\ held' = <<k, rmHashIdVector[k]>>
    /\ rmHashIdVector' = Without(rmHashIdVector, k)
    /\ rm' = "insert"
    /\ RMUnchanged
    /\ UNCHANGED <<ringMemberHashMap, open, main, crashes>>

insertKey ==
    /\ rm = "insert" /\ open
    /\ ringMemberHashMap' = With(ringMemberHashMap, held[1], held[2])
    /\ rm' = "test" /\ held' = <<>>
    /\ RMUnchanged
    /\ UNCHANGED <<rmHashIdVector, open, main, crashes>>

\* The Put reaches a deleted rocksdb::DB and the pair is gone.
insertKeyClosed ==
    /\ rm = "insert" /\ ~open
    /\ rm' = "test" /\ held' = <<>>
    /\ RMUnchanged
    /\ UNCHANGED <<ringMemberHashMap, rmHashIdVector, open, main, crashes>>

\* else if(rmHashIdVector.empty() ...
ExitEmpty ==
    /\ rm = "exit"
    /\ rm' = IF rmHashIdVector = Empty THEN "exitFlag" ELSE "test"
    /\ RMUnchanged
    /\ UNCHANGED <<ringMemberHashMap, rmHashIdVector, open, main, held, crashes>>

\* Seeded fault: the flag is tested the wrong way round once it is set.
ExitFlagNever ==
    /\ rm = "exitFlag"
    /\ rm' = "test"
    /\ RMUnchanged
    /\ UNCHANGED <<ringMemberHashMap, rmHashIdVector, open, main, held, crashes>>

\* ... && isAllBlockDone) break
ExitFlag ==
    /\ rm = "exitFlag"
    /\ rm' = IF isAllBlockDone THEN "stopped" ELSE "test"
    /\ RMUnchanged
    /\ UNCHANGED <<ringMemberHashMap, rmHashIdVector, open, main, held, crashes>>

-----------------------------------------------------------------------------
\* The process dies at any point and is started again: the saved block height
\* has not been written, so that the same blocks are parsed again.
Crash ==
    /\ main # "done" /\ crashes < MaxCrashes
    /\ crashes' = crashes + 1
    /\ FreshProcess
    /\ UNCHANGED <<disk, lastRingMemberId>>

\* main() joins the threads and stores the block height.
Joined ==
    /\ main = "join" /\ rm = "stopped"
    /\ main' = "done"
    /\ UNCHANGED <<disk, thread, bloomFilter, rmHashIdVector, open, lastRingMemberId,
                   outputIndexOfRingMembers, isAllBlockDone, crashes>>

Ended == main = "done" /\ UNCHANGED vars

Parse ==
    \/ getLastIdList \/ storeLastIdList \/ Close \/ SetAllBlockDone
    \/ \E k \in Key : NewMember(k) \/ FindInMemory(k) \/ LookupInDatabase(k)

runRMIdHashMappingThread ==
    \/ Test \/ insertKey \/ insertKeyClosed \/ ExitEmpty \/ ExitFlag
    \/ \E k \in Key : TakeFirst(k)

Next == Parse \/ runRMIdHashMappingThread \/ Crash \/ Joined \/ Ended

Spec == Init /\ [][Next]_vars

\* Both are threads of their own; crashes need not happen.
FairSpec ==
    Spec /\ WF_vars(Parse) /\ WF_vars(runRMIdHashMappingThread) /\ WF_vars(Joined)
-----------------------------------------------------------------------------
TypeOK ==
    /\ mixins \in Seq(Key)
    /\ bloomFilter \subseteq Nat
    /\ DOMAIN rmHashIdVector \subseteq Key
    /\ DOMAIN ringMemberHashMap \subseteq Key
    /\ lastRingMemberId \in Nat /\ savedRingMemberId \in Nat
    /\ \A i \in DOMAIN outputIndexOfRingMembers :
          outputIndexOfRingMembers[i] \in
              [key : Key, id : Nat, from : {"new", "memory", "database"}]
    /\ open \in BOOLEAN /\ isAllBlockDone \in BOOLEAN
    /\ main \in {"start", "parse", "lookup", "close", "flag", "join", "done"}
    /\ rm \in {"test", "take", "insert", "exit", "exitFlag", "stopped"}
    /\ rm = "insert" <=> held # <<>>
    /\ crashes \in 0 .. MaxCrashes

RowsOf(k) == {i \in DOMAIN outputIndexOfRingMembers :
                 outputIndexOfRingMembers[i].key = k}

\* Row i is the one that gave its key an id in this run.
IsNew(i) == outputIndexOfRingMembers[i].from = "new"
Added(k) == \E i \in RowsOf(k) : IsNew(i)

Maps(f, k, id) == k \in DOMAIN f /\ f[k] = id

\* While the store is open, the id a key was given is never lost and never
\* replaced on its way from the map to the store: it is in the map, held by the
\* hash thread, or in the store (parser.h:442-449 against 1060-1069).
IdsConserved ==
    open => \A i \in DOMAIN outputIndexOfRingMembers : IsNew(i) =>
        LET row == outputIndexOfRingMembers[i] IN
            \/ Maps(rmHashIdVector, row.key, row.id)
            \/ held = <<row.key, row.id>>
            \/ Maps(ringMemberHashMap, row.key, row.id)

\* The types, and no id lost on its way.
IdsInv == TypeOK /\ IdsConserved

\* The only keys of the Bloom filter that the database lookup can miss are the
\* filter's false positives and the one key that the hash thread has erased from
\* the map and not yet put into the store (parser.h:432-438).
MissesExplained ==
    \A k \in Key : main = "lookup" /\ AtMixin(k) /\ k \notin DOMAIN ringMemberHashMap
        => ~Added(k) \/ (rm = "insert" /\ held[1] = k)

\* Within one process the ids given out are never more than the distinct keys
\* seen, whatever the other thread moves meanwhile: a key draws an id from the
\* counter at most once in a process (parser.h:419-449).
NeverOvercounts ==
    crashes = 0 /\ main # "start" =>
        lastRingMemberId - 1 <=
            Cardinality({outputIndexOfRingMembers[i].key :
                            i \in DOMAIN outputIndexOfRingMembers})

\* What a lookup makes of the filter, the map and the store, right or wrong, has these
\* causes and this cost.
LookupsExplained == MissesExplained /\ NeverOvercounts

\* The pairs <<key, id>> that were given, and those on their way to the store.
PairsGiven ==
    {<<outputIndexOfRingMembers[i].key, outputIndexOfRingMembers[i].id>> :
        i \in {j \in DOMAIN outputIndexOfRingMembers : IsNew(j)}}
PairsWaiting ==
    {<<k, rmHashIdVector[k]>> : k \in DOMAIN rmHashIdVector}
        \cup (IF held = <<>> THEN {} ELSE {held})

Ids == INSTANCE IdPromise WITH
    given <- PairsGiven, waiting <- PairsWaiting, store <- ringMemberHashMap, closed <- ~open

\* Whatever the filter and the undefined reads make of a lookup, the ids that are given
\* are each one key's, and a pair leaves the map and the thread's hands only into the
\* store, unless that is closed (parser.h:440-449, 1057-1069).
KeepsIdPromise == Ids!PromiseSpec

\* A run of the program that does not die ends.
RunEnds == <>(main = "done")

\* What the code or its comments say, and does not hold.

\* "value is in the memory" (parser.h:429): an id taken from the map is the id
\* that its key was given.
ValueIsInTheMemory ==
    \A i \in DOMAIN outputIndexOfRingMembers :
        outputIndexOfRingMembers[i].from = "memory" =>
            \E j \in RowsOf(outputIndexOfRingMembers[i].key) :
                IsNew(j) /\ outputIndexOfRingMembers[j].id
                                = outputIndexOfRingMembers[i].id

\* "TOTAL RING MEMBERS ... (WITHOUT DUPLICATES)" (parser.h:1185): the total that
\* showCurrentStatus prints is the number of distinct ring members of the blocks.
TotalWithoutDuplicates ==
    main = "flag" => lastRingMemberId - 1 = Cardinality(Range(mixins))

\* "RING-MEMBER ID-HASH STORING THREAD COMPLETED" (parser.h:1077): the store has
\* every id that the run gave out.
StoringThreadCompleted ==
    rm = "stopped" => \A i \in DOMAIN outputIndexOfRingMembers : IsNew(i) =>
        Maps(ringMemberHashMap, outputIndexOfRingMembers[i].key,
             outputIndexOfRingMembers[i].id)
=============================================================================
