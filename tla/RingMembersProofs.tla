--------------------------- MODULE RingMembersProofs ---------------------------
(***************************************************************************)
(* Proofs about RingMembers, for every set of keys, every Bloom filter,    *)
(* every content of memory past the end of the map, and any number of      *)
(* mixins and of processes that die: types, that no id is lost between the *)
(* map and the store, which keys the store can miss, and that the counter  *)
(* does not run ahead of the keys.                                         *)
(***************************************************************************)
EXTENDS RingMembers, FiniteSetTheorems, SequenceTheorems, WellFoundedInduction, NaturalsInduction, TLAPS

RowType == [key : Key, id : Nat, from : {"new", "memory", "database"}]

\* Rows that gave k the id.
Given(k, id) == \E i \in DOMAIN outputIndexOfRingMembers :
    /\ IsNew(i)
    /\ outputIndexOfRingMembers[i].key = k
    /\ outputIndexOfRingMembers[i].id = id

\* Where an id that was given is kept.
Kept(k, id) ==
    \/ Maps(rmHashIdVector, k, id)
    \/ held = <<k, id>>
    \/ Maps(ringMemberHashMap, k, id)

-----------------------------------------------------------------------------
\* The types of what TypeOK leaves open.
RowsTyped == outputIndexOfRingMembers \in Seq(RowType)

MapsTyped ==
    /\ rmHashIdVector = [k \in DOMAIN rmHashIdVector |-> rmHashIdVector[k]]
    /\ \A k \in DOMAIN ringMemberHashMap : ringMemberHashMap[k] \in Nat

\* An entry of the map, and the pair on its way to the store, were given in this run.
MapIsGiven  == \A k \in DOMAIN rmHashIdVector : Given(k, rmHashIdVector[k])
HeldIsGiven == rm = "insert" => held = <<held[1], held[2]>> /\ Given(held[1], held[2])

\* A row in this run that gave an id left the key in the filter, so that there is no other.
NewIsFiltered ==
    \A i \in DOMAIN outputIndexOfRingMembers :
        IsNew(i) => exists(outputIndexOfRingMembers[i].key)
GivenOnce ==
    \A i, j \in DOMAIN outputIndexOfRingMembers :
        (/\ IsNew(i) /\ IsNew(j)
         /\ outputIndexOfRingMembers[i].key = outputIndexOfRingMembers[j].key) => i = j

\* 0 is no id: the code takes it for "not found".
IdsNotZero ==
    /\ main # "start" => lastRingMemberId > 0
    /\ \A i \in DOMAIN outputIndexOfRingMembers :
          IsNew(i) => outputIndexOfRingMembers[i].id > 0

\* Where the threads are.
TakeFindsOne    == rm = "take" => DOMAIN rmHashIdVector # {}
OpenWhileParsed == main \in {"start", "parse", "lookup", "close"} => open
LookupAfterMap  == main = "lookup" => \A k \in Key : AtMixin(k) => k \notin DOMAIN rmHashIdVector

RingInv ==
    /\ IdsInv /\ RowsTyped /\ MapsTyped /\ MapIsGiven /\ HeldIsGiven /\ NewIsFiltered
    /\ GivenOnce /\ IdsNotZero /\ TakeFindsOne /\ OpenWhileParsed /\ LookupAfterMap

-----------------------------------------------------------------------------
(* A row is added.                                                         *)

LEMMA ElementsHaveType ==
    \A s \in Seq(RowType) : \A i \in DOMAIN s :
        s[i] \in [key : Key, id : Nat, from : {"new", "memory", "database"}]
<1> SUFFICES ASSUME NEW s \in Seq(RowType), NEW i \in DOMAIN s
             PROVE  s[i] \in RowType
  BY DEF RowType
<1>1. i \in 1 .. Len(s)
  BY LenProperties
<1>2. QED
  BY <1>1, ElementOfSeq

LEMMA RowAdded ==
    ASSUME RowsTyped, NEW k \in Key, NEW id \in Nat,
           NEW from \in {"new", "memory", "database"}, Row(k, id, from)
    PROVE  /\ RowsTyped'
           /\ Len(outputIndexOfRingMembers) \in Nat
           /\ DOMAIN outputIndexOfRingMembers = 1 .. Len(outputIndexOfRingMembers)
           /\ DOMAIN outputIndexOfRingMembers' = 1 .. Len(outputIndexOfRingMembers) + 1
           /\ \A i \in DOMAIN outputIndexOfRingMembers :
                 /\ outputIndexOfRingMembers'[i] = outputIndexOfRingMembers[i]
                 /\ outputIndexOfRingMembers[i] \in RowType
           /\ outputIndexOfRingMembers'[Len(outputIndexOfRingMembers) + 1]
                 = [key |-> k, id |-> id, from |-> from]
<1> DEFINE r == [key |-> k, id |-> id, from |-> from]
<1>1. r \in RowType
  BY DEF RowType
<1>2. outputIndexOfRingMembers' = Append(outputIndexOfRingMembers, r)
  BY DEF Row
<1> HIDE DEF r
<1>3. QED
  BY <1>1, <1>2, AppendProperties, LenProperties, ElementOfSeq DEF RowsTyped, r

\* A row that gives no id changes nothing that is said of those that do.
LEMMA LookedUpRow ==
    ASSUME RowsTyped, NewIsFiltered, GivenOnce, IdsNotZero, main # "start",
           NEW k \in Key, NEW id \in Nat, NEW from \in {"memory", "database"}, Row(k, id, from),
           UNCHANGED <<bloomFilter, lastRingMemberId>>
    PROVE  /\ (NewIsFiltered /\ GivenOnce /\ IdsNotZero)'
           /\ \A j, id1 : Given(j, id1)' <=> Given(j, id1)
<1> DEFINE n == Len(outputIndexOfRingMembers)
<1>0. /\ n \in Nat
      /\ DOMAIN outputIndexOfRingMembers = 1 .. n
      /\ DOMAIN outputIndexOfRingMembers' = 1 .. n + 1
      /\ \A i \in DOMAIN outputIndexOfRingMembers :
            outputIndexOfRingMembers'[i] = outputIndexOfRingMembers[i]
      /\ outputIndexOfRingMembers'[n + 1] = [key |-> k, id |-> id, from |-> from]
      /\ from \in {"new", "memory", "database"}
  BY RowAdded
<1> HIDE DEF n
<1>1. \A i \in DOMAIN outputIndexOfRingMembers' : IsNew(i)' =>
          /\ i \in DOMAIN outputIndexOfRingMembers /\ IsNew(i)
          /\ outputIndexOfRingMembers'[i] = outputIndexOfRingMembers[i]
  BY <1>0 DEF IsNew
<1>2. \A i \in DOMAIN outputIndexOfRingMembers :
          /\ i \in DOMAIN outputIndexOfRingMembers'
          /\ outputIndexOfRingMembers'[i] = outputIndexOfRingMembers[i]
          /\ IsNew(i)' <=> IsNew(i)
  BY <1>0 DEF IsNew
<1>3. NewIsFiltered'
  BY <1>1 DEF NewIsFiltered, exists
<1>4. GivenOnce'
  BY <1>1 DEF GivenOnce
<1>5. IdsNotZero'
  BY <1>1 DEF IdsNotZero
<1>6. \A j, id1 : Given(j, id1)' <=> Given(j, id1)
  BY <1>1, <1>2 DEF Given
<1>7. QED
  BY <1>3, <1>4, <1>5, <1>6

\* The row that gives k an id is the only one, since the filter did not know k.
LEMMA NewRow ==
    ASSUME ConstantsOK, RowsTyped, NewIsFiltered, GivenOnce, IdsNotZero, bloomFilter \subseteq Nat,
           lastRingMemberId \in Nat, NEW k \in Key, NewMember(k)
    PROVE  /\ RowsTyped'
           /\ (NewIsFiltered /\ GivenOnce /\ IdsNotZero)'
           /\ \A j, n : Given(j, n) => j # k /\ Given(j, n)'
           /\ \A id : id = lastRingMemberId => Given(k, id)'
<1>0. PICK n :
      /\ RowsTyped'
      /\ n \in Nat
      /\ DOMAIN outputIndexOfRingMembers = 1 .. n
      /\ DOMAIN outputIndexOfRingMembers' = 1 .. n + 1
      /\ \A i \in DOMAIN outputIndexOfRingMembers :
            /\ outputIndexOfRingMembers'[i] = outputIndexOfRingMembers[i]
            /\ outputIndexOfRingMembers[i] \in RowType
      /\ outputIndexOfRingMembers'[n + 1]
            = [key |-> k, id |-> lastRingMemberId, from |-> "new"]
  <2>1. PICK n : n = Len(outputIndexOfRingMembers)
    OBVIOUS
  <2>2. QED
    BY <2>1, RowAdded DEF NewMember
<1>1. /\ main = "parse" /\ main' = main
      /\ ~exists(k) /\ bloomFilter' = bloomFilter \cup Bits[k]
      /\ lastRingMemberId' = lastRingMemberId + 1
  BY DEF NewMember
<1>2. \A i \in DOMAIN outputIndexOfRingMembers : /\ i \in DOMAIN outputIndexOfRingMembers'
                                                  /\ i # n + 1
                                                  /\ IsNew(i)' <=> IsNew(i)
  BY <1>0 DEF IsNew
<1>3. /\ n + 1 \in DOMAIN outputIndexOfRingMembers' /\ IsNew(n + 1)'
      /\ \A i \in DOMAIN outputIndexOfRingMembers' :
            i # n + 1 => i \in DOMAIN outputIndexOfRingMembers
  BY <1>0 DEF IsNew
<1>4. \A i \in DOMAIN outputIndexOfRingMembers :
          IsNew(i) => outputIndexOfRingMembers[i].key # k
  BY <1>1 DEF NewIsFiltered
<1>5. NewIsFiltered'
  BY <1>0, <1>1, <1>2, <1>3 DEF NewIsFiltered, exists
<1>6. GivenOnce'
  BY <1>0, <1>2, <1>3, <1>4 DEF GivenOnce
<1>7. IdsNotZero'
  BY <1>0, <1>1, <1>2, <1>3 DEF IdsNotZero
<1>8. \A j, id : Given(j, id) => j # k /\ Given(j, id)'
  BY <1>0, <1>2, <1>4 DEF Given
<1>9. \A id : id = lastRingMemberId => Given(k, id)'
  <2>1. /\ outputIndexOfRingMembers'[n + 1].key = k
        /\ outputIndexOfRingMembers'[n + 1].id = lastRingMemberId
    BY <1>0
  <2>2. QED
    BY <2>1, <1>3 DEF Given
<1>10. QED
  BY <1>0, <1>5, <1>6, <1>7, <1>8, <1>9

-----------------------------------------------------------------------------
(* The first key of the map.                                               *)

LEMMA MinIsElement ==
    ASSUME NEW S \in SUBSET Nat, S # {}
    PROVE  Min(S) \in S /\ \A x \in S : Min(S) <= x
<1>1. PICK x \in S : \A y \in S : ~(<<y, x>> \in OpToRel(<, Nat))
  BY WFMin, NatLessThanWellFounded
<1>2. \A y \in S : x <= y
  <2> SUFFICES ASSUME NEW y \in S PROVE ~(y < x)
    BY SMT
  <2>1. y < x => <<y, x>> \in OpToRel(<, Nat)
    BY DEF OpToRel
  <2>2. QED
    BY <1>1, <2>1
<1>3. QED
  BY <1>2 DEF Min

-----------------------------------------------------------------------------
(* The invariant.                                                          *)

LEMMA RingInit == Init => RingInv
<1> SUFFICES ASSUME Init PROVE RingInv
  OBVIOUS
<1> USE ConstantsOK DEF Init
<1>1. DOMAIN outputIndexOfRingMembers = {} /\ outputIndexOfRingMembers \in Seq(RowType)
  BY EmptySeq
<1>2. mixins \in Seq(Key)
  <2>1. PICK n \in 0 .. MaxMixins : mixins \in [1 .. n -> Key]
    OBVIOUS
  <2>2. QED
    BY <2>1, SeqDef
<1>3. DOMAIN rmHashIdVector = {} /\ DOMAIN ringMemberHashMap = {}
  BY DEF Empty
<1>4. IdsInv
  <2>1. TypeOK
    <3>1. /\ bloomFilter \subseteq Nat
          /\ lastRingMemberId \in Nat /\ savedRingMemberId \in Nat
          /\ crashes \in 0 .. MaxCrashes
      OBVIOUS
    <3>2. /\ DOMAIN rmHashIdVector \subseteq Key
          /\ DOMAIN ringMemberHashMap \subseteq Key
          /\ \A i \in DOMAIN outputIndexOfRingMembers :
                outputIndexOfRingMembers[i] \in
                    [key : Key, id : Nat, from : {"new", "memory", "database"}]
      BY <1>1, <1>3
    <3>3. rm = "insert" <=> held # <<>>
      OBVIOUS
    <3>4. QED
      BY <1>2, <3>1, <3>2, <3>3 DEF TypeOK
  <2>2. IdsConserved
    BY <1>1 DEF IdsConserved
  <2>3. QED
    BY <2>1, <2>2 DEF IdsInv
<1>5. MapsTyped /\ MapIsGiven /\ HeldIsGiven
  BY <1>3 DEF MapsTyped, MapIsGiven, HeldIsGiven, Empty
<1>6. NewIsFiltered /\ GivenOnce /\ IdsNotZero
  BY <1>1 DEF NewIsFiltered, GivenOnce, IdsNotZero
<1>7. QED
  BY <1>1, <1>4, <1>5, <1>6 DEF RingInv, RowsTyped, TakeFindsOne, OpenWhileParsed, LookupAfterMap

\* IdsConserved, said of keys and ids.
ConservedIds == open => \A k, id : Given(k, id) => Kept(k, id)

LEMMA ConservedByKey ==
    /\ IdsConserved <=> ConservedIds
    /\ IdsConserved' <=> ConservedIds'
<1>1. IdsConserved <=> ConservedIds
  BY DEF IdsConserved, ConservedIds, Given, Kept, Maps
<1>2. IdsConserved' <=> ConservedIds'
  BY DEF IdsConserved, ConservedIds, Given, Kept, Maps, IsNew
<1>3. QED
  BY <1>1, <1>2

\* What the ring member thread does to everything that is not its own.
LEMMA ThreadStep ==
    ASSUME RingInv, runRMIdHashMappingThread
    PROVE  /\ UNCHANGED <<mixins, savedRingMemberId, bloomFilter, lastRingMemberId,
                          outputIndexOfRingMembers, isAllBlockDone, open, main, crashes>>
           /\ (RowsTyped /\ NewIsFiltered /\ GivenOnce /\ IdsNotZero /\ OpenWhileParsed)'
           /\ \A k, id : Given(k, id)' <=> Given(k, id)
<1>1. UNCHANGED <<mixins, savedRingMemberId, bloomFilter, lastRingMemberId,
                  outputIndexOfRingMembers, isAllBlockDone, open, main, crashes>>
  BY DEF runRMIdHashMappingThread, Test, insertKey, insertKeyClosed, ExitEmpty, ExitFlag,
         TakeFirst, RMUnchanged
<1>2. (RowsTyped /\ NewIsFiltered /\ GivenOnce /\ IdsNotZero /\ OpenWhileParsed)'
  BY <1>1 DEF RingInv, RowsTyped, NewIsFiltered, GivenOnce, IdsNotZero, OpenWhileParsed, IsNew, exists
<1>3. \A k, id : Given(k, id)' <=> Given(k, id)
  BY <1>1 DEF Given, IsNew
<1>4. QED
  BY <1>1, <1>2, <1>3

\* The thread takes the first pair out of the map.
LEMMA TakeFirstStep ==
    ASSUME RingInv, NEW k \in Key, TakeFirst(k)
    PROVE  RingInv'
<1>0. /\ runRMIdHashMappingThread
      /\ RMUnchanged /\ UNCHANGED <<ringMemberHashMap, open, main, crashes>>
      /\ held' = <<k, rmHashIdVector[k]>> /\ rm = "take" /\ rm' = "insert"
      /\ rmHashIdVector' = Without(rmHashIdVector, k)
  BY DEF runRMIdHashMappingThread, TakeFirst
<1>1. k \in DOMAIN rmHashIdVector
  <2>1. DOMAIN rmHashIdVector \in SUBSET Nat /\ DOMAIN rmHashIdVector # {}
    BY <1>0, ConstantsOK DEF RingInv, IdsInv, TypeOK, TakeFindsOne
  <2>2. QED
    BY <2>1, MinIsElement DEF TakeFirst
<1>2. /\ DOMAIN rmHashIdVector' = DOMAIN rmHashIdVector \ {k}
      /\ \A j \in DOMAIN rmHashIdVector' : rmHashIdVector'[j] = rmHashIdVector[j]
      /\ rmHashIdVector' = [j \in DOMAIN rmHashIdVector' |-> rmHashIdVector'[j]]
  BY <1>0 DEF Without, Restrict
<1>3. held = <<>>
  BY <1>0 DEF RingInv, IdsInv, TypeOK
<1>4. TypeOK'
  BY <1>0, <1>2, ThreadStep DEF RingInv, IdsInv, TypeOK, RMUnchanged
<1>5. IdsConserved'
  <2>1. ASSUME open, NEW j, NEW id, Given(j, id)
        PROVE  Maps(rmHashIdVector', j, id) \/ held' = <<j, id>> \/ Maps(ringMemberHashMap, j, id)
    BY <2>1, <1>0, <1>1, <1>2, <1>3, ConservedByKey DEF RingInv, IdsInv, ConservedIds, Kept, Maps
  <2>2. QED
    BY <2>1, <1>0, ThreadStep, ConservedByKey DEF ConservedIds, Kept, Maps
<1>6. MapsTyped' /\ MapIsGiven' /\ HeldIsGiven'
  BY <1>0, <1>1, <1>2, ThreadStep DEF RingInv, MapsTyped, MapIsGiven, HeldIsGiven
<1>7. TakeFindsOne' /\ LookupAfterMap'
  BY <1>0, <1>2 DEF RingInv, TakeFindsOne, LookupAfterMap, AtMixin, NextMixin, RMUnchanged
<1>8. QED
  BY <1>0, <1>4, <1>5, <1>6, <1>7, ThreadStep DEF RingInv, IdsInv

\* The pair reaches the store.  It replaces no other id of this run: its key has only one.
LEMMA insertKeyStep ==
    ASSUME RingInv, insertKey
    PROVE  RingInv'
<1>0. /\ runRMIdHashMappingThread
      /\ RMUnchanged /\ UNCHANGED <<rmHashIdVector, open, main, crashes>>
      /\ ringMemberHashMap' = With(ringMemberHashMap, held[1], held[2])
      /\ rm = "insert" /\ rm' = "test" /\ held' = <<>>
  BY DEF runRMIdHashMappingThread, insertKey
<1>1. PICK i \in DOMAIN outputIndexOfRingMembers :
          /\ IsNew(i)
          /\ outputIndexOfRingMembers[i].key = held[1]
          /\ outputIndexOfRingMembers[i].id = held[2]
  BY <1>0 DEF RingInv, HeldIsGiven, Given
<1>2. held[1] \in Key /\ held[2] \in Nat /\ held = <<held[1], held[2]>>
  BY <1>0, <1>1 DEF RingInv, IdsInv, TypeOK, HeldIsGiven
<1>3. /\ DOMAIN ringMemberHashMap' = DOMAIN ringMemberHashMap \cup {held[1]}
      /\ \A j \in DOMAIN ringMemberHashMap' :
            ringMemberHashMap'[j] = IF j = held[1] THEN held[2] ELSE ringMemberHashMap[j]
  BY <1>0 DEF With
<1>4. TypeOK'
  BY <1>0, <1>2, <1>3, ThreadStep DEF RingInv, IdsInv, TypeOK
<1>5. \A j, id : Given(j, id) /\ j = held[1] => id = held[2]
  BY <1>1 DEF RingInv, GivenOnce, Given
<1>6. IdsConserved'
  <2>1. ASSUME open, NEW j, NEW id, Given(j, id)
        PROVE  Maps(rmHashIdVector, j, id) \/ Maps(ringMemberHashMap', j, id)
    <3>1. CASE j = held[1]
      BY <2>1, <3>1, <1>3, <1>5 DEF Maps
    <3>2. CASE j # held[1]
      <4>1. held # <<j, id>>
        BY <3>2, <1>2
      <4>2. QED
        BY <2>1, <3>2, <4>1, <1>3, ConservedByKey DEF RingInv, IdsInv, ConservedIds, Kept, Maps
    <3>3. QED
      BY <3>1, <3>2
  <2>2. QED
    BY <2>1, <1>0, ThreadStep, ConservedByKey DEF ConservedIds, Kept, Maps
<1>7. MapsTyped' /\ MapIsGiven' /\ HeldIsGiven' /\ TakeFindsOne' /\ LookupAfterMap'
  BY <1>0, <1>2, <1>3, ThreadStep
     DEF RingInv, MapsTyped, MapIsGiven, HeldIsGiven, TakeFindsOne, LookupAfterMap, AtMixin,
         NextMixin, RMUnchanged
<1>8. QED
  BY <1>4, <1>6, <1>7, <1>0, ThreadStep DEF RingInv, IdsInv

\* The steps of the thread that move no pair, or lose it to a closed store.
LEMMA ThreadMoves ==
    ASSUME RingInv, Test \/ insertKeyClosed \/ ExitEmpty \/ ExitFlag
    PROVE  RingInv'
<1>0. /\ runRMIdHashMappingThread
      /\ RMUnchanged /\ UNCHANGED <<ringMemberHashMap, rmHashIdVector, open, main, crashes>>
      /\ UNCHANGED held \/ (held' = <<>> /\ ~open)
      /\ rm' \in {"test", "take", "exit", "exitFlag", "stopped"}
      /\ rm' = "take" => rmHashIdVector # Empty
  BY DEF runRMIdHashMappingThread, Test, insertKeyClosed, ExitEmpty, ExitFlag
<1>1. held' = <<>>
  BY DEF RingInv, IdsInv, TypeOK, Test, insertKeyClosed, ExitEmpty, ExitFlag
<1>2. TypeOK'
  BY <1>0, <1>1, ThreadStep DEF RingInv, IdsInv, TypeOK
<1>3. IdsConserved'
  BY <1>0, ThreadStep, ConservedByKey DEF RingInv, IdsInv, ConservedIds, Kept, Maps
<1>4. MapsTyped' /\ MapIsGiven' /\ HeldIsGiven' /\ LookupAfterMap'
  BY <1>0, ThreadStep
     DEF RingInv, MapsTyped, MapIsGiven, HeldIsGiven, LookupAfterMap, AtMixin, NextMixin, RMUnchanged
<1>5. TakeFindsOne'
  <2>1. DOMAIN rmHashIdVector = {} => rmHashIdVector = Empty
    BY DEF RingInv, MapsTyped, Empty
  <2>2. QED
    BY <2>1, <1>0 DEF TakeFindsOne
<1>6. QED
  BY <1>2, <1>3, <1>4, <1>5, <1>0, ThreadStep DEF RingInv, IdsInv

LEMMA NewMemberStep ==
    ASSUME RingInv, NEW k \in Key, NewMember(k)
    PROVE  RingInv'
<1>0. /\ main = "parse" /\ UNCHANGED <<disk, thread, open, isAllBlockDone, main, crashes>>
      /\ rmHashIdVector' = With(rmHashIdVector, k, lastRingMemberId)
      /\ lastRingMemberId' = lastRingMemberId + 1
      /\ bloomFilter' = bloomFilter \cup Bits[k]
  BY DEF NewMember
<1>1. /\ RowsTyped' /\ NewIsFiltered' /\ GivenOnce' /\ IdsNotZero'
      /\ \A j, n : Given(j, n) => j # k /\ Given(j, n)'
      /\ \A id : id = lastRingMemberId => Given(k, id)'
  BY NewRow, ConstantsOK DEF RingInv, IdsInv, TypeOK
<1>2. /\ DOMAIN rmHashIdVector' = DOMAIN rmHashIdVector \cup {k}
      /\ \A j \in DOMAIN rmHashIdVector' :
            rmHashIdVector'[j] = IF j = k THEN lastRingMemberId ELSE rmHashIdVector[j]
      /\ rmHashIdVector' = [j \in DOMAIN rmHashIdVector' |-> rmHashIdVector'[j]]
  BY <1>0 DEF With
<1>3. \A j, id : Given(j, id)' => Given(j, id) \/ (j = k /\ id = lastRingMemberId)
  <2>1. PICK n :
          /\ DOMAIN outputIndexOfRingMembers = 1 .. n /\ n \in Nat
          /\ DOMAIN outputIndexOfRingMembers' = 1 .. n + 1
          /\ \A i \in 1 .. n : outputIndexOfRingMembers'[i] = outputIndexOfRingMembers[i]
          /\ outputIndexOfRingMembers'[n + 1]
                = [key |-> k, id |-> lastRingMemberId, from |-> "new"]
    <3>1. PICK n : n = Len(outputIndexOfRingMembers)
      OBVIOUS
    <3>2. QED
      BY <3>1, RowAdded DEF NewMember, RingInv, IdsInv, TypeOK
  <2>2. QED
    BY <2>1 DEF Given, IsNew
<1>4. TypeOK'
  <2>1. bloomFilter' \subseteq Nat
    BY <1>0, ConstantsOK DEF RingInv, IdsInv, TypeOK
  <2>2. \A i \in DOMAIN outputIndexOfRingMembers' :
            outputIndexOfRingMembers'[i] \in
                [key : Key, id : Nat, from : {"new", "memory", "database"}]
    BY <1>1, ElementsHaveType DEF RowsTyped
  <2>3. QED
    BY <2>1, <2>2, <1>0, <1>2 DEF RingInv, IdsInv, TypeOK, disk, thread
<1>5. IdsConserved'
  <2>1. ASSUME open, NEW j, NEW id, Given(j, id)'
        PROVE  Maps(rmHashIdVector', j, id) \/ held = <<j, id>> \/ Maps(ringMemberHashMap, j, id)
    <3>1. CASE Given(j, id)
      BY <2>1, <3>1, <1>1, <1>2, ConservedByKey DEF RingInv, IdsInv, ConservedIds, Kept, Maps
    <3>2. CASE j = k /\ id = lastRingMemberId
      BY <3>2, <1>2 DEF Maps
    <3>3. QED
      BY <3>1, <3>2, <2>1, <1>3
  <2>2. QED
    BY <2>1, <1>0, ConservedByKey DEF ConservedIds, Kept, Maps, disk, thread
<1>6. MapsTyped' /\ HeldIsGiven' /\ TakeFindsOne' /\ OpenWhileParsed' /\ LookupAfterMap'
  BY <1>0, <1>1, <1>2 DEF RingInv, MapsTyped, HeldIsGiven, TakeFindsOne, OpenWhileParsed,
                          LookupAfterMap, disk, thread
<1>7. MapIsGiven'
  BY <1>1, <1>2 DEF RingInv, MapIsGiven
<1>8. QED
  BY <1>1, <1>4, <1>5, <1>6, <1>7 DEF RingInv, IdsInv

\* A row with an id that was looked up, from the map or from the store.
LEMMA LookedUpStep ==
    ASSUME RingInv, NEW k \in Key, NEW id \in Nat, NEW from \in {"memory", "database"},
           Row(k, id, from), main \in {"parse", "lookup"}, main' = "parse",
           UNCHANGED <<disk, thread, bloomFilter, rmHashIdVector, open,
                       lastRingMemberId, isAllBlockDone, crashes>>
    PROVE  RingInv'
<1>1. /\ RowsTyped' /\ NewIsFiltered' /\ GivenOnce' /\ IdsNotZero'
      /\ \A j, n : Given(j, n)' <=> Given(j, n)
  BY LookedUpRow, RowAdded DEF RingInv
<1>2. TypeOK'
  <2>1. \A i \in DOMAIN outputIndexOfRingMembers' :
            outputIndexOfRingMembers'[i] \in
                [key : Key, id : Nat, from : {"new", "memory", "database"}]
    BY <1>1, ElementsHaveType DEF RowsTyped
  <2>2. QED
    BY <2>1 DEF RingInv, IdsInv, TypeOK, disk, thread
<1>3. IdsConserved'
  BY <1>1, ConservedByKey DEF RingInv, IdsInv, ConservedIds, Kept, Maps, disk, thread
<1>4. /\ MapsTyped' /\ MapIsGiven' /\ HeldIsGiven' /\ TakeFindsOne' /\ OpenWhileParsed'
      /\ LookupAfterMap'
  BY <1>1 DEF RingInv, MapsTyped, MapIsGiven, HeldIsGiven, TakeFindsOne, OpenWhileParsed,
              LookupAfterMap, disk, thread
<1>5. QED
  BY <1>1, <1>2, <1>3, <1>4 DEF RingInv, IdsInv

\* The map gives the id, or 0 when it does not have the key, or garbage behind its end.
LEMMA FindInMemoryStep ==
    ASSUME RingInv, NEW k \in Key, FindInMemory(k)
    PROVE  RingInv'
<1>1. nowIds(k) \subseteq Nat
  <2>1. k \in DOMAIN rmHashIdVector => rmHashIdVector[k] \in Nat
    BY DEF RingInv, IdsInv, TypeOK, MapIsGiven, Given
  <2>2. QED
    BY <2>1, ConstantsOK DEF nowIds
<1>2. CASE \E nowId \in nowIds(k) : Row(k, nowId, "memory") /\ main' = "parse"
  BY <1>1, <1>2, LookedUpStep DEF FindInMemory
<1>3. CASE main' = "lookup" /\ UNCHANGED outputIndexOfRingMembers /\ 0 \in nowIds(k)
  <2>0. /\ main = "parse" /\ AtMixin(k)
        /\ UNCHANGED <<disk, thread, bloomFilter, rmHashIdVector, open, outputIndexOfRingMembers,
                       lastRingMemberId, isAllBlockDone, crashes>>
    BY <1>3 DEF FindInMemory
  <2>1. k \notin DOMAIN rmHashIdVector
    BY <1>3 DEF RingInv, IdsNotZero, MapIsGiven, Given, nowIds
  <2>2. LookupAfterMap'
    BY <2>0, <2>1 DEF LookupAfterMap, AtMixin, NextMixin, disk
  <2>3. \A j, n : Given(j, n)' <=> Given(j, n)
    BY <2>0 DEF Given, IsNew
  <2>4. TypeOK'
    BY <2>0, <1>3 DEF RingInv, IdsInv, TypeOK, disk, thread
  <2>5. IdsConserved'
    BY <2>0, <2>3, ConservedByKey DEF RingInv, IdsInv, ConservedIds, Kept, Maps, disk, thread
  <2>6. RowsTyped' /\ NewIsFiltered' /\ GivenOnce' /\ IdsNotZero'
    BY <2>0, <1>3 DEF RingInv, RowsTyped, NewIsFiltered, GivenOnce, IdsNotZero, IsNew, exists
  <2>7. MapsTyped' /\ MapIsGiven' /\ HeldIsGiven' /\ TakeFindsOne' /\ OpenWhileParsed'
    BY <2>0, <2>3, <1>3 DEF RingInv, MapsTyped, MapIsGiven, HeldIsGiven, TakeFindsOne,
                            OpenWhileParsed, disk, thread
  <2>8. QED
    BY <2>2, <2>4, <2>5, <2>6, <2>7 DEF RingInv, IdsInv
<1>4. QED
  BY <1>2, <1>3 DEF FindInMemory

LEMMA LookupInDatabaseStep ==
    ASSUME RingInv, NEW k \in Key, LookupInDatabase(k)
    PROVE  RingInv'
<1>1. CASE k \in DOMAIN ringMemberHashMap
  <2>1. ringMemberHashMap[k] \in Nat
    BY <1>1 DEF RingInv, MapsTyped
  <2>2. QED
    BY <2>1, <1>1, LookedUpStep DEF LookupInDatabase
<1>2. CASE k \notin DOMAIN ringMemberHashMap
  <2>1. lastRingMemberId \in Nat
    BY DEF RingInv, IdsInv, TypeOK
  <2>2. QED
    BY <2>1, <1>2, LookedUpStep DEF LookupInDatabase
<1>3. QED
  BY <1>1, <1>2

\* The steps of the main thread around the parsing.
LEMMA MainStep ==
    ASSUME RingInv, getLastIdList \/ storeLastIdList \/ Close \/ SetAllBlockDone \/ Joined
    PROVE  RingInv'
<1>0. /\ UNCHANGED <<mixins, ringMemberHashMap, thread, bloomFilter, rmHashIdVector,
                     outputIndexOfRingMembers, crashes>>
      /\ UNCHANGED open \/ (main = "close" /\ open' = FALSE)
      /\ main' \in {"parse", "close", "flag", "join", "done"}
      /\ main' \in {"parse", "close"} => main \in {"start", "parse"} /\ UNCHANGED open
      /\ lastRingMemberId' \in Nat \ {0} /\ savedRingMemberId' \in Nat
      /\ isAllBlockDone' \in BOOLEAN
  <2>1. /\ lastRingMemberId \in Nat /\ savedRingMemberId \in Nat /\ isAllBlockDone \in BOOLEAN
        /\ main # "start" => lastRingMemberId > 0
    BY DEF RingInv, IdsInv, TypeOK, IdsNotZero
  <2>2. CASE getLastIdList
    BY <2>1, <2>2 DEF getLastIdList, disk
  <2>3. CASE storeLastIdList
    BY <2>1, <2>3 DEF storeLastIdList
  <2>4. CASE Close
    BY <2>1, <2>4 DEF Close, disk
  <2>5. CASE SetAllBlockDone
    BY <2>1, <2>5 DEF SetAllBlockDone, disk
  <2>6. CASE Joined
    BY <2>1, <2>6 DEF Joined, disk
  <2>7. QED
    BY <2>2, <2>3, <2>4, <2>5, <2>6
<1>1. \A j, n : Given(j, n)' <=> Given(j, n)
  BY <1>0 DEF Given, IsNew
<1>2. TypeOK'
  BY <1>0 DEF RingInv, IdsInv, TypeOK, thread
<1>3. IdsConserved'
  BY <1>0, <1>1, ConservedByKey DEF RingInv, IdsInv, ConservedIds, Kept, Maps, thread
<1>4. RowsTyped' /\ NewIsFiltered' /\ GivenOnce' /\ IdsNotZero'
  BY <1>0 DEF RingInv, RowsTyped, NewIsFiltered, GivenOnce, IdsNotZero, IsNew, exists
<1>5. /\ MapsTyped' /\ MapIsGiven' /\ HeldIsGiven' /\ TakeFindsOne' /\ OpenWhileParsed'
      /\ LookupAfterMap'
  BY <1>0, <1>1 DEF RingInv, MapsTyped, MapIsGiven, HeldIsGiven, TakeFindsOne, OpenWhileParsed,
                    LookupAfterMap, thread
<1>6. QED
  BY <1>2, <1>3, <1>4, <1>5 DEF RingInv, IdsInv

\* A new process begins with an empty filter, an empty map and no rows.
LEMMA CrashStep ==
    ASSUME RingInv, Crash
    PROVE  RingInv'
<1>0. /\ UNCHANGED <<disk, lastRingMemberId>> /\ FreshProcess
      /\ crashes' = crashes + 1 /\ crashes < MaxCrashes
  BY DEF Crash
<1>1. DOMAIN outputIndexOfRingMembers' = {} /\ outputIndexOfRingMembers' \in Seq(RowType)
  BY <1>0, EmptySeq DEF FreshProcess
<1>2. DOMAIN rmHashIdVector' = {}
  BY <1>0 DEF FreshProcess, Empty
<1>3. TypeOK'
  <2>1. crashes' \in 0 .. MaxCrashes
    BY <1>0, ConstantsOK DEF RingInv, IdsInv, TypeOK
  <2>2. rm' = "insert" <=> held' # <<>>
    BY <1>0 DEF FreshProcess
  <2>3. /\ DOMAIN rmHashIdVector' \subseteq Key
        /\ \A i \in DOMAIN outputIndexOfRingMembers' :
              outputIndexOfRingMembers'[i] \in
                  [key : Key, id : Nat, from : {"new", "memory", "database"}]
    BY <1>1, <1>2
  <2>4. QED
    BY <2>1, <2>2, <2>3, <1>0 DEF RingInv, IdsInv, TypeOK, disk, FreshProcess
<1>4. IdsConserved'
  BY <1>1 DEF IdsConserved
<1>5. MapsTyped' /\ MapIsGiven' /\ HeldIsGiven'
  BY <1>0, <1>2 DEF RingInv, MapsTyped, MapIsGiven, HeldIsGiven, FreshProcess, Empty, disk
<1>6. NewIsFiltered' /\ GivenOnce' /\ IdsNotZero'
  BY <1>0, <1>1 DEF NewIsFiltered, GivenOnce, IdsNotZero, FreshProcess
<1>7. TakeFindsOne' /\ OpenWhileParsed' /\ LookupAfterMap'
  BY <1>0 DEF TakeFindsOne, OpenWhileParsed, LookupAfterMap, FreshProcess
<1>8. QED
  BY <1>1, <1>3, <1>4, <1>5, <1>6, <1>7 DEF RingInv, IdsInv, RowsTyped

LEMMA RingUnchanged ==
    ASSUME RingInv, UNCHANGED vars
    PROVE  RingInv'
<1>1. \A j, n : Given(j, n)' <=> Given(j, n)
  BY DEF Given, IsNew, vars, parser
<1>2. TypeOK' /\ IdsConserved'
  <2>1. TypeOK'
    BY DEF RingInv, IdsInv, TypeOK, vars, parser, disk, thread
  <2>2. IdsConserved'
    BY <1>1, ConservedByKey DEF RingInv, IdsInv, ConservedIds, Kept, Maps, vars, disk, thread
  <2>3. QED
    BY <2>1, <2>2
<1>3. RowsTyped' /\ NewIsFiltered' /\ GivenOnce' /\ IdsNotZero'
  BY DEF RingInv, RowsTyped, NewIsFiltered, GivenOnce, IdsNotZero, IsNew, exists, vars, parser
<1>4. /\ MapsTyped' /\ MapIsGiven' /\ HeldIsGiven' /\ TakeFindsOne' /\ OpenWhileParsed'
      /\ LookupAfterMap'
  BY <1>1 DEF RingInv, MapsTyped, MapIsGiven, HeldIsGiven, TakeFindsOne, OpenWhileParsed,
              LookupAfterMap, AtMixin, NextMixin, vars, parser, disk, thread
<1>5. QED
  BY <1>2, <1>3, <1>4 DEF RingInv, IdsInv

LEMMA RingInvariant == Spec => []RingInv
<1>1. RingInv /\ [Next]_vars => RingInv'
  <2> SUFFICES ASSUME RingInv, [Next]_vars PROVE RingInv'
    OBVIOUS
  <2>1. CASE Parse
    BY <2>1, MainStep, NewMemberStep, FindInMemoryStep, LookupInDatabaseStep DEF Parse
  <2>2. CASE runRMIdHashMappingThread
    BY <2>2, ThreadMoves, insertKeyStep, TakeFirstStep DEF runRMIdHashMappingThread
  <2>3. CASE Crash
    BY <2>3, CrashStep
  <2>4. CASE Joined
    BY <2>4, MainStep
  <2>5. CASE UNCHANGED vars
    BY <2>5, RingUnchanged
  <2>6. QED
    BY <2>1, <2>2, <2>3, <2>4, <2>5 DEF Next, Ended
<1>2. QED
  BY <1>1, RingInit, PTL DEF Spec

\* No id is lost or replaced on its way from the map to the store, and the types
\* (parser.h:442-449, 1060-1069).
THEOREM IdsReachTheStore == Spec => []IdsInv
<1>1. RingInv => IdsInv
  BY DEF RingInv
<1>2. QED
  BY <1>1, RingInvariant, PTL

\* A key of the filter that the lookup in the database misses is a false positive, or it is
\* the one that the thread has taken out of the map (parser.h:432-438): a key that was in
\* the map when it was looked for there gave an id other than 0.
THEOREM MissesAreExplained == Spec => []MissesExplained
<1>1. RingInv => MissesExplained
  <2> SUFFICES ASSUME RingInv, NEW k \in Key, main = "lookup", AtMixin(k),
                      k \notin DOMAIN ringMemberHashMap, Added(k)
               PROVE  rm = "insert" /\ held[1] = k
    BY DEF MissesExplained
  <2>1. PICK id : Given(k, id)
    BY DEF Added, RowsOf, Given
  <2>2. open /\ k \notin DOMAIN rmHashIdVector
    BY DEF RingInv, OpenWhileParsed, LookupAfterMap
  <2>3. held = <<k, id>>
    BY <2>1, <2>2, ConservedByKey DEF RingInv, IdsInv, ConservedIds, Kept, Maps
  <2>4. rm = "insert"
    BY <2>3 DEF RingInv, IdsInv, TypeOK
  <2>5. QED
    BY <2>3, <2>4
<1>2. QED
  BY <1>1, RingInvariant, PTL

-----------------------------------------------------------------------------
(* The counter and the keys.                                               *)

AllKeys == {outputIndexOfRingMembers[i].key : i \in DOMAIN outputIndexOfRingMembers}
NewKeys == {outputIndexOfRingMembers[i].key :
               i \in {j \in DOMAIN outputIndexOfRingMembers : IsNew(j)}}

\* In the first process the counter is one more than the keys that have drawn an id.
CountInv ==
    /\ IsFiniteSet(AllKeys)
    /\ crashes = 0 /\ main = "start" => savedRingMemberId = 0 /\ AllKeys = {}
    /\ crashes = 0 /\ main # "start" => lastRingMemberId - 1 = Cardinality(NewKeys)

LEMMA KeysWithRow ==
    ASSUME RowsTyped, NEW k \in Key, NEW id \in Nat,
           NEW from \in {"new", "memory", "database"}, Row(k, id, from)
    PROVE  /\ AllKeys' = AllKeys \cup {k}
           /\ NewKeys' = IF from = "new" THEN NewKeys \cup {k} ELSE NewKeys
<1>1. PICK n :
          /\ n \in Nat
          /\ DOMAIN outputIndexOfRingMembers = 1 .. n
          /\ DOMAIN outputIndexOfRingMembers' = 1 .. n + 1
          /\ \A i \in DOMAIN outputIndexOfRingMembers :
                outputIndexOfRingMembers'[i] = outputIndexOfRingMembers[i]
          /\ outputIndexOfRingMembers'[n + 1] = [key |-> k, id |-> id, from |-> from]
  <2>1. PICK n : n = Len(outputIndexOfRingMembers)
    OBVIOUS
  <2>2. QED
    BY <2>1, RowAdded
<1>2. AllKeys' = AllKeys \cup {k}
  BY <1>1 DEF AllKeys
<1>3. NewKeys' = IF from = "new" THEN NewKeys \cup {k} ELSE NewKeys
  BY <1>1 DEF NewKeys, IsNew
<1>4. QED
  BY <1>2, <1>3

LEMMA CountStep ==
    ASSUME RingInv, CountInv, [Next]_vars
    PROVE  CountInv'
<1>0. crashes \in Nat /\ lastRingMemberId \in Nat /\ RowsTyped
  BY ConstantsOK DEF RingInv, IdsInv, TypeOK
<1>1. CASE /\ UNCHANGED <<outputIndexOfRingMembers, crashes>>
           /\ (main = "start" <=> main' = "start")
           /\ lastRingMemberId' = lastRingMemberId
           /\ main = "start" => UNCHANGED savedRingMemberId
  BY <1>1 DEF CountInv, AllKeys, NewKeys, IsNew
<1>2. CASE getLastIdList
  <2>1. NewKeys' = {} \/ crashes # 0
    BY <1>2 DEF getLastIdList, CountInv, NewKeys, AllKeys, IsNew
  <2>2. QED
    BY <1>2, <2>1, FS_EmptySet DEF getLastIdList, CountInv, AllKeys
<1>3. ASSUME NEW k \in Key, NewMember(k)
      PROVE  CountInv'
  <2>1. AllKeys' = AllKeys \cup {k} /\ NewKeys' = NewKeys \cup {k}
    BY <1>0, <1>3, KeysWithRow DEF NewMember
  <2>2. k \notin NewKeys
    BY <1>3 DEF NewKeys, NewMember, RingInv, NewIsFiltered
  <2>3. IsFiniteSet(NewKeys)
    <3>1. NewKeys \in SUBSET AllKeys
      BY DEF NewKeys, AllKeys
    <3>2. QED
      BY <3>1, FS_Subset DEF CountInv
  <2>4. IsFiniteSet(AllKeys') /\ Cardinality(NewKeys') = Cardinality(NewKeys) + 1
    BY <2>1, <2>2, <2>3, FS_AddElement DEF CountInv
  <2>5. Cardinality(NewKeys) \in Nat
    BY <2>3, FS_CardinalityType
  <2>6. QED
    BY <2>4, <2>5, <1>0, <1>3 DEF CountInv, NewMember
<1>4. ASSUME NEW k \in Key, NEW id \in Nat, NEW from \in {"memory", "database"}, Row(k, id, from),
             main # "start", main' # "start", UNCHANGED <<lastRingMemberId, crashes>>
      PROVE  CountInv'
  <2>1. AllKeys' = AllKeys \cup {k} /\ NewKeys' = NewKeys
    BY <1>0, <1>4, KeysWithRow
  <2>2. IsFiniteSet(AllKeys')
    BY <2>1, FS_AddElement DEF CountInv
  <2>3. QED
    BY <2>1, <2>2, <1>4 DEF CountInv
<1>5. ASSUME NEW k \in Key, FindInMemory(k)
      PROVE  CountInv'
  <2>1. nowIds(k) \subseteq Nat
    <3>1. k \in DOMAIN rmHashIdVector => rmHashIdVector[k] \in Nat
      BY DEF RingInv, IdsInv, TypeOK, MapIsGiven, Given
    <3>2. QED
      BY <3>1, ConstantsOK DEF nowIds
  <2>2. QED
    BY <2>1, <1>5, <1>1, <1>4 DEF FindInMemory
<1>6. ASSUME NEW k \in Key, LookupInDatabase(k)
      PROVE  CountInv'
  <2>1. \E id \in Nat : Row(k, id, "database")
    BY <1>0, <1>6 DEF LookupInDatabase, RingInv, MapsTyped
  <2>2. QED
    BY <2>1, <1>6, <1>4 DEF LookupInDatabase
<1>7. CASE Crash
  <2>1. crashes' # 0
    BY <1>0, <1>7 DEF Crash
  <2>2. AllKeys' = {}
    BY <1>7 DEF Crash, FreshProcess, AllKeys
  <2>3. QED
    BY <2>1, <2>2, FS_EmptySet DEF CountInv
<1>8. CASE storeLastIdList \/ Close \/ SetAllBlockDone \/ Joined
  BY <1>8, <1>1 DEF storeLastIdList, Close, SetAllBlockDone, Joined
<1>9. CASE runRMIdHashMappingThread
  BY <1>9, <1>1, ThreadStep
<1>10. CASE UNCHANGED vars
  BY <1>10, <1>1 DEF vars, parser, disk
<1>11. QED
  BY <1>2, <1>3, <1>5, <1>6, <1>7, <1>8, <1>9, <1>10 DEF Next, Parse, Ended

\* In one process a key draws an id from the counter at most once, so that the ids given
\* out are never more than the keys seen (parser.h:419-449).
THEOREM CounterNeverOvercounts == Spec => []NeverOvercounts
<1>1. Init => CountInv
  <2> SUFFICES ASSUME Init PROVE CountInv
    OBVIOUS
  <2>1. AllKeys = {}
    BY DEF Init, AllKeys
  <2>2. QED
    BY <2>1, FS_EmptySet DEF Init, CountInv
<1>2. RingInv /\ CountInv /\ [Next]_vars => CountInv'
  BY CountStep
<1>3. RingInv /\ CountInv => NeverOvercounts
  <2> SUFFICES ASSUME RingInv, CountInv, crashes = 0, main # "start"
               PROVE  lastRingMemberId - 1 <= Cardinality(AllKeys)
    BY DEF NeverOvercounts, AllKeys
  <2>1. NewKeys \in SUBSET AllKeys /\ IsFiniteSet(AllKeys)
    BY DEF NewKeys, AllKeys, CountInv
  <2>2. Cardinality(NewKeys) <= Cardinality(AllKeys)
    BY <2>1, FS_Subset
  <2>3. QED
    BY <2>2 DEF CountInv
<1>4. QED
  BY <1>1, <1>2, <1>3, RingInvariant, PTL DEF Spec

\* Both at once, as the run checks them (parser.h:419-449).
THEOREM LookupsAreExplained == Spec => []LookupsExplained
BY MissesAreExplained, CounterNeverOvercounts, PTL DEF LookupsExplained

-----------------------------------------------------------------------------
(* RingMembers implements IdPromise.                                       *)

(* What RingInv does not say: the ids of this process are below the counter, which moves on
   with each of them, so that the next id is nobody's; and a pair that the thread holds
   has left the map, so that it is stored once. *)
PairInv ==
    /\ main = "start" => DOMAIN outputIndexOfRingMembers = {}
    /\ \A k, id : Given(k, id) => id < lastRingMemberId
    /\ rm = "insert" => held[1] \notin DOMAIN rmHashIdVector

\* The id that a new member gets is the only thing given.
LEMMA NewIsGiven ==
    ASSUME RingInv, NEW k \in Key, NewMember(k)
    PROVE  /\ \A j, id : Given(j, id)' <=> Given(j, id) \/ (j = k /\ id = lastRingMemberId)
           /\ \A j, id : Given(j, id) => j # k
<1>1. /\ \A j, n : Given(j, n) => j # k /\ Given(j, n)'
      /\ \A id : id = lastRingMemberId => Given(k, id)'
  BY NewRow, ConstantsOK DEF RingInv, IdsInv, TypeOK
<1>2. \A j, id : Given(j, id)' => Given(j, id) \/ (j = k /\ id = lastRingMemberId)
  <2>1. PICK n :
          /\ DOMAIN outputIndexOfRingMembers = 1 .. n /\ n \in Nat
          /\ DOMAIN outputIndexOfRingMembers' = 1 .. n + 1
          /\ \A i \in 1 .. n : outputIndexOfRingMembers'[i] = outputIndexOfRingMembers[i]
          /\ outputIndexOfRingMembers'[n + 1]
                = [key |-> k, id |-> lastRingMemberId, from |-> "new"]
    <3>1. PICK n : n = Len(outputIndexOfRingMembers)
      OBVIOUS
    <3>2. QED
      BY <3>1, RowAdded DEF NewMember, RingInv, IdsInv, TypeOK
  <2>2. QED
    BY <2>1 DEF Given, IsNew
<1>3. QED
  BY <1>1, <1>2

\* A lookup, which may make a row, gives nothing.
LEMMA LookupGivesNothing ==
    ASSUME RingInv, NEW k \in Key, FindInMemory(k) \/ LookupInDatabase(k)
    PROVE  /\ \A j, id : Given(j, id)' <=> Given(j, id)
           /\ main # "start" /\ main' # "start"
           /\ UNCHANGED <<ringMemberHashMap, rmHashIdVector, open, lastRingMemberId, rm, held>>
<1>1. /\ main # "start" /\ main' # "start"
      /\ UNCHANGED <<ringMemberHashMap, rmHashIdVector, open, lastRingMemberId, rm, held, bloomFilter>>
  BY DEF FindInMemory, LookupInDatabase, disk, thread
<1>2. CASE UNCHANGED outputIndexOfRingMembers
  BY <1>1, <1>2 DEF Given, IsNew
<1>3. CASE \E id \in Nat, from \in {"memory", "database"} : Row(k, id, from)
  BY <1>1, <1>3, LookedUpRow DEF RingInv
<1>4. CASE FindInMemory(k)
  <2>1. nowIds(k) \subseteq Nat
    <3>1. k \in DOMAIN rmHashIdVector => rmHashIdVector[k] \in Nat
      BY DEF RingInv, IdsInv, TypeOK, MapIsGiven, Given
    <3>2. QED
      BY <3>1, ConstantsOK DEF nowIds
  <2>2. QED
    BY <1>1, <1>2, <1>3, <1>4, <2>1 DEF FindInMemory
<1>5. CASE LookupInDatabase(k)
  <2>1. /\ lastRingMemberId \in Nat
        /\ k \in DOMAIN ringMemberHashMap => ringMemberHashMap[k] \in Nat
    BY DEF RingInv, MapsTyped, IdsInv, TypeOK
  <2>2. QED
    BY <1>1, <1>3, <1>5, <2>1 DEF LookupInDatabase
<1>6. QED
  BY <1>4, <1>5

\* The steps of the main thread that give nothing and move nothing.
MainMoves == getLastIdList \/ storeLastIdList \/ Close \/ SetAllBlockDone \/ Joined

LEMMA MainGivesNothing ==
    ASSUME MainMoves
    PROVE  /\ \A j, id : Given(j, id)' <=> Given(j, id)
           /\ main' # "start"
           /\ UNCHANGED <<ringMemberHashMap, rmHashIdVector, outputIndexOfRingMembers, rm, held>>
           /\ main # "start" => UNCHANGED lastRingMemberId
           /\ UNCHANGED open \/ Close
<1>1. /\ main' # "start"
      /\ UNCHANGED <<ringMemberHashMap, rmHashIdVector, outputIndexOfRingMembers, rm, held>>
      /\ main # "start" => UNCHANGED lastRingMemberId
      /\ UNCHANGED open \/ Close
  BY DEF MainMoves, getLastIdList, storeLastIdList, Close, SetAllBlockDone, Joined, disk, thread
<1>2. QED
  BY <1>1 DEF Given, IsNew

LEMMA PairStep ==
    ASSUME RingInv, PairInv, [Next]_vars
    PROVE  PairInv'
<1>0. lastRingMemberId \in Nat
  BY DEF RingInv, IdsInv, TypeOK
<1>1. ASSUME NEW k \in Key, NewMember(k)
      PROVE  PairInv'
  <2>1. /\ main # "start" /\ main' # "start" /\ UNCHANGED <<rm, held>>
        /\ lastRingMemberId' = lastRingMemberId + 1
        /\ rmHashIdVector' = With(rmHashIdVector, k, lastRingMemberId)
    BY <1>1 DEF NewMember, thread
  <2>2. \A j, id : Given(j, id)' => id < lastRingMemberId'
    <3>1. \A j, id : Given(j, id) => id \in Nat
      BY DEF RingInv, IdsInv, TypeOK, Given
    <3>2. QED
      BY <1>0, <1>1, <2>1, <3>1, NewIsGiven DEF PairInv
  <2>3. rm = "insert" => held[1] # k
    BY <1>1, NewIsGiven DEF RingInv, HeldIsGiven
  <2>4. QED
    BY <2>1, <2>2, <2>3 DEF PairInv, With
<1>2. ASSUME NEW k \in Key, FindInMemory(k) \/ LookupInDatabase(k)
      PROVE  PairInv'
  BY <1>2, LookupGivesNothing DEF PairInv
<1>3. CASE MainMoves
  <2>1. main = "start" => \A j, id : ~Given(j, id)
    BY DEF PairInv, Given
  <2>2. QED
    BY <1>3, <2>1, MainGivesNothing DEF PairInv
<1>4. ASSUME NEW k \in Key, TakeFirst(k)
      PROVE  PairInv'
  <2>1. held' = <<k, rmHashIdVector[k]>> /\ rmHashIdVector' = Without(rmHashIdVector, k)
    BY <1>4 DEF TakeFirst
  <2>2. held'[1] = k /\ k \notin DOMAIN rmHashIdVector'
    BY <2>1 DEF Without, Restrict
  <2>3. runRMIdHashMappingThread
    BY <1>4 DEF runRMIdHashMappingThread
  <2>4. QED
    BY <2>2, <2>3, ThreadStep DEF PairInv
<1>5. CASE Test \/ insertKey \/ insertKeyClosed \/ ExitEmpty \/ ExitFlag
  <2>1. rm' # "insert"
    BY <1>5 DEF Test, insertKey, insertKeyClosed, ExitEmpty, ExitFlag
  <2>2. runRMIdHashMappingThread
    BY <1>5 DEF runRMIdHashMappingThread
  <2>3. QED
    BY <2>1, <2>2, ThreadStep DEF PairInv
<1>6. CASE Crash
  <2>1. DOMAIN outputIndexOfRingMembers' = {} /\ rm' = "test"
    BY <1>6 DEF Crash, FreshProcess
  <2>2. QED
    BY <2>1 DEF PairInv, Given
<1>7. CASE UNCHANGED vars
  <2>1. /\ UNCHANGED <<main, lastRingMemberId, rm, held, rmHashIdVector, outputIndexOfRingMembers>>
        /\ \A j, id : Given(j, id)' <=> Given(j, id)
    BY <1>7 DEF vars, parser, thread, Given, IsNew
  <2>2. QED
    BY <2>1 DEF PairInv
<1>8. QED
  BY <1>1, <1>2, <1>3, <1>4, <1>5, <1>6, <1>7
  DEF Next, Parse, runRMIdHashMappingThread, Ended, MainMoves

\* The pairs of the promise, said of keys and ids.
LEMMA GivenByKey ==
    /\ \A x : x \in PairsGiven <=> \E j, id : x = <<j, id>> /\ Given(j, id)
    /\ \A x : x \in PairsGiven' <=> \E j, id : x = <<j, id>> /\ Given(j, id)'
<1>1. \A x : x \in PairsGiven <=> \E j, id : x = <<j, id>> /\ Given(j, id)
  BY DEF PairsGiven, Given
<1>2. \A x : x \in PairsGiven' <=> \E j, id : x = <<j, id>> /\ Given(j, id)'
  BY DEF PairsGiven, Given, IsNew
<1>3. QED
  BY <1>1, <1>2

LEMMA WaitingPairs ==
    /\ \A x : x \in PairsWaiting <=>
          \/ \E j \in DOMAIN rmHashIdVector : x = <<j, rmHashIdVector[j]>>
          \/ held # <<>> /\ x = held
    /\ \A x : x \in PairsWaiting' <=>
          \/ \E j \in DOMAIN rmHashIdVector' : x = <<j, rmHashIdVector'[j]>>
          \/ held' # <<>> /\ x = held'
BY DEF PairsWaiting

LEMMA SamePairs ==
    /\ (\A j, id : Given(j, id)' <=> Given(j, id)) => PairsGiven' = PairsGiven
    /\ UNCHANGED <<rmHashIdVector, held>> => PairsWaiting' = PairsWaiting
<1>1. ASSUME \A j, id : Given(j, id)' <=> Given(j, id)
      PROVE  PairsGiven' = PairsGiven
  <2>1. \A x : x \in PairsGiven' <=> x \in PairsGiven
    BY <1>1, GivenByKey
  <2>2. QED
    BY <2>1
<1>2. QED
  BY <1>1 DEF PairsWaiting

promised == <<PairsGiven, PairsWaiting, ringMemberHashMap, ~open>>

LEMMA NewMemberGives ==
    ASSUME RingInv, PairInv, NEW k \in Key, NewMember(k)
    PROVE  Ids!Give
<1> DEFINE pair == <<k, lastRingMemberId>>
<1>0. /\ open /\ UNCHANGED <<ringMemberHashMap, open, held>>
      /\ rmHashIdVector' = With(rmHashIdVector, k, lastRingMemberId)
      /\ lastRingMemberId \in Nat
  BY DEF NewMember, RingInv, OpenWhileParsed, IdsInv, TypeOK, disk, thread
<1>1. \A x : x \in PairsGiven' <=> x \in PairsGiven \/ x = pair
  BY GivenByKey, NewIsGiven
<1>2. PairsGiven' = PairsGiven \cup {pair}
  BY <1>1
<1>3. \A other \in PairsGiven : other[2] # lastRingMemberId
  <2>1. \A j, id : Given(j, id) => id # lastRingMemberId
    BY <1>0 DEF PairInv
  <2>2. QED
    BY <2>1, GivenByKey
<1>4. pair \notin PairsGiven
  BY <1>3
<1>5. /\ DOMAIN rmHashIdVector' = DOMAIN rmHashIdVector \cup {k}
      /\ rmHashIdVector'[k] = lastRingMemberId
      /\ \A j \in DOMAIN rmHashIdVector : j # k => rmHashIdVector'[j] = rmHashIdVector[j]
  BY <1>0 DEF With
<1>6. pair \in PairsWaiting'
  BY <1>5, WaitingPairs
<1>7. ASSUME NEW x \in PairsWaiting', x # pair
      PROVE  x \in PairsWaiting
  BY <1>0, <1>5, <1>7, WaitingPairs
<1>8. ASSUME NEW x \in PairsWaiting, x \notin PairsWaiting'
      PROVE  x[1] = k
  BY <1>0, <1>5, <1>8, WaitingPairs
<1>9. /\ pair \in PairsGiven' \ PairsGiven
      /\ \A other \in PairsGiven : other[2] # pair[2]
      /\ PairsWaiting' \subseteq PairsWaiting \cup {pair}
      /\ \A replaced \in PairsWaiting \ PairsWaiting' : replaced[1] = pair[1]
  BY <1>2, <1>3, <1>4, <1>7, <1>8
<1> HIDE DEF pair
<1>10. QED
  BY <1>0, <1>2, <1>6, <1>9 DEF Ids!Give

LEMMA insertKeyKeeps ==
    ASSUME RingInv, PairInv, insertKey
    PROVE  Ids!Keep
<1>0. /\ runRMIdHashMappingThread
      /\ open /\ rm = "insert" /\ held # <<>> /\ held' = <<>>
      /\ UNCHANGED <<rmHashIdVector, open>>
      /\ ringMemberHashMap' = With(ringMemberHashMap, held[1], held[2])
      /\ held = <<held[1], held[2]>> /\ held[1] \notin DOMAIN rmHashIdVector
  BY DEF insertKey, RingInv, HeldIsGiven, IdsInv, TypeOK, PairInv, runRMIdHashMappingThread
<1>1. held \in PairsWaiting
  BY <1>0, WaitingPairs
<1>2. \A x : x \in PairsWaiting' <=> x \in PairsWaiting /\ x # held
  BY <1>0, WaitingPairs
<1>3. PairsWaiting' = PairsWaiting \ {held}
  BY <1>2
<1>4. PairsGiven' = PairsGiven
  BY <1>0, ThreadStep, SamePairs
<1>5. QED
  BY <1>0, <1>1, <1>3, <1>4 DEF Ids!Keep, With

LEMMA insertKeyClosedLoses ==
    ASSUME RingInv, PairInv, insertKeyClosed
    PROVE  Ids!Lose
<1>0. /\ runRMIdHashMappingThread
      /\ ~open /\ rm = "insert" /\ held # <<>> /\ held' = <<>>
      /\ UNCHANGED <<rmHashIdVector, open, ringMemberHashMap>>
      /\ held = <<held[1], held[2]>> /\ held[1] \notin DOMAIN rmHashIdVector
  BY DEF insertKeyClosed, RingInv, HeldIsGiven, IdsInv, TypeOK, PairInv, runRMIdHashMappingThread
<1>1. held \in PairsWaiting
  BY <1>0, WaitingPairs
<1>2. \A x : x \in PairsWaiting' <=> x \in PairsWaiting /\ x # held
  BY <1>0, WaitingPairs
<1>3. PairsWaiting' = PairsWaiting \ {held}
  BY <1>2
<1>4. PairsGiven' = PairsGiven
  BY <1>0, ThreadStep, SamePairs
<1>5. QED
  BY <1>0, <1>1, <1>3, <1>4 DEF Ids!Lose

\* The pair changes its place and goes on waiting.
LEMMA TakeFirstWaits ==
    ASSUME RingInv, NEW k \in Key, TakeFirst(k)
    PROVE  UNCHANGED promised
<1>0. /\ runRMIdHashMappingThread /\ UNCHANGED <<ringMemberHashMap, open>>
      /\ held = <<>> /\ held' = <<k, rmHashIdVector[k]>>
      /\ rmHashIdVector' = Without(rmHashIdVector, k)
  BY DEF TakeFirst, RingInv, IdsInv, TypeOK, runRMIdHashMappingThread
<1>1. k \in DOMAIN rmHashIdVector
  <2>1. DOMAIN rmHashIdVector \in SUBSET Nat /\ DOMAIN rmHashIdVector # {}
    BY ConstantsOK DEF TakeFirst, RingInv, IdsInv, TypeOK, TakeFindsOne
  <2>2. QED
    BY <2>1, MinIsElement DEF TakeFirst
<1>2. /\ DOMAIN rmHashIdVector' = DOMAIN rmHashIdVector \ {k}
      /\ \A j \in DOMAIN rmHashIdVector' : rmHashIdVector'[j] = rmHashIdVector[j]
      /\ held' # <<>>
  BY <1>0 DEF Without, Restrict
<1>3. \A x : x \in PairsWaiting' <=> x \in PairsWaiting
  BY <1>0, <1>1, <1>2, WaitingPairs
<1>4. PairsWaiting' = PairsWaiting
  BY <1>3
<1>5. PairsGiven' = PairsGiven
  BY <1>0, ThreadStep, SamePairs
<1>6. QED
  BY <1>0, <1>4, <1>5 DEF promised

\* A step of RingMembers is a step of the promise, or none.
LEMMA IdPromiseStep ==
    ASSUME RingInv, PairInv, [Next]_vars
    PROVE  Ids!PromiseNext \/ UNCHANGED promised
<1>1. ASSUME NEW k \in Key, NewMember(k)
      PROVE  Ids!PromiseNext
  BY <1>1, NewMemberGives DEF Ids!PromiseNext
<1>2. ASSUME NEW k \in Key, FindInMemory(k) \/ LookupInDatabase(k)
      PROVE  UNCHANGED promised
  BY <1>2, LookupGivesNothing, SamePairs DEF promised
<1>3. CASE MainMoves
  <2>1. /\ PairsGiven' = PairsGiven /\ PairsWaiting' = PairsWaiting
        /\ UNCHANGED ringMemberHashMap
    BY <1>3, MainGivesNothing, SamePairs
  <2>2. CASE UNCHANGED open
    BY <2>1, <2>2 DEF promised
  <2>3. CASE Close
    <3>1. (~open)' = TRUE
      BY <2>3 DEF Close
    <3>2. QED
      BY <2>1, <3>1 DEF Ids!Close, Ids!PromiseNext
  <2>4. QED
    BY <1>3, <2>2, <2>3, MainGivesNothing
<1>4. ASSUME NEW k \in Key, TakeFirst(k)
      PROVE  UNCHANGED promised
  BY <1>4, TakeFirstWaits
<1>5. CASE Test \/ ExitEmpty \/ ExitFlag
  <2>1. runRMIdHashMappingThread /\ UNCHANGED <<ringMemberHashMap, rmHashIdVector, open, held>>
    BY <1>5 DEF Test, ExitEmpty, ExitFlag, runRMIdHashMappingThread
  <2>2. QED
    BY <2>1, ThreadStep, SamePairs DEF promised
<1>6. CASE insertKey \/ insertKeyClosed
  BY <1>6, insertKeyKeeps, insertKeyClosedLoses DEF Ids!PromiseNext
<1>7. CASE Crash
  <2>1. /\ DOMAIN outputIndexOfRingMembers' = {} /\ DOMAIN rmHashIdVector' = {}
        /\ held' = <<>> /\ open' = TRUE /\ UNCHANGED ringMemberHashMap
    BY <1>7 DEF Crash, FreshProcess, Empty, disk
  <2>2. PairsGiven' = {} /\ PairsWaiting' = {}
    BY <2>1 DEF PairsGiven, PairsWaiting
  <2>3. (~open)' = FALSE
    BY <2>1
  <2>4. QED
    BY <2>1, <2>2, <2>3 DEF Ids!Restart, Ids!PromiseNext
<1>8. CASE UNCHANGED vars
  <2>1. /\ UNCHANGED <<ringMemberHashMap, rmHashIdVector, open, held>>
        /\ \A j, id : Given(j, id)' <=> Given(j, id)
    BY <1>8 DEF vars, disk, parser, thread, Given, IsNew
  <2>2. QED
    BY <2>1, SamePairs DEF promised
<1>9. QED
  BY <1>1, <1>2, <1>3, <1>4, <1>5, <1>6, <1>7, <1>8
  DEF Next, Parse, runRMIdHashMappingThread, Ended, MainMoves

LEMMA PromiseStarts == Init => PairInv /\ Ids!PromiseInit
<1> SUFFICES ASSUME Init PROVE PairInv /\ Ids!PromiseInit
  OBVIOUS
<1>1. /\ DOMAIN outputIndexOfRingMembers = {} /\ DOMAIN rmHashIdVector = {}
      /\ DOMAIN ringMemberHashMap = {} /\ held = <<>> /\ open = TRUE /\ rm = "test"
  BY DEF Init, Empty
<1>2. PairsGiven = {} /\ PairsWaiting = {}
  BY <1>1 DEF PairsGiven, PairsWaiting
<1>3. PairInv
  BY <1>1 DEF PairInv, Given
<1>4. QED
  BY <1>1, <1>2, <1>3 DEF Ids!PromiseInit

\* The lookup of parser.h against the hash thread, over deaths of the process, keeps the
\* promise of IdPromise (parser.h:440-449, 1057-1069).
THEOREM CounterKeepsIdPromise == Spec => KeepsIdPromise
<1>1. RingInv /\ PairInv /\ [Next]_vars => PairInv' /\ [Ids!PromiseNext]_promised
  BY PairStep, IdPromiseStep
<1>2. QED
  BY <1>1, PromiseStarts, RingInvariant, PTL DEF Spec, KeepsIdPromise, Ids!PromiseSpec, promised
=============================================================================
