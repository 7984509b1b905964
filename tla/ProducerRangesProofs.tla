------------------------ MODULE ProducerRangesProofs ------------------------
(***************************************************************************)
(* Proofs about ProducerRanges, for every number of producers and every    *)
(* height: the ranges partition the blocks, and no block is parsed twice   *)
(* or left out.                                                            *)
(***************************************************************************)
EXTENDS ProducerRanges, TLAPS

-----------------------------------------------------------------------------
(* Arithmetic.                                                             *)

LEMMA Product ==
    ASSUME NEW a \in Nat, NEW b \in Nat
    PROVE  a * b \in Nat /\ a * b = b * a
BY Z3

LEMMA Monotone ==
    ASSUME NEW q \in Nat, NEW a \in Nat, NEW b \in Nat, a <= b
    PROVE  q * a <= q * b
<1>1. q * (b - a) >= 0 /\ q * (b - a) = q * b - q * a
  BY Z3
<1>2. q * a \in Nat /\ q * b \in Nat
  BY Z3
<1>3. QED
  BY <1>1, <1>2

LEMMA Successor ==
    ASSUME NEW q \in Nat, NEW p \in Nat \ {0}
    PROVE  q * p = q * (p - 1) + q /\ q * (p - 1) \in Nat /\ q * p \in Nat
BY Z3

-----------------------------------------------------------------------------
(* The ranges.                                                             *)

LEMMA RangeCases ==
    ASSUME NEW n \in Nat \ {0}, NEW h \in Nat, NEW p \in 1 .. n,
           NEW q \in Nat, NEW r \in Nat, h = q * n + r
    PROVE  (IF p = n THEN <<q * (p - 1) + 1, q * p + r>>
            ELSE IF p = 1 THEN <<1, q * p>>
            ELSE <<q * (p - 1) + 1, q * p>>)
               = <<q * (p - 1) + 1, IF p = n THEN h ELSE q * p>>
<1>1. p = 1 => q * (p - 1) + 1 = 1
  BY Z3
<1>2. QED
  BY <1>1

\* First and last block of the range of p, for q blocks per range and h in all.
lo(q, p) == q * (p - 1) + 1
hi(n, h, q, p) == IF p = n THEN h ELSE q * p

\* A range begins right after the one before it and, but for the last, has q
\* blocks, where q is the height divided by the number of producers.
LEMMA RangesOfQuotient ==
    ASSUME NEW n \in Nat \ {0}, NEW h \in Nat
    PROVE  \E q \in Nat, r \in 0 .. n - 1 :
              /\ h = q * n + r
              /\ \A p \in 1 .. n :
                    getProducerRangers(n, h)[p] = <<lo(q, p), hi(n, h, q, p)>>
<1>0. SUFFICES ASSUME NEW q, NEW r, q = h \div n, r = h % n
             PROVE  \E a \in Nat, b \in 0 .. n - 1 :
                       /\ h = a * n + b
                       /\ \A p \in 1 .. n :
                             getProducerRangers(n, h)[p] = <<lo(a, p), hi(n, h, a, p)>>
  OBVIOUS
<1>1. q \in Nat /\ r \in 0 .. n - 1
  BY <1>0, SMT
<1>2. r = h - n * q
  BY <1>0, Z3
<1>3. \A a, b \in Nat : b = h - a => h = a + b
  OBVIOUS
<1>4. n * q \in Nat /\ n * q = q * n /\ r \in Nat
  BY <1>1, Z3
<1>5. h = q * n + r
  BY <1>2, <1>3, <1>4, Zenon
<1>6. ASSUME NEW p \in 1 .. n
      PROVE  getProducerRangers(n, h)[p] = <<lo(q, p), hi(n, h, q, p)>>
  <2>1. getProducerRangers(n, h)[p]
           = IF p = n THEN <<q * (p - 1) + 1, q * p + r>>
             ELSE IF p = 1 THEN <<1, q * p>>
             ELSE <<q * (p - 1) + 1, q * p>>
    BY <1>0 DEF getProducerRangers
  <2>2. (IF p = n THEN <<q * (p - 1) + 1, q * p + r>>
         ELSE IF p = 1 THEN <<1, q * p>>
         ELSE <<q * (p - 1) + 1, q * p>>)
            = <<q * (p - 1) + 1, IF p = n THEN h ELSE q * p>>
    BY <1>1, <1>4, <1>5, RangeCases
  <2>3. QED
    BY <2>1, <2>2, Zenon DEF lo, hi
<1>7. QED
  BY <1>1, <1>5, <1>6, Zenon

LEMMA Quotient ==
    ASSUME NEW n \in Nat \ {0}, NEW h \in Nat
    PROVE  \E q \in Nat, r \in 0 .. n - 1 : h = q * n + r
BY RangesOfQuotient, Zenon

LEMMA Cover ==
    ASSUME NEW n \in Nat \ {0}, NEW h \in Nat, NEW q \in Nat, NEW r \in Nat,
           h = q * n + r, NEW b \in 1 .. h
    PROVE  \E p \in 1 .. n : lo(q, p) <= b /\ b <= hi(n, h, q, p)
<1>0. q * (n - 1) \in Nat
  BY Successor
<1>1. CASE q * (n - 1) < b
  <2>1. lo(q, n) <= b /\ b <= hi(n, h, q, n)
    BY <1>0, <1>1 DEF lo, hi
  <2>2. QED
    BY <2>1
<1>2. CASE b <= q * (n - 1)
  <2>1. q # 0
    <3>1. 0 * (n - 1) = 0
      BY Z3
    <3>2. QED
      BY <1>2, <3>1
  <2>3. q \in Nat \ {0} /\ b - 1 \in Nat
    BY <2>1
  <2>4. PICK d \in Nat, m \in 0 .. q - 1 : b - 1 = d * q + m
    BY <2>3, Quotient
  <2>5. q * d \in Nat /\ q * d = d * q
    BY <2>4, Product
  <2>6. d < n - 1
    <3>1. SUFFICES ASSUME n - 1 <= d PROVE FALSE
      BY <2>4
    <3>2. q * (n - 1) <= q * d
      BY <2>4, <3>1, Monotone
    <3>3. QED
      BY <1>0, <1>2, <2>3, <2>4, <2>5, <3>2
  <2>7. d + 1 \in 1 .. n /\ d + 1 # n /\ d + 1 \in Nat \ {0} /\ (d + 1) - 1 = d
    BY <2>4, <2>6
  <2>8. q * (d + 1) = q * ((d + 1) - 1) + q
    BY <2>7, Successor
  <2>9. q * (d + 1) = q * d + q
    BY <2>7, <2>8
  <2>10. lo(q, d + 1) = q * d + 1 /\ hi(n, h, q, d + 1) = q * d + q
    BY <2>7, <2>9 DEF lo, hi
  <2>11. q * d + 1 <= b /\ b <= q * d + q
    BY <2>3, <2>4, <2>5
  <2>12. QED
    BY <2>7, <2>10, <2>11
<1>3. QED
  BY <1>0, <1>1, <1>2

LEMMA Within ==
    ASSUME NEW n \in Nat \ {0}, NEW h \in Nat, NEW q \in Nat, NEW r \in Nat,
           h = q * n + r, NEW p \in 1 .. n
    PROVE  /\ lo(q, p) \in Nat \ {0}
           /\ hi(n, h, q, p) \in Nat /\ hi(n, h, q, p) <= h
<1>1. q * (p - 1) \in Nat /\ q * p \in Nat /\ q * n \in Nat
  BY Successor
<1>2. q * p <= q * n
  BY Monotone
<1>3. QED
  BY <1>1, <1>2 DEF lo, hi

LEMMA Ordered ==
    ASSUME NEW n \in Nat \ {0}, NEW h \in Nat, NEW q \in Nat, NEW r \in Nat,
           h = q * n + r, NEW p \in 1 .. n, NEW u \in 1 .. n, p < u
    PROVE  hi(n, h, q, p) < lo(q, u)
<1>1. p # n /\ p <= u - 1 /\ u - 1 \in Nat /\ p \in Nat
  OBVIOUS
<1>2. q * p <= q * (u - 1) /\ q * p \in Nat /\ q * (u - 1) \in Nat
  BY <1>1, Monotone, Product
<1>3. QED
  BY <1>1, <1>2 DEF lo, hi

LEMMA Partition ==
    ASSUME NEW n \in Nat \ {0}, NEW h \in Nat, NEW R, R = getProducerRangers(n, h)
    PROVE  /\ \A p \in 1 .. n : R[p][1] \in Nat \ {0} /\ R[p][2] \in Nat
           /\ \A b \in 1 .. h : \E p \in 1 .. n : b \in R[p][1] .. R[p][2]
           /\ \A p \in 1 .. n : R[p][2] <= h
           /\ \A p, u \in 1 .. n : p < u => R[p][2] < R[u][1]
<1>1. PICK q \in Nat, r \in 0 .. n - 1 :
         h = q * n + r /\ \A p \in 1 .. n : R[p] = <<lo(q, p), hi(n, h, q, p)>>
  BY RangesOfQuotient, Zenon
<1>r. r \in Nat
  OBVIOUS
<1>2. ASSUME NEW p \in 1 .. n
      PROVE  R[p][1] = lo(q, p) /\ R[p][2] = hi(n, h, q, p)
  BY <1>1
<1>3. ASSUME NEW p \in 1 .. n
      PROVE  /\ lo(q, p) \in Nat \ {0}
             /\ hi(n, h, q, p) \in Nat /\ hi(n, h, q, p) <= h
  BY <1>1, <1>r, Within
<1>4. ASSUME NEW b \in 1 .. h
      PROVE  \E p \in 1 .. n : lo(q, p) <= b /\ b <= hi(n, h, q, p)
  BY <1>1, <1>r, Cover
<1>5. ASSUME NEW p \in 1 .. n, NEW u \in 1 .. n, p < u
      PROVE  hi(n, h, q, p) < lo(q, u)
  BY <1>1, <1>r, <1>5, Ordered
<1>6. \A b \in 1 .. h : \E p \in 1 .. n : b \in R[p][1] .. R[p][2]
  BY <1>2, <1>3, <1>4
<1>7. QED
  BY <1>2, <1>3, <1>5, <1>6

-----------------------------------------------------------------------------
(* The producers.                                                          *)

LEMMA RangesHold ==
    ASSUME numProducer \in Nat \ {0}, height \in Nat
    PROVE  /\ \A p \in Producer : start(p) \in Nat \ {0} /\ end(p) \in Nat
           /\ \A b \in Block : \E p \in Producer : b \in start(p) .. end(p)
           /\ \A p \in Producer : end(p) <= height
           /\ \A p, u \in Producer : p < u => end(p) < start(u)
<1> DEFINE R == getProducerRangers(numProducer, height)
<1>1. /\ \A p \in 1 .. numProducer : R[p][1] \in Nat \ {0} /\ R[p][2] \in Nat
      /\ \A b \in 1 .. height : \E p \in 1 .. numProducer : b \in R[p][1] .. R[p][2]
      /\ \A p \in 1 .. numProducer : R[p][2] <= height
      /\ \A p, u \in 1 .. numProducer : p < u => R[p][2] < R[u][1]
  BY Partition, Zenon
<1>2. QED
  BY <1>1, Zenon DEF start, end, Producer, Block

\* What producer p has parsed: the blocks of its range below x[p].
ParsedBy(p, b) == b \in start(p) .. end(p) /\ b < x[p]

IInv ==
    /\ TypeOK
    /\ \A p \in Producer : start(p) <= x[p]
    /\ \A b \in Block :
          parsed[b] = IF \E p \in Producer : ParsedBy(p, b) THEN 1 ELSE 0
    /\ isAllBlockDone => \A p \in Producer : x[p] > end(p)

LEMMA Sizes == TypeOK => numProducer \in Nat \ {0} /\ height \in Nat
BY BoundsOK DEF TypeOK, BoundsOK

LEMMA TypedPartition == TypeOK => RangesPartition
<1> SUFFICES ASSUME TypeOK PROVE RangesPartition
  OBVIOUS
<1>1. numProducer \in Nat \ {0} /\ height \in Nat
  BY Sizes
<1>2. /\ \A p \in Producer : start(p) \in Nat \ {0} /\ end(p) \in Nat
      /\ \A b \in Block : \E p \in Producer : b \in start(p) .. end(p)
      /\ \A p \in Producer : end(p) <= height
      /\ \A p, u \in Producer : p < u => end(p) < start(u)
  BY <1>1, RangesHold
<1>3. \A p, u \in Producer : p # u => p < u \/ u < p
  BY <1>1 DEF Producer
<1>4. \A p \in Producer : start(p) .. end(p) \subseteq Block
  BY <1>1, <1>2 DEF Block
<1>5. ASSUME NEW p \in Producer, NEW u \in Producer, p # u
      PROVE  (start(p) .. end(p)) \cap (start(u) .. end(u)) = {}
  BY <1>2, <1>3, <1>5
<1>6. QED
  BY <1>2, <1>4, <1>5 DEF RangesPartition

LEMMA IInvInit == Init => IInv
<1> SUFFICES ASSUME Init PROVE IInv
  OBVIOUS
<1>1. numProducer \in Nat \ {0} /\ height \in Nat
  BY BoundsOK DEF Init, BoundsOK
<1>2. \A p \in Producer : start(p) \in Nat \ {0} /\ x[p] = start(p)
  BY <1>1, RangesHold DEF Init
<1>3. TypeOK
  <2>1. x = [p \in Producer |-> start(p)] /\ parsed = [b \in Block |-> 0]
    BY DEF Init
  <2>2. x \in [Producer -> Int]
    BY <1>2, <2>1
  <2>3. parsed \in [Block -> Nat]
    BY <2>1
  <2>4. QED
    BY <2>2, <2>3 DEF Init, TypeOK
<1>4. \A b \in Block : ~ \E p \in Producer : ParsedBy(p, b)
  BY <1>2 DEF ParsedBy
<1>5. QED
  BY <1>2, <1>3, <1>4 DEF IInv, Init

LEMMA IInvStep == IInv /\ [Next]_vars => IInv'
<1> SUFFICES ASSUME IInv, [Next]_vars PROVE IInv'
  OBVIOUS
<1>0. /\ numProducer \in Nat \ {0} /\ height \in Nat
      /\ \A p \in Producer : start(p) \in Nat \ {0} /\ end(p) \in Nat
      /\ RangesPartition
  BY Sizes, RangesHold, TypedPartition DEF IInv
<1>1. ASSUME NEW p \in Producer, dataProducerFunction(p)
      PROVE  IInv'
  <2>1. /\ Producer' = Producer /\ Block' = Block
        /\ \A u : start(u)' = start(u) /\ end(u)' = end(u)
    BY <1>1 DEF dataProducerFunction, Producer, Block, start, end
  <2>2. x \in [Producer -> Int] /\ parsed \in [Block -> Nat]
    BY DEF IInv, TypeOK
  <2>3. x[p] \in start(p) .. end(p) /\ x[p] \in Block
    BY <1>0, <1>1, <2>2 DEF IInv, dataProducerFunction, RangesPartition
  <2>4. /\ x' \in [Producer -> Int] /\ parsed' \in [Block -> Nat]
        /\ \A u \in Producer : x'[u] = IF u = p THEN x[p] + 1 ELSE x[u]
        /\ \A b \in Block : parsed'[b] = IF b = x[p] THEN parsed[b] + 1 ELSE parsed[b]
    BY <1>1, <2>2, <2>3 DEF dataProducerFunction
  <2>5. TypeOK'
    BY <1>1, <2>1, <2>4 DEF IInv, TypeOK, dataProducerFunction
  <2>6. \A u \in Producer : start(u) <= x'[u]
    BY <1>0, <2>2, <2>4 DEF IInv
  <2>7. ~isAllBlockDone'
    BY <1>0, <1>1, <2>2 DEF IInv, dataProducerFunction
  <2>8. ASSUME NEW b \in Block
        PROVE  parsed'[b] = IF \E u \in Producer : ParsedBy(u, b)' THEN 1 ELSE 0
    <3>0. \A u \in Producer : ParsedBy(u, b)' <=> b \in start(u) .. end(u) /\ b < x'[u]
      BY <2>1 DEF ParsedBy
    <3>1. CASE b = x[p]
      <4>1. ASSUME NEW u \in Producer PROVE ~ParsedBy(u, b)
        <5>1. CASE u = p
          BY <2>2, <3>1, <5>1 DEF ParsedBy
        <5>2. CASE u # p
          BY <1>0, <2>3, <3>1, <5>2 DEF ParsedBy, RangesPartition
        <5>3. QED
          BY <5>1, <5>2
      <4>2. parsed[b] = 0
        BY <4>1 DEF IInv
      <4>3. ParsedBy(p, b)'
        BY <2>2, <2>3, <2>4, <3>0, <3>1
      <4>4. QED
        BY <2>4, <3>1, <4>2, <4>3
    <3>2. CASE b # x[p]
      <4>1. ASSUME NEW u \in Producer PROVE ParsedBy(u, b)' <=> ParsedBy(u, b)
        <5>1. b \in Int /\ x[p] \in Int
          BY <2>2 DEF Block
        <5>2. b < x[p] + 1 <=> b < x[p]
          BY <3>2, <5>1
        <5>3. QED
          BY <2>4, <3>0, <5>2 DEF ParsedBy
      <4>2. parsed'[b] = parsed[b]
        BY <2>4, <3>2
      <4>3. parsed[b] = IF \E u \in Producer : ParsedBy(u, b) THEN 1 ELSE 0
        BY DEF IInv
      <4>4. QED
        BY <4>1, <4>2, <4>3
    <3>3. QED
      BY <3>1, <3>2
  <2>9. QED
    BY <2>1, <2>5, <2>6, <2>7, <2>8 DEF IInv
<1>2. CASE SetAllBlockDone
  <2>1. /\ Producer' = Producer /\ Block' = Block
        /\ \A u : start(u)' = start(u) /\ end(u)' = end(u)
        /\ x' = x /\ parsed' = parsed
    BY <1>2 DEF SetAllBlockDone, Producer, Block, start, end
  <2>2. \A u, b : ParsedBy(u, b)' <=> ParsedBy(u, b)
    BY <2>1 DEF ParsedBy
  <2>3. TypeOK'
    BY <1>2, <2>1 DEF IInv, TypeOK, SetAllBlockDone
  <2>4. \A p \in Producer : x[p] > end(p)
    BY <1>2 DEF SetAllBlockDone
  <2>5. QED
    BY <2>1, <2>2, <2>3, <2>4 DEF IInv
<1>3. CASE UNCHANGED vars
  <2>1. /\ Producer' = Producer /\ Block' = Block
        /\ \A u : start(u)' = start(u) /\ end(u)' = end(u)
        /\ x' = x /\ parsed' = parsed /\ isAllBlockDone' = isAllBlockDone
    BY <1>3 DEF vars, Producer, Block, start, end
  <2>2. \A u, b : ParsedBy(u, b)' <=> ParsedBy(u, b)
    BY <2>1 DEF ParsedBy
  <2>3. TypeOK'
    BY <1>3, <2>1 DEF IInv, TypeOK, vars
  <2>4. QED
    BY <2>1, <2>2, <2>3 DEF IInv
<1>4. QED
  BY <1>1, <1>2, <1>3 DEF Next, Ended

LEMMA IInvImplies == IInv => EveryBlockOnce
<1> SUFFICES ASSUME IInv, NEW b \in Block
             PROVE  parsed[b] <= 1 /\ (isAllBlockDone => parsed[b] = 1)
  BY DEF EveryBlockOnce
<1>1. parsed[b] = IF \E p \in Producer : ParsedBy(p, b) THEN 1 ELSE 0
  BY DEF IInv
<1>2. PICK p \in Producer : b \in start(p) .. end(p)
  BY TypedPartition DEF IInv, RangesPartition
<1>3. x[p] \in Int /\ start(p) \in Nat /\ end(p) \in Nat
  BY Sizes, RangesHold DEF IInv, TypeOK
<1>4. ASSUME isAllBlockDone PROVE ParsedBy(p, b)
  BY <1>2, <1>3, <1>4 DEF IInv, ParsedBy
<1>5. QED
  BY <1>1, <1>4

\* The variables keep their types: main-7thread.cpp:151-179.
THEOREM TypeCorrect == Spec => []TypeOK
BY IInvInit, IInvStep, PTL DEF Spec, IInv

\* For every number of producers and every height, the ranges cut the blocks
\* 1 .. height into pieces: none twice, none left out, nothing beyond.
THEOREM RangesArePartition == Spec => []RangesPartition
BY IInvInit, IInvStep, TypedPartition, PTL DEF Spec, IInv

\* Whatever the interleaving of the producers, no block is parsed twice and
\* each has been parsed when the flag is set.
THEOREM BlocksAreParsedOnce == Spec => []EveryBlockOnce
BY IInvInit, IInvStep, IInvImplies, PTL DEF Spec

\* The producers share out the blocks (parser-7thread.h:844-864, main-7thread.cpp:170-174).
THEOREM BlocksAreSharedOut == Spec => []BlocksShared
BY RangesArePartition, BlocksAreParsedOnce, PTL DEF BlocksShared

=============================================================================
