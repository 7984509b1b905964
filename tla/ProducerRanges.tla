--------------------------- MODULE ProducerRanges ---------------------------
(***************************************************************************)
(* The producers of main-7thread.cpp: getProducerRangers cuts the blocks   *)
(* 1 .. height into one range per producer thread, each thread runs        *)
(* dataProducerFunction over its range, main() joins them and sets the     *)
(* flag isAllBlockDone.                                                    *)
(***************************************************************************)
EXTENDS Integers

CONSTANTS
    MaxProducers,   \* bound: hardware_concurrency() - 1
    MaxHeight       \* bound: the height to parse

ASSUME BoundsOK == MaxProducers \in Nat /\ MaxHeight \in Nat

VARIABLES
    numProducer,
    height,
    x,              \* x[p]: the block that producer p parses next
    parsed,         \* parsed[b]: how often block b has been parsed
    isAllBlockDone

vars == <<numProducer, height, x, parsed, isAllBlockDone>>

\* Seeded fault: every range takes the remainder along.
getProducerRangersOffsetTwice(n, h) ==
    LET numRanges == h \div n
        offset == h % n
    IN  [p \in 1 .. n |-> <<numRanges * (p - 1) + 1, numRanges * p + offset>>]

\* The first and the last block of each producer's range.  The source tells the
\* first producer apart, whose range starts with the literal 1.
getProducerRangers(n, h) ==
    LET numRanges == h \div n
        offset == h % n
    IN  [p \in 1 .. n |->
            IF p = n THEN <<numRanges * (p - 1) + 1, numRanges * p + offset>>
            ELSE IF p = 1 THEN <<1, numRanges * p>>
            ELSE <<numRanges * (p - 1) + 1, numRanges * p>>]

start(p) == getProducerRangers(numProducer, height)[p][1]
end(p)   == getProducerRangers(numProducer, height)[p][2]

Producer == 1 .. numProducer
Block    == 1 .. height

\* With one core there is no producer and the division by zero ends the process:
\* at least one producer runs.
Init ==
    /\ numProducer \in 1 .. MaxProducers
    /\ height \in 0 .. MaxHeight
    /\ x = [p \in Producer |-> start(p)]
    /\ parsed = [b \in Block |-> 0]
    /\ isAllBlockDone = FALSE


\* for(x = start; x <= end; x++) xmrProcessor(...)
dataProducerFunction(p) ==
    /\ x[p] <= end(p)
    /\ parsed' = [parsed EXCEPT ![x[p]] = @ + 1]
    /\ x' = [x EXCEPT ![p] = @ + 1]
    /\ UNCHANGED <<numProducer, height, isAllBlockDone>>

\* All producers have been joined.
SetAllBlockDone ==
    /\ ~isAllBlockDone
    /\ \A p \in Producer : x[p] > end(p)
    /\ isAllBlockDone' = TRUE
    /\ UNCHANGED <<numProducer, height, x, parsed>>

Ended == isAllBlockDone /\ UNCHANGED vars

Next ==
    \/ \E p \in Producer : dataProducerFunction(p)
    \/ SetAllBlockDone
    \/ Ended

Spec == Init /\ [][Next]_vars
-----------------------------------------------------------------------------
TypeOK ==
    /\ numProducer \in 1 .. MaxProducers
    /\ height \in 0 .. MaxHeight
    /\ x \in [Producer -> Int]
    /\ parsed \in [Block -> Nat]
    /\ isAllBlockDone \in BOOLEAN

\* The ranges cover the blocks 1 .. height, no block twice, and nothing else
\* (parser-7thread.h:844-864).
RangesPartition ==
    /\ \A b \in Block : \E p \in Producer : b \in start(p) .. end(p)
    /\ \A p \in Producer : start(p) .. end(p) \subseteq Block
    /\ \A p, q \in Producer :
          p # q => (start(p) .. end(p)) \cap (start(q) .. end(q)) = {}

\* No block is parsed twice, and each has been parsed when the flag is set
\* (main-7thread.cpp:170-174).
EveryBlockOnce ==
    \A b \in Block : parsed[b] <= 1 /\ (isAllBlockDone => parsed[b] = 1)

\* The two together: the producers share out the blocks.
BlocksShared == RangesPartition /\ EveryBlockOnce
=============================================================================
