---------------------------- MODULE EmissionMonitor ----------------------------
(***************************************************************************)
(* The emission counter (CurrentBlockchainStatus).  A thread adds up what  *)
(* the blocks have paid out, a chunk of blocks at a time, saves the sum to *)
(* a checkpoint file and sleeps; a request adds the few top blocks that    *)
(* the thread leaves out.  A sum of amounts is kept here as the sequence   *)
(* of the blocks it was made of, and a block as the number of times that   *)
(* blocks had been removed from the chain when it came, so that a block    *)
(* and its replacement differ.                                             *)
(*                                                                         *)
(* The node (external) adds blocks and removes at most Depth top ones in a *)
(* reorganisation.  The process may die and be started again.              *)
(***************************************************************************)
EXTENDS Integers, Sequences

CONSTANTS
    ChunkSize,      \* blockchain_chunk_size
    ChunkGap,       \* blockchain_chunk_gap
    Depth,          \* how many top blocks a reorganisation can replace
    FirstHeights,   \* bound: heights of the chain at the start
    MaxChain,       \* bound: height of the chain
    MaxRemoved,     \* bound: reorganisations
    MaxDeaths       \* bound: times the process dies

ASSUME EmissionOK ==
    /\ ChunkSize \in Nat \ {0} /\ ChunkGap \in Nat /\ Depth \in 0 .. ChunkGap
    /\ FirstHeights \subseteq 1 .. MaxChain /\ MaxRemoved \in Nat /\ MaxDeaths \in Nat

VARIABLES
    chain,          \* the blocks of the chain
    highest,        \* the greatest height it has had
    removed,        \* how often blocks have been removed from it
    monitor,        \* what the monitoring thread does next
    current_height,
    total,          \* total_emission_atomic
    scanned,        \* emission_calculated of the scan under way
    end_block,
    checkpoint,     \* the file: what it holds and the blocks that were summed
    request,        \* get_emission: what it does next, its copy, its last block
    deaths,
    topScanned,     \* history: a full chunk ended among the top ChunkGap blocks
    saved           \* history: the blocks in the last checkpoint that was written

nodeVars     == <<chain, highest, removed>>
threadVars   == <<monitor, current_height, total, scanned, end_block, topScanned, saved>>
emissionVars == <<nodeVars, threadVars, checkpoint, request, deaths>>

NoBlock  == -1      \* what a scan adds for a block that it cannot read
Nothing  == [kind |-> "absent", sum |-> <<>>]
Idle     == [step |-> "idle", sum |-> <<>>, upto |-> 0]
blk_no(sum) == Len(sum)
BlockAt(h) == IF h < Len(chain) THEN chain[h + 1] ELSE NoBlock

EmissionInit ==
    /\ chain \in {[h \in 1 .. n |-> 0] : n \in FirstHeights}
    /\ highest = Len(chain)
    /\ removed = 0
    /\ monitor = "start"
    /\ current_height = 0
    /\ total = <<>>
    /\ scanned = <<>>
    /\ end_block = 0
    /\ checkpoint = Nothing
    /\ request = Idle
    /\ deaths = 0
    /\ topScanned = FALSE
    /\ saved = 0
-----------------------------------------------------------------------------
\* The node.
AddBlock ==
    /\ Len(chain) < MaxChain
    /\ chain' = Append(chain, removed)
    /\ highest' = IF Len(chain') > highest THEN Len(chain') ELSE highest
    /\ UNCHANGED <<removed, threadVars, checkpoint, request, deaths>>

RemoveBlocks ==
    /\ removed < MaxRemoved
    /\ \E n \in 1 .. Len(chain) - 1 :
          /\ Len(chain) - n >= highest - Depth
          /\ chain' = SubSeq(chain, 1, Len(chain) - n)
    /\ removed' = removed + 1
    /\ UNCHANGED <<highest, threadVars, checkpoint, request, deaths>>
-----------------------------------------------------------------------------
\* Seeded fault: the checkpoint is read only after the first scan.
startForgets ==
    /\ monitor = "start"
    /\ total' = <<>>
    /\ monitor' = "wake"
    /\ UNCHANGED <<nodeVars, current_height, scanned, end_block, topScanned, saved,
                   checkpoint, request, deaths>>

\* load_current_emission_amount: what becomes of the thread.  A file that holds less than
\* four fields makes strs.at() throw, which nobody catches; an empty one, or one whose last
\* number is cut off, is refused and the thread is not started.
load_current_emission_amount ==
    CASE checkpoint.kind = "whole" -> "wake"
      [] checkpoint.kind = "short" -> "dead"
      [] OTHER                     -> "off"

\* The file is read if there is one.
start_monitor_blockchain_thread ==
    /\ monitor = "start"
    /\ monitor' = IF checkpoint.kind = "absent" THEN "wake" ELSE load_current_emission_amount
    /\ total' = checkpoint.sum
    /\ UNCHANGED <<nodeVars, current_height, scanned, end_block, topScanned, saved,
                   checkpoint, request, deaths>>

\* The thread takes the height of the chain.
Wake ==
    /\ monitor = "wake"
    /\ current_height' = Len(chain)
    /\ monitor' = "limit"
    /\ UNCHANGED <<nodeVars, total, scanned, end_block, topScanned, saved,
                   checkpoint, request, deaths>>

\* Seeded fault: the gap is left out.
chunkEndNoGap(from, height) ==
    IF from + ChunkSize > height THEN height ELSE from + ChunkSize

\* Where a scan that begins at from ends, for a height of at least ChunkGap.
chunkEnd(from, height) ==
    IF from + ChunkSize > height THEN height - ChunkGap ELSE from + ChunkSize

\* update_current_emission_amount: the end of the scan.  The heights are unsigned: on
\* a chain shorter than the gap the scan ends near 2^64, that is never.
SetLimit ==
    /\ monitor = "limit"
    /\ scanned' = <<>>
    /\ IF blk_no(total) + ChunkSize > current_height /\ current_height < ChunkGap
       THEN monitor' = "runaway" /\ UNCHANGED <<end_block, topScanned>>
       ELSE /\ monitor' = "scan"
            /\ end_block' = chunkEnd(blk_no(total), current_height)
            /\ topScanned' = (topScanned \/ blk_no(total) + ChunkSize
                                               \in current_height - ChunkGap + 1 .. current_height)
    /\ UNCHANGED <<nodeVars, current_height, total, saved, checkpoint, request, deaths>>

\* calculate_emission_in_blocks: one block, whether it can be read or not.
ScanBlock ==
    /\ monitor = "scan"
    /\ blk_no(total) + blk_no(scanned) < end_block
    /\ scanned' = Append(scanned, BlockAt(blk_no(total) + blk_no(scanned)))
    /\ UNCHANGED <<nodeVars, monitor, current_height, total, end_block, topScanned, saved, checkpoint,
                   request, deaths>>

\* total_emission_atomic = current_emission.
StoreTotal ==
    /\ monitor = "scan"
    /\ blk_no(total) + blk_no(scanned) >= end_block
    /\ total' = total \o scanned
    /\ monitor' = "save"
    /\ UNCHANGED <<nodeVars, current_height, scanned, end_block, topScanned, saved,
                   checkpoint, request, deaths>>

\* save_current_emission_amount: opening the file empties it ...
OpenCheckpoint ==
    /\ monitor = "save"
    /\ checkpoint' = [kind |-> "empty", sum |-> <<>>]
    /\ monitor' = "write"
    /\ UNCHANGED <<nodeVars, current_height, total, scanned, end_block, topScanned, saved, request, deaths>>

\* ... and then it is written and flushed.
WriteCheckpoint ==
    /\ monitor = "write"
    /\ checkpoint' = [kind |-> "whole", sum |-> total]
    /\ saved' = blk_no(total)
    /\ monitor' = "sleep"
    /\ UNCHANGED <<nodeVars, current_height, total, scanned, end_block, topScanned, request, deaths>>

\* Seeded fault: the height is not taken again.
SleepStale ==
    /\ monitor = "sleep"
    /\ monitor' = "limit"
    /\ UNCHANGED <<nodeVars, current_height, total, scanned, end_block, topScanned, saved,
                   checkpoint, request, deaths>>

\* sleep_for, and again.
Sleep ==
    /\ monitor = "sleep"
    /\ monitor' = "wake"
    /\ UNCHANGED <<nodeVars, current_height, total, scanned, end_block, topScanned, saved, checkpoint,
                   request, deaths>>
-----------------------------------------------------------------------------
\* get_emission: the total, then the height, then the blocks in between.
ReadTotal ==
    /\ monitor \notin {"start", "dead", "off"}
    /\ request.step = "idle"
    /\ request' = [step |-> "height", sum |-> total, upto |-> 0]
    /\ UNCHANGED <<nodeVars, threadVars, checkpoint, deaths>>

ReadHeight ==
    LET from == blk_no(request.sum)
        near == from + ChunkGap >= current_height /\ from < current_height
    IN  /\ request.step = "height"
        /\ request' = [request EXCEPT !.step = "gap", !.upto = IF near THEN current_height ELSE from]
        /\ UNCHANGED <<nodeVars, threadVars, checkpoint, deaths>>

AddGapBlock ==
    /\ request.step = "gap"
    /\ blk_no(request.sum) < request.upto
    /\ request' = [request EXCEPT !.sum = Append(@, BlockAt(blk_no(@)))]
    /\ UNCHANGED <<nodeVars, threadVars, checkpoint, deaths>>

Answer ==
    /\ request.step = "gap"
    /\ blk_no(request.sum) >= request.upto
    /\ request' = Idle
    /\ UNCHANGED <<nodeVars, threadVars, checkpoint, deaths>>
-----------------------------------------------------------------------------
\* The process dies and is started again.  A death within the write leaves any part
\* of the line: nothing, less than four fields, a cut last number, or all of it.
EmissionDies ==
    /\ deaths < MaxDeaths
    /\ monitor # "start"
    /\ deaths' = deaths + 1
    /\ IF monitor = "write"
       THEN checkpoint' \in {[kind |-> k, sum |-> <<>>] : k \in {"empty", "short", "cut"}}
                            \cup {[kind |-> "whole", sum |-> total]}
       ELSE UNCHANGED checkpoint
    /\ monitor' = "start"
    /\ total' = <<>> /\ scanned' = <<>> /\ end_block' = 0 /\ current_height' = 0
    /\ request' = Idle
    /\ UNCHANGED <<nodeVars, topScanned, saved>>

EmissionThread ==
    \/ start_monitor_blockchain_thread
    \/ Wake \/ SetLimit \/ ScanBlock \/ StoreTotal \/ OpenCheckpoint \/ WriteCheckpoint \/ Sleep

EmissionRequest == ReadTotal \/ ReadHeight \/ AddGapBlock \/ Answer

EmissionNext ==
    \/ AddBlock \/ RemoveBlocks
    \/ EmissionThread
    \/ EmissionRequest
    \/ EmissionDies

EmissionSpec == EmissionInit /\ [][EmissionNext]_emissionVars
-----------------------------------------------------------------------------
\* What is counted, saved or loaded again is the chain's, through reorganisations
\* while blocks are read and through deaths, unless a full chunk has ended among the
\* top blocks (CurrentBlockchainStatus.cpp:113-115 keeps the gap only when the chunk
\* is cut short).
CountedIsTheChains ==
    ~topScanned =>
        /\ \A h \in DOMAIN total : h <= Len(chain) /\ total[h] = chain[h]
        /\ \A h \in DOMAIN checkpoint.sum : h <= Len(chain) /\ checkpoint.sum[h] = chain[h]

\* The total, the height and the blocks are read at three times, and a block that
\* cannot be read is counted as nothing: that happens to an answer, or to the total,
\* only when blocks have been removed meanwhile (CurrentBlockchainStatus.cpp:136,
\* 255-280).
OnlyRemovedBlocksAreMissed ==
    removed = 0 => /\ \A h \in DOMAIN request.sum : request.sum[h] # NoBlock
                   /\ \A h \in DOMAIN total : total[h] # NoBlock

\* The sums of the thread and of its answers are sums of blocks of the chain.
CountedBlocksStand == CountedIsTheChains /\ OnlyRemovedBlocksAreMissed

\* A checkpoint that is written counts at least the blocks of the one before, also
\* after the process has died: a start goes on from what was saved, or not at all
\* (CurrentBlockchainStatus.cpp:29-46, 166-242).
CheckpointGrows ==
    [][checkpoint'.kind = "whole" => blk_no(checkpoint'.sum) >= saved]_emissionVars

\* A running thread catches up with the chain as it is in the end, unless it dies,
\* is refused or runs away on a chain shorter than the gap
\* (CurrentBlockchainStatus.cpp:54-81).
ThreadCatchesUp ==
    (monitor \in {"wake", "limit", "scan", "save", "write", "sleep"}) ~>
        (blk_no(total) + ChunkGap >= Len(chain) \/ monitor \in {"dead", "off", "runaway", "start"})
=============================================================================
