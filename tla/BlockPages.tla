------------------------------ MODULE BlockPages ------------------------------
(***************************************************************************)
(* The pages that list blocks: index2, which keeps the rows of a block in  *)
(* a cache of bounded size, and json_transactions, which does not.  A      *)
(* reader turns the pages from the first to the last, while the node       *)
(* (external) adds blocks and may replace the top ones.                    *)
(*                                                                         *)
(* A block is its height and the number of times that blocks had been      *)
(* removed when it came.  Its rows are kept as one: the block whose        *)
(* transactions are shown, of which the first, the coinbase, is in no      *)
(* other block, and the block whose hash is shown with them.  One page is  *)
(* rendered at a time.                                                     *)
(***************************************************************************)
EXTENDS Integers, Sequences, SequencesExt

CONSTANTS
    PageLength,     \* no_of_last_blocks, limit
    CacheSize,      \* max_cache_size of block_tx_cache
    SpendableAge,   \* CRYPTONOTE_DEFAULT_TX_SPENDABLE_AGE
    FirstLength,    \* height of the chain at the start
    MaxLength,      \* bound: height of the chain
    Replaceable,    \* bound: blocks that a reorganisation removes
    MaxReorgs       \* bound: reorganisations

ASSUME PagesOK ==
    /\ PageLength \in Nat \ {0} /\ CacheSize \in Nat \ {0} /\ SpendableAge \in Nat
    /\ FirstLength \in 1 .. MaxLength /\ Replaceable \in Nat /\ MaxReorgs \in Nat

VARIABLES
    blocks, reorgs,     \* the chain, and how often blocks were removed from it
    items, queue,       \* block_tx_cache: its map, and its keys, the last one put first
    shown,              \* the page under way: step, kind, height, first, i, the block read,
                        \* its hash, the rows, and the heights whose cached rows were wrong
    stood,              \* history: blocks that were in the chain since the page was asked for
    reader              \* the reader: page to ask for, heights seen, height at its first page

chainVars == <<blocks, reorgs>>
cacheVars == <<items, queue>>
pagesVars == <<chainVars, cacheVars, shown, stood, reader>>

null_hash == -1
NoPageYet == [step |-> "none", kind |-> "index2", number |-> 0, height |-> 0, first |-> 0, i |-> 0,
              block |-> 0, hash |-> null_hash, rows |-> {}, wrong |-> {}]
NewReader == [next |-> 0, seen |-> {}, from |-> 0, done |-> FALSE]

Chain(c)  == {<<h - 1, c[h]>> : h \in DOMAIN c}
HasHeight(h) == h \in 0 .. Len(blocks) - 1

PagesInit ==
    /\ blocks = [h \in 1 .. FirstLength |-> 0]
    /\ reorgs = 0
    /\ items = << >> /\ queue = << >>
    /\ shown = NoPageYet
    /\ stood = {}
    /\ reader = NewReader
-----------------------------------------------------------------------------
\* The node.
NodeAdds ==
    /\ Len(blocks) < MaxLength
    /\ blocks' = Append(blocks, reorgs)
    /\ stood' = IF shown.step = "none" THEN {} ELSE stood \cup Chain(blocks')
    /\ UNCHANGED <<reorgs, cacheVars, shown, reader>>

NodeRemoves ==
    /\ reorgs < MaxReorgs
    /\ \E n \in 1 .. Replaceable :
          /\ n < Len(blocks)
          /\ blocks' = SubSeq(blocks, 1, Len(blocks) - n)
    /\ reorgs' = reorgs + 1
    /\ UNCHANGED <<cacheVars, shown, stood, reader>>
-----------------------------------------------------------------------------
\* Seeded fault: the last page is left out.
total_page_noShort(height) == height \div PageLength - 1

\* The heights of a page.  The difference is unsigned and then read as signed, so that
\* it is negative on the page after the oldest block.
firstHeight(height, number) ==
    LET start_height == height - PageLength * (number + 1)
    IN  IF start_height < 0 THEN 0 ELSE start_height
total_page_no(height) == height \div PageLength

\* A page is asked for, and takes the height of the chain.
AskForPage(kind) ==
    /\ shown.step = "none"
    /\ ~reader.done
    /\ reader.next > 0 => kind = shown.kind
    /\ LET first == firstHeight(Len(blocks), reader.next)
       IN  shown' = [NoPageYet EXCEPT !.step = "block", !.kind = kind, !.number = reader.next,
                                      !.height = Len(blocks), !.first = first,
                                      !.i = first + PageLength - 1]
    /\ stood' = Chain(blocks)
    /\ reader' = IF reader.next = 0 THEN [reader EXCEPT !.from = Len(blocks)] ELSE reader
    /\ UNCHANGED <<chainVars, cacheVars>>

\* The page ends without an answer, and the reader begins anew.
Fail ==
    /\ shown' = NoPageYet
    /\ stood' = {}
    /\ reader' = NewReader
    /\ UNCHANGED <<chainVars, cacheVars>>

\* get_block_by_height fails: index2 goes on, json_transactions answers with an error.
NoBlockAt ==
    /\ shown.step = "block" /\ shown.i >= shown.first
    /\ ~HasHeight(shown.i)
    /\ IF shown.kind = "index2"
       THEN shown' = [shown EXCEPT !.i = @ - 1] /\ UNCHANGED <<chainVars, cacheVars, stood, reader>>
       ELSE Fail

GetBlock ==
    /\ shown.step = "block" /\ shown.i >= shown.first
    /\ HasHeight(shown.i)
    /\ shown' = [shown EXCEPT !.step = "hash", !.block = blocks[shown.i + 1]]
    /\ UNCHANGED <<chainVars, cacheVars, stood, reader>>

\* The hash and the size are read by the height again: get_block_size throws, and
\* nobody catches it, when the block is gone.
GetHash ==
    /\ shown.step = "hash"
    /\ IF HasHeight(shown.i)
       THEN /\ shown' = [shown EXCEPT !.step = "rows", !.hash = blocks[shown.i + 1]]
            /\ UNCHANGED <<chainVars, cacheVars, stood, reader>>
       ELSE Fail

Row == [height |-> shown.i, block |-> shown.block, hash |-> shown.hash]
NextBlock(page) == [page EXCEPT !.step = "block", !.i = @ - 1]
Cached == shown.kind = "index2" /\ shown.i \in DOMAIN items

\* Seeded fault: the cached rows are not checked.
StillExpectedAlways(row) == TRUE

\* Is the coinbase of the cached rows still in the block at this height?  Asked of the
\* last blocks only.
StillExpected(row) ==
    shown.i + SpendableAge > shown.height => HasHeight(shown.i) /\ blocks[shown.i + 1] = row.block

\* Rows from the cache.  When the check fails, the break leaves the loop over the rows
\* before the code that clears the cache: the block is shown without rows.
RowsFromCache ==
    /\ shown.step = "rows" /\ Cached
    /\ LET row == items[shown.i]
       IN  shown' = NextBlock(IF StillExpected(row) THEN [shown EXCEPT !.rows = @ \cup {row}]
                                                    ELSE [shown EXCEPT !.wrong = @ \cup {shown.i}])
    /\ UNCHANGED <<chainVars, cacheVars, stood, reader>>

\* Put, of a key that the cache does not hold: when it is full, the oldest one goes.
Put(key, row) ==
    LET full == Len(queue) + 1 > CacheSize
        kept == IF full THEN DOMAIN items \ {Last(queue)} ELSE DOMAIN items
    IN  /\ queue' = <<key>> \o (IF full THEN Front(queue) ELSE queue)
        /\ items' = [h \in kept \cup {key} |-> IF h = key THEN row ELSE items[h]]

\* Rows from the node.
RowsFromNode ==
    /\ shown.step = "rows" /\ ~Cached
    /\ shown' = NextBlock([shown EXCEPT !.rows = @ \cup {Row}])
    /\ IF shown.kind = "index2" THEN Put(shown.i, Row) ELSE UNCHANGED cacheVars
    /\ UNCHANGED <<chainVars, stood, reader>>

\* The page is answered, and the reader turns it.
AnswerPage ==
    /\ shown.step = "block" /\ shown.i < shown.first
    /\ shown' = [NoPageYet EXCEPT !.kind = shown.kind]
    /\ stood' = {}
    /\ reader' = [reader EXCEPT !.next = @ + 1, !.seen = @ \cup {r.height : r \in shown.rows},
                                !.done = shown.number >= total_page_no(shown.height)]
    /\ UNCHANGED <<chainVars, cacheVars>>

\* The reader begins anew.
BeginAgain ==
    /\ reader.done
    /\ reader' = NewReader
    /\ shown' = NoPageYet
    /\ UNCHANGED <<chainVars, cacheVars, stood>>

RenderPage == NoBlockAt \/ GetBlock \/ GetHash \/ RowsFromCache \/ RowsFromNode \/ AnswerPage

PagesNext ==
    \/ NodeAdds \/ NodeRemoves
    \/ \E kind \in {"index2", "json_transactions"} : AskForPage(kind)
    \/ RenderPage
    \/ BeginAgain

PagesSpec == PagesInit /\ [][PagesNext]_pagesVars
-----------------------------------------------------------------------------
\* The rows a page shows for the last blocks are of blocks that stood in the chain while
\* it was rendered: what a reorganisation took away before is not shown from the cache
\* there.  Of older blocks nothing is promised (page.h:686-725).  And a block is shown
\* with its own hash, though the two are read one after the other: only rows of a block
\* that has been replaced carry another hash, from the cache too (page.h:632-643, 845).
LastRowsStood ==
    \A r \in shown.rows :
        /\ <<r.height, r.block>> \in stood \/ r.height + SpendableAge <= shown.height
        /\ <<r.height, r.block>> \in Chain(blocks) => r.hash = r.block

\* A reader who turns the pages up to the last one announced has seen every block that
\* was there when he began, though new blocks move the others to later pages, unless
\* blocks were removed (page.h:572, 603-608, 4701-4706).
ReaderSeesEveryBlock ==
    (reader.done /\ reorgs = 0) => 0 .. reader.from - 1 \subseteq reader.seen

\* "we are going to ditch the cache, in a monent" (page.h:709-711): a page that has found
\* cached rows wrong leaves no wrong rows for that height.
WrongRowsAreDitched ==
    (shown.step = "block" /\ shown.i < shown.first) =>
        \A h \in shown.wrong \cap DOMAIN items : <<h, items[h].block>> \in Chain(blocks)
=============================================================================
