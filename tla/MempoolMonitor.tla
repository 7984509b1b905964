---------------------------- MODULE MempoolMonitor ----------------------------
(***************************************************************************)
(* The mempool status thread (MempoolStatus) and the pages that read what  *)
(* it leaves.  The thread asks the node (external) for the transactions of *)
(* its pool every mempool_refresh_time seconds, and for the network info   *)
(* once a minute; a page copies both without waiting for the node.         *)
(*                                                                         *)
(* Time is counted in units of mempool_refresh_time.  It passes when the   *)
(* thread sleeps, and at most MaxDelay times in one turn of its loop while *)
(* it waits for the node.                                                  *)
(***************************************************************************)
EXTENDS Integers, FiniteSets

CONSTANTS
    Pools,      \* the sets of transactions that the node's pool can be
    BadTxs,     \* transactions whose blob does not parse
    Divider,    \* loop_index_divider
    Young,      \* the 120 seconds of index2, in units
    MaxDelay,   \* bound: units that pass in one turn while the node is slow
    MaxRender   \* bound: units that pass while one page is rendered

ASSUME MempoolOK ==
    /\ {} \in Pools /\ Divider \in Nat \ {0} /\ Young \in Nat
    /\ MaxDelay \in Nat /\ MaxRender \in Nat

VARIABLES
    up,             \* does the node answer?
    checker,        \* what the mempool thread does next
    loop_index,
    delayed,        \* units that have passed in this turn of the loop
    age,            \* units since the network info was read, at most Oldest
    current,        \* current_network_info.current
    reply,          \* transactions of the node's answer still to be parsed
    local_copy,     \* local_copy_of_mempool_txs
    mempool_txs, mempool_no,    \* what the pages find
    page            \* a page under way: its step, units since it was asked for,
                    \* whether the info was fresh when it was loaded, and shown as current

checkerVars == <<checker, loop_index, delayed, reply, local_copy, mempool_txs, mempool_no>>
mempoolVars == <<up, checkerVars, age, current, page>>

\* The longest that information stays marked as current, by the loop's own count: a
\* minute of turns, and the delays of those turns and of the failing one.
Longest == Divider * (1 + MaxDelay) + MaxDelay
Oldest  == IF Longest > Young + MaxRender THEN Longest + 1 ELSE Young + MaxRender + 1
NoPage  == [step |-> "none", since |-> 0, fresh |-> FALSE, current |-> FALSE]

\* A unit of time passes: for the info, and for a page that is being rendered.
Older(n) == IF n < Oldest THEN n + 1 ELSE n
Later(p) == IF p.step = "asked" THEN [p EXCEPT !.since = @ + 1] ELSE p

\* ++loop_index.  Of an index that has passed the divider only the remainder matters.
NextIndex(n) == IF n = 2 * Divider THEN Divider + 1 ELSE n + 1

MempoolInit ==
    /\ up \in BOOLEAN
    /\ checker = "turn"
    /\ loop_index = 0
    /\ delayed = 0
    /\ age = Oldest
    /\ current = FALSE
    /\ reply = {}
    /\ local_copy = {}
    /\ mempool_txs = {} /\ mempool_no = 0
    /\ page = NoPage
-----------------------------------------------------------------------------
\* The node.
NodeFailsOrHeals ==
    /\ up' = ~up
    /\ UNCHANGED <<checkerVars, age, current, page>>

\* The node is slow while the thread waits for it.
NodeDelays ==
    /\ checker \in {"info", "pool"}
    /\ delayed < MaxDelay
    /\ page.step = "asked" => page.since < MaxRender
    /\ delayed' = delayed + 1
    /\ age' = Older(age)
    /\ page' = Later(page)
    /\ UNCHANGED <<up, checker, loop_index, current, reply, local_copy, mempool_txs,
                   mempool_no>>
-----------------------------------------------------------------------------
\* One turn of the loop: is it time to ask for the network info?
Turn ==
    /\ checker = "turn"
    /\ checker' = IF loop_index % Divider = 0 THEN "info" ELSE "pool"
    /\ delayed' = 0
    /\ UNCHANGED <<up, loop_index, age, current, reply, local_copy, mempool_txs, mempool_no,
                   page>>

\* Seeded fault: what could not be read again stays marked as current.
read_network_info_keeps ==
    /\ checker = "info"
    /\ checker' = "pool"
    /\ IF up THEN current' = TRUE /\ age' = 0 /\ loop_index' = 0
             ELSE UNCHANGED <<current, age, loop_index>>
    /\ UNCHANGED <<up, delayed, reply, local_copy, mempool_txs, mempool_no, page>>

\* Seeded fault: a call that fails throws, and the thread ends.
read_network_info_throws ==
    /\ checker = "info"
    /\ IF up THEN checker' = "pool" /\ current' = TRUE /\ age' = 0 /\ loop_index' = 0
             ELSE checker' = "ended" /\ current' = FALSE /\ UNCHANGED <<age, loop_index>>
    /\ UNCHANGED <<up, delayed, reply, local_copy, mempool_txs, mempool_no, page>>

\* read_network_info and what the loop does with its result.  It fails when one of the
\* three calls fails.
read_network_info ==
    /\ checker = "info"
    /\ checker' = "pool"
    /\ IF up THEN current' = TRUE /\ age' = 0 /\ loop_index' = 0
             ELSE current' = FALSE /\ UNCHANGED <<age, loop_index>>
    /\ UNCHANGED <<up, delayed, reply, local_copy, mempool_txs, mempool_no, page>>

\* rpc.get_mempool: the transactions that the pool has then.
get_mempool ==
    /\ checker = "pool"
    /\ IF up THEN checker' = "parse" /\ reply' \in Pools
             ELSE checker' = "sleep" /\ UNCHANGED reply
    /\ local_copy' = {}
    /\ UNCHANGED <<up, loop_index, delayed, age, current, mempool_txs, mempool_no, page>>

\* Seeded fault: the transactions before the bad one are published.
ParseTxPartial ==
    /\ checker = "parse"
    /\ \E tx \in reply :
          IF tx \in BadTxs THEN reply' = {} /\ UNCHANGED <<checker, local_copy>>
                           ELSE reply' = reply \ {tx} /\ local_copy' = local_copy \cup {tx}
                                /\ UNCHANGED checker
    /\ UNCHANGED <<up, loop_index, delayed, age, current, mempool_txs, mempool_no, page>>

\* read_mempool, one transaction: a blob that does not parse ends it, and all is as before.
ParseTx ==
    /\ checker = "parse"
    /\ \E tx \in reply :
          IF tx \in BadTxs THEN checker' = "sleep" /\ UNCHANGED <<reply, local_copy>>
                           ELSE reply' = reply \ {tx} /\ local_copy' = local_copy \cup {tx}
                                /\ UNCHANGED checker
    /\ UNCHANGED <<up, loop_index, delayed, age, current, mempool_txs, mempool_no, page>>

\* The number is an atomic of its own, that pages read without the mutex ...
PublishNumber ==
    /\ checker = "parse" /\ reply = {}
    /\ checker' = "publish"
    /\ mempool_no' = Cardinality(local_copy)
    /\ UNCHANGED <<up, loop_index, delayed, age, current, reply, local_copy, mempool_txs,
                   page>>

\* ... and the vector is moved to where they find it under the mutex.
PublishTxs ==
    /\ checker = "publish"
    /\ checker' = "sleep"
    /\ mempool_txs' = local_copy
    /\ local_copy' = {}
    /\ UNCHANGED <<up, loop_index, delayed, age, current, reply, mempool_no, page>>

\* sleep_for, ++loop_index.
SleepRefresh ==
    /\ checker = "sleep"
    /\ page.step = "asked" => page.since < MaxRender
    /\ checker' = "turn"
    /\ loop_index' = NextIndex(loop_index)
    /\ age' = Older(age)
    /\ page' = Later(page)
    /\ UNCHANGED <<up, delayed, current, reply, local_copy, mempool_txs, mempool_no>>
-----------------------------------------------------------------------------
\* index2: the time is taken when the page is asked for ...
AskPage ==
    /\ page.step = "none"
    /\ page' = [NoPage EXCEPT !.step = "asked"]
    /\ UNCHANGED <<up, checkerVars, age, current>>

\* ... the info when the blocks have been rendered.  Information younger than 120 seconds
\* counts as current; the times are unsigned, so that information that is younger than
\* the page itself seems very old.
LoadInfo ==
    /\ page.step = "asked"
    /\ page' = [page EXCEPT !.step = "loaded", !.fresh = age < Young,
                            !.current = current \/ (age >= page.since /\ age - page.since < Young)]
    /\ UNCHANGED <<up, checkerVars, age, current>>

ShowPage ==
    /\ page.step = "loaded"
    /\ page' = NoPage
    /\ UNCHANGED <<up, checkerVars, age, current>>

MempoolThread ==
    \/ Turn \/ read_network_info \/ get_mempool \/ ParseTx \/ PublishNumber \/ PublishTxs
    \/ SleepRefresh

MempoolPage == AskPage \/ LoadInfo \/ ShowPage

MempoolNext == NodeFailsOrHeals \/ NodeDelays \/ MempoolThread \/ MempoolPage

MempoolSpec == MempoolInit /\ [][MempoolNext]_mempoolVars
-----------------------------------------------------------------------------
\* What the pages list is a whole pool of the node's: neither a call that fails nor a
\* blob that does not parse leaves a part of one (MempoolStatus.cpp:104-107 "this
\* ensures that we don't sent out partial mempool txs to other places").  Between two
\* turns the number shown is that of the list; a page can see them differ only while the
\* thread publishes (MempoolStatus.cpp:203-212 against page.h:977-994).
ListIsOnePool ==
    /\ mempool_txs \in Pools
    /\ checker # "publish" => mempool_no = Cardinality(mempool_txs)

\* Information marked as current is at most a minute of turns old, however often the
\* node fails: the attempt that fails takes the mark away (MempoolStatus.cpp:46-62).
CurrentIsRecent == current => age <= Longest

\* The unsigned difference makes a page doubt information that is younger than the page.
\* That takes a reading and a failing attempt while one page is rendered, so that only a
\* page of more than a minute is affected (page.h:887-892, MempoolStatus.cpp:46-62).
FreshInfoIsTrusted ==
    (page.step = "loaded" /\ ~page.current) => ~page.fresh \/ page.since > Divider

\* The mark and the age of the network information tell a page how far to trust it.
InfoIsWhatItSeems == CurrentIsRecent /\ FreshInfoIsTrusted

\* When the node answers for good, the information is current again and again, also
\* after any number of failures, which leave loop_index where it is
\* (MempoolStatus.cpp:46-79).
InfoHeals == <>[]up => []<>current
=============================================================================
