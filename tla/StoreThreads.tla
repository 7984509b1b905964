---------------------------- MODULE StoreThreads ----------------------------
(***************************************************************************)
(* The pipeline between the thread that parses blocks and the threads that *)
(* write to SQLite and RocksDB.  xmrProcessor pushes rows onto shared      *)
(* vectors, each under its own mutex; every storing thread loops over the  *)
(* vectors it owns, takes rows out, hands them to an insert call, and ends *)
(* each round with an exit test that reads `empty()' of its vectors and    *)
(* the flag isAllBlockDone without any lock, one load after the other.     *)
(*                                                                         *)
(* Which thread owns which vectors, in which order it visits them and in   *)
(* which order its exit test reads them is the topology: it is given by    *)
(* the constants, and module ParserTopology holds the ones of the code.    *)
(*                                                                         *)
(* A row is its ordinal within its vector: the first row ever pushed onto  *)
(* q is 1.  Critical sections (lock ... unlock) are one step, unlocked     *)
(* loads are one step each.                                                *)
(***************************************************************************)
EXTENDS Naturals, Sequences

CONSTANTS
    Queue,      \* the shared vectors
    Producer,   \* the threads that run xmrProcessor
    Follows,    \* the order of pushes: <<last place, next place>>
    Thread,     \* the storing threads
    Body,       \* Body[t]: the vectors one round of t visits, in order
    OneByOne,   \* the vectors whose rows are taken one at a time (hash-id)
    ElseExit,   \* threads that test for exit only in a round without a row
    ExitTest,   \* ExitTest[t]: what the exit test of t reads, left to right
    Batch,      \* rows that make a batch before the run ends: 1000
    MaxRows     \* bound: rows pushed onto one vector

Start == "start"                \* the place of a producer before its first push
Stop  == "stop"                 \* the place of a producer that has returned
Flag  == "isAllBlockDone"       \* the flag, as an entry of an exit test

Place == Queue \cup {Start, Stop}

ASSUME ConstantsOK ==
    /\ Queue \cap {Start, Stop, Flag} = {}
    /\ Follows \subseteq Place \X Place
    /\ \A e \in Follows : e[1] # Stop
    /\ Body \in [Thread -> Seq(Queue)]
    /\ ExitTest \in [Thread -> Seq(Queue \cup {Flag})]
    /\ \A t \in Thread : Body[t] # <<>> /\ ExitTest[t] # <<>>
    /\ OneByOne \subseteq Queue
    /\ ElseExit \subseteq Thread
    /\ Batch \in Nat \ {0}
    /\ MaxRows \in Nat

\* No two visits, of one thread or of two, are to the same vector.
ASSUME OneOwner ==
    \A t, u \in Thread : \A i \in 1 .. Len(Body[t]), j \in 1 .. Len(Body[u]) :
        Body[t][i] = Body[u][j] => t = u /\ i = j

VARIABLES
    made,             \* made[q]: rows pushed onto q so far
    place,            \* place[p]: where producer p is, its last push
    queue,            \* queue[q]: the shared vector
    local,            \* local[q]: the rows the owner of q took and has not inserted
    store,            \* store[q]: the rows handed to the insert call of q
    isAllBlockDone,
    pc,               \* pc[t]: what t does next
    at                \* at[t]: at which entry of Body[t] or ExitTest[t]

vars == <<made, place, queue, local, store, isAllBlockDone, pc, at>>

Rows(n) == [i \in 1 .. n |-> i]

Init ==
    /\ made = [q \in Queue |-> 0]
    /\ place = [p \in Producer |-> Start]
    /\ queue = [q \in Queue |-> <<>>]
    /\ local = [q \in Queue |-> <<>>]
    /\ store = [q \in Queue |-> <<>>]
    /\ isAllBlockDone = FALSE
    /\ pc = [t \in Thread |-> "body"]
    /\ at = [t \in Thread |-> 1]

-----------------------------------------------------------------------------
(* The producers: xmrProcessor, and the end of the run.                    *)

\* lock; q.push_back(row); unlock
Push(p, q) ==
    /\ <<place[p], q>> \in Follows
    /\ made[q] < MaxRows
    /\ place' = [place EXCEPT ![p] = q]
    /\ made' = [made EXCEPT ![q] = @ + 1]
    /\ queue' = [queue EXCEPT ![q] = Append(@, made[q] + 1)]
    /\ UNCHANGED <<local, store, isAllBlockDone, pc, at>>

\* The last block of p's range has been processed.
Return(p) ==
    /\ <<place[p], Stop>> \in Follows
    /\ place' = [place EXCEPT ![p] = Stop]
    /\ UNCHANGED <<made, queue, local, store, isAllBlockDone, pc, at>>

\* Seeded fault: the flag is set without waiting for the producers.
SetAllBlockDoneEarly ==
    /\ ~isAllBlockDone
    /\ isAllBlockDone' = TRUE
    /\ UNCHANGED <<made, place, queue, local, store, pc, at>>

\* isAllBlockDone = true, after the only producer's loop or after the joins.
SetAllBlockDone ==
    /\ ~isAllBlockDone
    /\ \A p \in Producer : place[p] = Stop
    /\ isAllBlockDone' = TRUE
    /\ UNCHANGED <<made, place, queue, local, store, pc, at>>

-----------------------------------------------------------------------------
(* A storing thread.                                                       *)

Goto(t, where, i) ==
    /\ pc' = [pc EXCEPT ![t] = where]
    /\ at' = [at EXCEPT ![t] = i]

\* Seeded fault: the last visit of a round is not recognised as the last.
NextVisitOffByOne(t) ==
    IF at[t] <= Len(Body[t]) THEN Goto(t, "body", at[t] + 1)
                             ELSE Goto(t, "exit", 1)

NextVisit(t) ==
    IF at[t] < Len(Body[t]) THEN Goto(t, "body", at[t] + 1)
                            ELSE Goto(t, "exit", 1)

AfterInsert(t) == IF t \in ElseExit THEN Goto(t, "body", 1) ELSE NextVisit(t)

\* Seeded fault: no test before element 0 is taken.
PeekHashUntested(t, q) ==
    /\ pc[t] = "body" /\ q = Body[t][at[t]] /\ q \in OneByOne
    /\ Goto(t, "pop", at[t])
    /\ UNCHANGED <<made, place, queue, local, store, isAllBlockDone>>

\* if(!q.empty()), read without the lock
PeekHash(t, q) ==
    /\ pc[t] = "body" /\ q = Body[t][at[t]] /\ q \in OneByOne
    /\ IF queue[q] # <<>> THEN Goto(t, "pop", at[t]) ELSE NextVisit(t)
    /\ UNCHANGED <<made, place, queue, local, store, isAllBlockDone>>

\* Seeded fault: the newest row is taken, not the oldest.
PopHashBack(t, q) ==
    /\ pc[t] = "pop" /\ q = Body[t][at[t]]
    /\ local' = [local EXCEPT ![q] = SubSeq(queue[q], Len(queue[q]), Len(queue[q]))]
    /\ queue' = [queue EXCEPT ![q] = SubSeq(@, 1, Len(@) - 1)]
    /\ Goto(t, "insert", at[t])
    /\ UNCHANGED <<made, place, store, isAllBlockDone>>

\* lock; h.push_back(q[0]); q.erase(q.begin()); unlock
PopHash(t, q) ==
    /\ pc[t] = "pop" /\ q = Body[t][at[t]]
    /\ local' = [local EXCEPT ![q] = SubSeq(queue[q], 1, 1)]
    /\ queue' = [queue EXCEPT ![q] = Tail(@)]
    /\ Goto(t, "insert", at[t])
    /\ UNCHANGED <<made, place, store, isAllBlockDone>>

\* Seeded fault: a short vector is not taken at the end of the run either.
TakesFullBatch(q) == Len(queue[q]) >= Batch

\* The whole vector, once it is a batch or once the run has ended.
TakesAll(q) == Len(queue[q]) >= Batch \/ isAllBlockDone

\* lock; if(...) { d = q; q.erase(begin, end) }; unlock; if(!d.empty())
TakeBatch(t, q) ==
    /\ pc[t] = "body" /\ q = Body[t][at[t]] /\ q \notin OneByOne
    /\ IF TakesAll(q) /\ queue[q] # <<>>
       THEN /\ local' = [local EXCEPT ![q] = queue[q]]
            /\ queue' = [queue EXCEPT ![q] = <<>>]
            /\ Goto(t, "insert", at[t])
       ELSE /\ NextVisit(t)
            /\ UNCHANGED <<local, queue>>
    /\ UNCHANGED <<made, place, store, isAllBlockDone>>

\* Seeded fault: the local vector is not cleared after the insert.
InsertKeepsLocal(t, q) ==
    /\ pc[t] = "insert" /\ q = Body[t][at[t]]
    /\ store' = [store EXCEPT ![q] = @ \o local[q]]
    /\ AfterInsert(t)
    /\ UNCHANGED <<made, place, queue, local, isAllBlockDone>>

\* insertKey(hash, id), or insertXData(d); d.clear()
Insert(t, q) ==
    /\ pc[t] = "insert" /\ q = Body[t][at[t]]
    /\ store' = [store EXCEPT ![q] = @ \o local[q]]
    /\ local' = [local EXCEPT ![q] = <<>>]
    /\ AfterInsert(t)
    /\ UNCHANGED <<made, place, queue, isAllBlockDone>>

\* The entry of the exit test that t reads next holds.
Holds(t) ==
    IF ExitTest[t][at[t]] = Flag THEN isAllBlockDone
                                 ELSE queue[ExitTest[t][at[t]]] = <<>>

\* One operand of `a.empty() && ... && isAllBlockDone'; break when all hold.
ReadExit(t) ==
    /\ pc[t] = "exit"
    /\ IF ~Holds(t) THEN Goto(t, "body", 1)
       ELSE IF at[t] < Len(ExitTest[t]) THEN Goto(t, "exit", at[t] + 1)
       ELSE Goto(t, "stopped", 1)
    /\ UNCHANGED <<made, place, queue, local, store, isAllBlockDone>>

Produce(p) == Return(p) \/ \E q \in Queue : Push(p, q)

Step(t) ==
    \/ ReadExit(t)
    \/ \E q \in Queue :
          PeekHash(t, q) \/ PopHash(t, q) \/ TakeBatch(t, q) \/ Insert(t, q)

AllStopped == isAllBlockDone /\ \A t \in Thread : pc[t] = "stopped"

\* The main thread has joined every thread.
Joined == AllStopped /\ UNCHANGED vars

Next ==
    \/ \E p \in Producer : Produce(p)
    \/ SetAllBlockDone
    \/ \E t \in Thread : Step(t)
    \/ Joined

Spec == Init /\ [][Next]_vars

(* Every thread is an operating system thread that is never blocked for    *)
(* good (the locks are held for one step), so each keeps taking steps.     *)
Fairness ==
    /\ \A p \in Producer : WF_vars(Produce(p))
    /\ WF_vars(SetAllBlockDone)
    /\ \A t \in Thread : WF_vars(Step(t))

FairSpec == Spec /\ Fairness
-----------------------------------------------------------------------------
(* What an exit test needs.                                                *)

Owned(t)   == {Body[t][i] : i \in 1 .. Len(Body[t])}
Late(t, f) == {ExitTest[t][i] : i \in f + 1 .. Len(ExitTest[t])}

\* The exit test of t reads the flag at f, and every vector of t either after
\* the flag, or before it and in O: a set of places that no producer leaves
\* without a push onto a vector that is read after the flag.
CoveredBy(t, f, O) ==
    /\ ExitTest[t][f] = Flag
    /\ Late(t, f) \subseteq Owned(t)
    /\ \A q \in Owned(t) \ Late(t, f) :
          q \in O /\ \E i \in 1 .. f - 1 : ExitTest[t][i] = q
    /\ Stop \notin O
    /\ \A e \in Follows : e[1] \in O => e[2] \in O \cup Late(t, f)

\* Every flag position and set of places that cover the exit test of t.
Coverings ==
    [t \in Thread |->
        {c \in (1 .. Len(ExitTest[t])) \X SUBSET Place : CoveredBy(t, c[1], c[2])}]

ExitTestsCovered == \A t \in Thread : Coverings[t] # {}

\* What a covered exit test knows of a vector it has read before the flag: it
\* is still empty, or the row that came since is announced, by a producer that
\* has yet to push onto a vector read late, or by a row in such a vector.
Announced(t, f, O, q) ==
    \/ queue[q] = <<>>
    \/ \E p \in Producer : place[p] \in O
    \/ \E l \in Late(t, f) : queue[l] # <<>>

\* What the reads made so far, at entries before at[t], have established.
ReadSoFar(t, f, O) ==
    /\ at[t] > f => isAllBlockDone
    /\ \A i \in f + 1 .. Len(ExitTest[t]) :
          i < at[t] => queue[ExitTest[t][i]] = <<>>
    /\ \A i \in 1 .. f - 1 :
          i < at[t] /\ ExitTest[t][i] \in Owned(t)
             => Announced(t, f, O, ExitTest[t][i])

Drained(t) == isAllBlockDone /\ \A q \in Owned(t) : queue[q] = <<>>

-----------------------------------------------------------------------------
TypeOK ==
    /\ made \in [Queue -> 0 .. MaxRows]
    /\ place \in [Producer -> Place]
    /\ queue \in [Queue -> Seq(Nat)]
    /\ local \in [Queue -> Seq(Nat)]
    /\ store \in [Queue -> Seq(Nat)]
    /\ isAllBlockDone \in BOOLEAN
    /\ pc \in [Thread -> {"body", "pop", "insert", "exit", "stopped"}]
    /\ at \in [Thread -> Nat \ {0}]
    /\ \A t \in Thread :
          at[t] <= IF pc[t] = "exit" THEN Len(ExitTest[t]) ELSE Len(Body[t])

\* Whatever the interleaving of pushes, pops, copies and erasures, each vector
\* is a first-in first-out channel: the rows inserted, then the rows its owner
\* holds, then the rows still in the vector are exactly the rows pushed, once
\* each and in the order of the pushes.
Conserved ==
    \A q \in Queue : store[q] \o local[q] \o queue[q] = Rows(made[q])

\* A hash-id thread tests `empty()' without the lock and takes element 0 under
\* it later: when it does, the element exists (parser.h:515-521 and its kind).
PopsARow ==
    \A t \in Thread : pc[t] = "pop" => queue[Body[t][at[t]]] # <<>>

\* A thread that has broken out of its loop has inserted every row of every
\* vector it owns: the rows main() counts as saved when the joins return.
NothingLeftBehind ==
    \A t \in Thread : pc[t] = "stopped" =>
        \A i \in 1 .. Len(Body[t]) : store[Body[t][i]] = Rows(made[Body[t][i]])

\* The exit test of every thread fits the order in which the parser pushes: a
\* vector whose `empty()' is read before the flag is one whose next row is
\* followed, before the run ends, by a row of a vector read after the flag
\* (parser.h:580, 682, 760).  So no read is out of date without a later read of
\* the same test that fails, and a thread that stops has found all it owns empty.
ReadsStayGood ==
    \A t \in Thread :
        /\ Coverings[t] # {}
        /\ \A c \in Coverings[t] : pc[t] = "exit" => ReadSoFar(t, c[1], c[2])
        /\ pc[t] = "stopped" => Drained(t)

\* The two together: the loop of dataConsumerThread, which ends for all vectors by one
\* test that reads twelve of them before the flag and two after it, leaves no row behind,
\* and what its test has read stays good (parser-7thread.h:793).
ExitIsSafe == NothingLeftBehind /\ ReadsStayGood

\* Once the parser has set the flag every storing thread breaks out of its
\* loop, so that the joins of main() return.
EveryThreadStops == <>[](\A t \in Thread : pc[t] = "stopped")

\* The pipeline implements the row log.
Log == INSTANCE RowLog WITH
    logged <- [q \in Queue |-> Rows(made[q])],
    stored <- store,
    closed <- isAllBlockDone

ImplementsLog == Log!Spec
=============================================================================
