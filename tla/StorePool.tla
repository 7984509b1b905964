------------------------------ MODULE StorePool ------------------------------
(***************************************************************************)
(* The storing threads of multithreads.h, the variant with pools.  The     *)
(* parsing thread pushes rows onto shared vectors.  A vector has either    *)
(* one thread, which looks before it takes the lock, or a pool of threads, *)
(* which look with the lock held; every thread writes to a database file   *)
(* of its own.  All threads leave by the same test: the vector is empty,   *)
(* read without the lock, and then isAllBlockDone.                         *)
(***************************************************************************)
EXTENDS Integers, Sequences

CONSTANTS
    Vectors,        \* the shared vectors
    Threads,        \* the storing threads
    VectorOf,       \* VectorOf[t]: the vector that thread t empties
    Lookers,        \* the threads that look before they take the lock
    MaxPushed       \* bound: rows pushed onto each vector

\* A thread that looks before it takes the lock has its vector for itself.
ASSUME PoolOK ==
    /\ VectorOf \in [Threads -> Vectors]
    /\ Lookers \subseteq Threads
    /\ \A t \in Lookers, u \in Threads : VectorOf[t] = VectorOf[u] => t = u
    /\ MaxPushed \in Nat

VARIABLES
    pushed,         \* pushed[v]: how many rows have been pushed onto v
    waiting,        \* waiting[v]: the rows in v, a row being its ordinal
    blocksDone,     \* isAllBlockDone
    at,             \* at[t]: the statement that thread t does next
    temp,           \* temp[t]: the local vector of thread t
    database        \* database[t]: the rows in the database file of thread t

poolVars == <<pushed, waiting, blocksDone, at, temp, database>>

Pool(v) == {t \in Threads : VectorOf[t] = v}

\* The first statement of a thread's loop.
LoopStart(t) == IF t \in Lookers THEN "look" ELSE "take"

PoolInit ==
    /\ pushed = [v \in Vectors |-> 0]
    /\ waiting = [v \in Vectors |-> <<>>]
    /\ blocksDone = FALSE
    /\ at = [t \in Threads |-> LoopStart(t)]
    /\ temp = [t \in Threads |-> <<>>]
    /\ database = [t \in Threads |-> <<>>]

Goto(t, from, to) == at[t] = from /\ at' = [at EXCEPT ![t] = to]
-----------------------------------------------------------------------------
\* xmrProcessor: push_back of one row under the mutex of its vector.
PushRow(v) ==
    /\ ~blocksDone
    /\ pushed[v] < MaxPushed
    /\ pushed' = [pushed EXCEPT ![v] = @ + 1]
    /\ waiting' = [waiting EXCEPT ![v] = Append(@, pushed[v] + 1)]
    /\ UNCHANGED <<blocksDone, at, temp, database>>

SetBlocksDone ==
    /\ ~blocksDone
    /\ blocksDone' = TRUE
    /\ UNCHANGED <<pushed, waiting, at, temp, database>>

\* if(!v.empty()), without the lock.
Look(t) ==
    /\ Goto(t, "look", IF waiting[VectorOf[t]] = <<>> THEN "testEmpty" ELSE "remove")
    /\ UNCHANGED <<pushed, waiting, blocksDone, temp, database>>

\* The locked section of a thread that has looked before: v[0] and erase.
EraseFirst(t) ==
    /\ Goto(t, "remove", "insert")
    /\ temp' = [temp EXCEPT ![t] = Append(@, Head(waiting[VectorOf[t]]))]
    /\ waiting' = [waiting EXCEPT ![VectorOf[t]] = Tail(@)]
    /\ UNCHANGED <<pushed, blocksDone, database>>

\* Seeded fault: the row is copied with the lock and erased by nobody.
TakeKeeps(t) ==
    /\ Goto(t, "take", IF waiting[VectorOf[t]] = <<>> THEN "testEmpty" ELSE "insert")
    /\ temp' = [temp EXCEPT ![t] =
                  IF waiting[VectorOf[t]] = <<>> THEN @
                  ELSE Append(@, Head(waiting[VectorOf[t]]))]
    /\ UNCHANGED <<pushed, waiting, blocksDone, database>>

\* The locked section of a pool's thread: look, copy v[0], erase it.
Take(t) ==
    \/ /\ waiting[VectorOf[t]] # <<>>
       /\ Goto(t, "take", "insert")
       /\ temp' = [temp EXCEPT ![t] = Append(@, Head(waiting[VectorOf[t]]))]
       /\ waiting' = [waiting EXCEPT ![VectorOf[t]] = Tail(@)]
       /\ UNCHANGED <<pushed, blocksDone, database>>
    \/ /\ waiting[VectorOf[t]] = <<>>
       /\ Goto(t, "take", "testEmpty")
       /\ UNCHANGED <<pushed, waiting, blocksDone, temp, database>>

\* insert...(temp[0]) and temp.erase.  The single threads test for the end only
\* in the else branch, the pool's threads after every row.
InsertRow(t) ==
    /\ Goto(t, "insert", IF t \in Lookers THEN "look" ELSE "testEmpty")
    /\ database' = [database EXCEPT ![t] = Append(@, Head(temp[t]))]
    /\ temp' = [temp EXCEPT ![t] = Tail(@)]
    /\ UNCHANGED <<pushed, waiting, blocksDone>>

\* Seeded fault: || instead of && between the two halves of the exit test.
TestEmptyOr(t) ==
    /\ Goto(t, "testEmpty", IF waiting[VectorOf[t]] = <<>> THEN "stopped" ELSE "testDone")
    /\ UNCHANGED <<pushed, waiting, blocksDone, temp, database>>

\* v.empty() && isAllBlockDone, left operand, without the lock.
TestEmpty(t) ==
    /\ Goto(t, "testEmpty",
            IF waiting[VectorOf[t]] = <<>> THEN "testDone" ELSE LoopStart(t))
    /\ UNCHANGED <<pushed, waiting, blocksDone, temp, database>>

\* v.empty() && isAllBlockDone, right operand.
TestDone(t) ==
    /\ Goto(t, "testDone", IF blocksDone THEN "stopped" ELSE LoopStart(t))
    /\ UNCHANGED <<pushed, waiting, blocksDone, temp, database>>

PoolStep(t) ==
    \/ Look(t) \/ EraseFirst(t) \/ Take(t) \/ InsertRow(t) \/ TestEmpty(t) \/ TestDone(t)

PoolEnded == (\A t \in Threads : at[t] = "stopped") /\ UNCHANGED poolVars

PoolNext ==
    \/ \E v \in Vectors : PushRow(v)
    \/ SetBlocksDone
    \/ \E t \in Threads : PoolStep(t)
    \/ PoolEnded

PoolSpec == PoolInit /\ [][PoolNext]_poolVars
-----------------------------------------------------------------------------
Places == {"look", "remove", "take", "insert", "testEmpty", "testDone", "stopped"}

\* Types of the state of the pools.
PoolTypeOK ==
    /\ pushed \in [Vectors -> Nat]
    /\ waiting \in [Vectors -> Seq(Nat)]
    /\ blocksDone \in BOOLEAN
    /\ at \in [Threads -> Places]
    /\ temp \in [Threads -> Seq(Nat)]
    /\ database \in [Threads -> Seq(Nat)]

\* What thread t has taken so far.
Taken(t) == database[t] \o temp[t]

\* Every row that has left the vector is in exactly one thread's hands, at exactly
\* one place, and those that have not left it are the newest, in order
\* (multithreads.h:671-681 and its nine copies: two threads of a pool neither store
\* the same row nor drop one between them).
RowsAccountedFor ==
    \A v \in Vectors :
        LET left == Len(waiting[v]) IN
        /\ \A i \in 1 .. left : waiting[v][i] = pushed[v] - left + i
        /\ \A r \in 1 .. pushed[v] - left :
              \E t \in Pool(v) : \E i \in DOMAIN Taken(t) : Taken(t)[i] = r
        /\ \A t \in Pool(v) : \A i \in DOMAIN Taken(t) :
              /\ Taken(t)[i] \in 1 .. pushed[v] - left
              /\ \A u \in Pool(v) : \A j \in DOMAIN Taken(u) :
                    Taken(t)[i] = Taken(u)[j] => t = u /\ i = j

\* The rows of one database file keep the order in which they were parsed
\* (multithreads.h:679: a thread inserts a row before it takes another).
FilesInOrder ==
    \A t \in Threads : \A i, j \in DOMAIN Taken(t) : i < j => Taken(t)[i] < Taken(t)[j]

\* A thread that looked without the lock still finds the row when it has the lock
\* (multithreads.h:472-476: v[0] of an empty vector is undefined).
LookedRowIsThere ==
    \A t \in Threads : at[t] = "remove" => waiting[VectorOf[t]] # <<>>

\* Rows are neither dropped nor stored twice nor disordered, and none is looked for that
\* another thread has taken.
PoolKeepsRows == RowsAccountedFor /\ FilesInOrder /\ LookedRowIsThere

\* Once parsing is over, one thread of a pool that is not between the two halves of its
\* exit test is enough for every waiting row to be stored and every thread to leave its
\* loop, whatever the others do (multithreads.h:700-702: a thread that reads empty()
\* before the last push and the flag after it leaves rows behind; the pool then relies
\* on its other threads).
PoolFinishes ==
    \A v \in Vectors :
        (blocksDone /\ \E t \in Pool(v) : at[t] \notin {"testDone", "stopped"})
            ~> (waiting[v] = <<>> /\ \A t \in Pool(v) : temp[t] = <<>> /\ at[t] = "stopped")
=============================================================================
