------------------------- MODULE StoreThreadsProofs -------------------------
(***************************************************************************)
(* Proofs about StoreThreads, for every set of vectors and threads, every  *)
(* order of pushes and every batch size that satisfies its assumptions:    *)
(* type correctness, conservation of the rows, that a popped row exists,   *)
(* the implementation of RowLog, and that a covered exit test is safe.     *)
(***************************************************************************)
EXTENDS StoreThreads, SequenceTheorems, TLAPS

-----------------------------------------------------------------------------
(* Sequences of rows.                                                      *)

LEMMA RowsFacts ==
    ASSUME NEW n \in Nat
    PROVE  /\ Rows(n) \in Seq(Nat)
           /\ Len(Rows(n)) = n
           /\ Append(Rows(n), n + 1) = Rows(n + 1)
<1>1. \A m \in Nat : Rows(m) \in Seq(Nat) /\ Len(Rows(m)) = m
  BY SMT DEF Rows
<1>2. Append(Rows(n), n + 1) \in Seq(Nat) /\ Len(Append(Rows(n), n + 1)) = n + 1
  BY <1>1, SMT
<1>3. \A i \in 1 .. n + 1 : Append(Rows(n), n + 1)[i] = Rows(n + 1)[i]
  BY <1>1, SMT DEF Rows
<1>4. n + 1 \in Nat
  OBVIOUS
<1>5. QED
  BY <1>1, <1>2, <1>3, <1>4, SeqEqual

LEMMA ConcatAppend ==
    ASSUME NEW s \in Seq(Nat), NEW r \in Seq(Nat), NEW x \in Nat
    PROVE  s \o Append(r, x) = Append(s \o r, x)
<1>1. /\ s \o Append(r, x) \in Seq(Nat)
      /\ Append(s \o r, x) \in Seq(Nat)
      /\ Len(s \o Append(r, x)) = Len(Append(s \o r, x))
  BY SMT
<1>2. \A i \in 1 .. Len(s \o Append(r, x)) :
          (s \o Append(r, x))[i] = Append(s \o r, x)[i]
  BY SMT
<1>3. QED
  BY <1>1, <1>2, SeqEqual

LEMMA PopSplits ==
    ASSUME NEW s \in Seq(Nat), s # <<>>
    PROVE  /\ SubSeq(s, 1, 1) \in Seq(Nat)
           /\ Tail(s) \in Seq(Nat)
           /\ SubSeq(s, 1, 1) \o Tail(s) = s
<1>1. Len(s) \in Nat \ {0}
  BY EmptySeq
<1>2. /\ SubSeq(s, 1, 1) \in Seq(Nat)
      /\ Len(SubSeq(s, 1, 1)) = 1
      /\ SubSeq(s, 1, 1)[1] = s[1]
  BY <1>1, SMT
<1>3. /\ Tail(s) \in Seq(Nat)
      /\ Len(Tail(s)) = Len(s) - 1
      /\ \A i \in 1 .. Len(s) - 1 : Tail(s)[i] = s[i + 1]
  BY <1>1, SMT
<1>4. /\ SubSeq(s, 1, 1) \o Tail(s) \in Seq(Nat)
      /\ Len(SubSeq(s, 1, 1) \o Tail(s)) = Len(s)
  BY <1>1, <1>2, <1>3, SMT
<1>5. \A i \in 1 .. Len(s) : (SubSeq(s, 1, 1) \o Tail(s))[i] = s[i]
  <2>1. TAKE i \in 1 .. Len(s)
  <2>2. (SubSeq(s, 1, 1) \o Tail(s))[i]
           = IF i <= 1 THEN SubSeq(s, 1, 1)[i] ELSE Tail(s)[i - 1]
    BY <1>1, <1>2, <1>3, <2>1, ConcatProperties
  <2>3. QED
    BY <1>1, <1>2, <1>3, <2>2, SMT
<1>6. QED
  BY <1>2, <1>3, <1>4, <1>5, SeqEqual

\* Stored rows, held rows and queued rows, before and after each operation.
LEMMA PushKeepsRows ==
    ASSUME NEW s \in Seq(Nat), NEW l \in Seq(Nat), NEW r \in Seq(Nat),
           NEW n \in Nat, s \o l \o r = Rows(n)
    PROVE  s \o l \o Append(r, n + 1) = Rows(n + 1)
<1>1. s \o l \in Seq(Nat) /\ n + 1 \in Nat
  BY ConcatProperties
<1>2. \A u \in Seq(Nat) : u \o Append(r, n + 1) = Append(u \o r, n + 1)
  BY <1>1, ConcatAppend
<1>3. (s \o l) \o Append(r, n + 1) = Append((s \o l) \o r, n + 1)
  BY <1>1, <1>2, Zenon
<1>4. Append(Rows(n), n + 1) = Rows(n + 1)
  BY RowsFacts
<1>5. QED
  BY <1>3, <1>4, Zenon

LEMMA PopKeepsRows ==
    ASSUME NEW s \in Seq(Nat), NEW r \in Seq(Nat), r # <<>>
    PROVE  s \o SubSeq(r, 1, 1) \o Tail(r) = s \o <<>> \o r
<1>1. /\ SubSeq(r, 1, 1) \in Seq(Nat) /\ Tail(r) \in Seq(Nat)
      /\ SubSeq(r, 1, 1) \o Tail(r) = r
  BY PopSplits
<1>3. (s \o SubSeq(r, 1, 1)) \o Tail(r) = s \o (SubSeq(r, 1, 1) \o Tail(r))
  <2>1. ASSUME NEW u \in Seq(Nat), NEW v \in Seq(Nat)
        PROVE  (s \o u) \o v = s \o (u \o v)
    <3>1. /\ (s \o u) \o v \in Seq(Nat) /\ s \o (u \o v) \in Seq(Nat)
          /\ Len((s \o u) \o v) = Len(s \o (u \o v))
      BY SMT
    <3>2. \A i \in 1 .. Len((s \o u) \o v) :
              ((s \o u) \o v)[i] = (s \o (u \o v))[i]
      BY SMT
    <3>3. QED
      BY <3>1, <3>2, SeqEqual
  <2>2. QED
    BY <1>1, <2>1
<1>4. s \o <<>> = s
  BY ConcatEmptySeq
<1>5. QED
  BY <1>1, <1>3, <1>4, Zenon

-----------------------------------------------------------------------------
(* Type correctness.                                                       *)

PC == {"body", "pop", "insert", "exit", "stopped"}

\* The entries a thread can be at, when it is at `where'.
Entries(t, where) ==
    1 .. IF where = "exit" THEN Len(ExitTest[t]) ELSE Len(Body[t])

LEMMA TopologyTypes ==
    ASSUME NEW t \in Thread
    PROVE  /\ Body[t] \in Seq(Queue) /\ Len(Body[t]) \in Nat \ {0}
           /\ ExitTest[t] \in Seq(Queue \cup {Flag})
           /\ Len(ExitTest[t]) \in Nat \ {0}
           /\ \A i \in 1 .. Len(Body[t]) : Body[t][i] \in Queue
           /\ \A i \in 1 .. Len(ExitTest[t]) : ExitTest[t][i] \in Queue \cup {Flag}
<1>1. /\ Body[t] \in Seq(Queue) /\ Body[t] # <<>>
      /\ ExitTest[t] \in Seq(Queue \cup {Flag}) /\ ExitTest[t] # <<>>
  BY ConstantsOK DEF ConstantsOK
<1>2. QED
  BY <1>1, EmptySeq, ElementOfSeq

LEMMA GotoTypes ==
    ASSUME TypeOK, NEW t \in Thread, NEW where \in PC,
           NEW i \in Entries(t, where), Goto(t, where, i)
    PROVE  /\ pc' \in [Thread -> PC]
           /\ at' \in [Thread -> Nat \ {0}]
           /\ \A u \in Thread :
                 at'[u] <= IF pc'[u] = "exit" THEN Len(ExitTest[u])
                                              ELSE Len(Body[u])
<1>1. i \in Nat \ {0}
  BY TopologyTypes DEF Entries
<1>2. i <= IF where = "exit" THEN Len(ExitTest[t]) ELSE Len(Body[t])
  BY TopologyTypes DEF Entries
<1>3. QED
  BY <1>1, <1>2 DEF TypeOK, Goto, PC

LEMMA NextVisitTypes ==
    ASSUME TypeOK, NEW t \in Thread, NextVisit(t), pc[t] # "exit"
    PROVE  /\ pc' \in [Thread -> PC]
           /\ at' \in [Thread -> Nat \ {0}]
           /\ \A u \in Thread :
                 at'[u] <= IF pc'[u] = "exit" THEN Len(ExitTest[u])
                                              ELSE Len(Body[u])
<1>1. at[t] \in 1 .. Len(Body[t])
  BY TopologyTypes DEF TypeOK
<1>2. CASE at[t] < Len(Body[t])
  <2>1. at[t] + 1 \in Entries(t, "body")
    BY <1>1, <1>2, TopologyTypes DEF Entries
  <2>2. Goto(t, "body", at[t] + 1)
    BY <1>2 DEF NextVisit
  <2>3. QED
    BY <2>1, <2>2, GotoTypes DEF PC
<1>3. CASE ~(at[t] < Len(Body[t]))
  <2>1. 1 \in Entries(t, "exit")
    BY TopologyTypes DEF Entries
  <2>2. Goto(t, "exit", 1)
    BY <1>3 DEF NextVisit
  <2>3. QED
    BY <2>1, <2>2, GotoTypes DEF PC
<1>4. QED
  BY <1>2, <1>3

LEMMA TypeStep == TypeOK /\ PopsARow /\ [Next]_vars => TypeOK'
<1> SUFFICES ASSUME TypeOK, PopsARow, [Next]_vars
             PROVE  TypeOK'
  OBVIOUS
<1>1. ASSUME NEW p \in Producer, NEW q \in Queue, Push(p, q)
      PROVE  TypeOK'
  <2>1. /\ made[q] \in 0 .. MaxRows /\ MaxRows \in Nat
        /\ made[q] + 1 \in 0 .. MaxRows
    BY <1>1, ConstantsOK DEF TypeOK, Push, ConstantsOK
  <2>2. Append(queue[q], made[q] + 1) \in Seq(Nat)
    BY <2>1, SMT DEF TypeOK
  <2>3. made' \in [Queue -> 0 .. MaxRows] /\ queue' \in [Queue -> Seq(Nat)]
    BY <1>1, <2>1, <2>2 DEF TypeOK, Push
  <2>4. place' \in [Producer -> Place]
    BY <1>1 DEF TypeOK, Push, Place
  <2>5. QED
    BY <1>1, <2>3, <2>4 DEF TypeOK, Push
<1>2. ASSUME NEW p \in Producer, Return(p)
      PROVE  TypeOK'
  BY <1>2 DEF TypeOK, Return, Place
<1>3. ASSUME SetAllBlockDone
      PROVE  TypeOK'
  BY <1>3 DEF TypeOK, SetAllBlockDone
<1>4. ASSUME NEW t \in Thread, NEW q \in Queue, PeekHash(t, q)
      PROVE  TypeOK'
  <2>1. /\ pc' \in [Thread -> PC]
        /\ at' \in [Thread -> Nat \ {0}]
        /\ \A u \in Thread :
              at'[u] <= IF pc'[u] = "exit" THEN Len(ExitTest[u])
                                           ELSE Len(Body[u])
    <3>1. CASE queue[q] # <<>>
      <4>1. Goto(t, "pop", at[t]) /\ pc[t] = "body"
        BY <1>4, <3>1 DEF PeekHash
      <4>2. at[t] \in Entries(t, "pop")
        BY <4>1, TopologyTypes DEF Entries, TypeOK
      <4>3. QED
        BY <4>1, <4>2, GotoTypes DEF PC
    <3>2. CASE ~(queue[q] # <<>>)
      BY <1>4, <3>2, NextVisitTypes DEF PeekHash
    <3>3. QED
      BY <3>1, <3>2
  <2>2. QED
    BY <1>4, <2>1 DEF PeekHash, TypeOK, PC
<1>5. ASSUME NEW t \in Thread, NEW q \in Queue, PopHash(t, q)
      PROVE  TypeOK'
  <2>1. at[t] \in Entries(t, "insert") /\ Goto(t, "insert", at[t])
    <3>1. Goto(t, "insert", at[t]) /\ pc[t] = "pop"
      BY <1>5 DEF PopHash
    <3>2. QED
      BY <3>1, TopologyTypes DEF Entries, TypeOK
  <2>2. /\ pc' \in [Thread -> PC]
        /\ at' \in [Thread -> Nat \ {0}]
        /\ \A u \in Thread :
              at'[u] <= IF pc'[u] = "exit" THEN Len(ExitTest[u])
                                           ELSE Len(Body[u])
    BY <2>1, GotoTypes DEF PC
  <2>3. SubSeq(queue[q], 1, 1) \in Seq(Nat) /\ Tail(queue[q]) \in Seq(Nat)
    BY <1>5, PopSplits DEF TypeOK, PopsARow, PopHash
  <2>4. QED
    BY <1>5, <2>2, <2>3 DEF PopHash, TypeOK, PC
<1>6. ASSUME NEW t \in Thread, NEW q \in Queue, TakeBatch(t, q)
      PROVE  TypeOK'
  <2>1. /\ pc' \in [Thread -> PC]
        /\ at' \in [Thread -> Nat \ {0}]
        /\ \A u \in Thread :
              at'[u] <= IF pc'[u] = "exit" THEN Len(ExitTest[u])
                                           ELSE Len(Body[u])
    <3>1. CASE TakesAll(q) /\ queue[q] # <<>>
      <4>1. at[t] \in Entries(t, "insert") /\ Goto(t, "insert", at[t])
        BY <1>6, <3>1, TopologyTypes DEF TakeBatch, Entries, TypeOK
      <4>2. QED
        BY <4>1, GotoTypes DEF PC
    <3>2. CASE ~(TakesAll(q) /\ queue[q] # <<>>)
      <4>1. NextVisit(t) /\ pc[t] # "exit"
        BY <1>6, <3>2 DEF TakeBatch
      <4>2. QED
        BY <4>1, NextVisitTypes
    <3>3. QED
      BY <3>1, <3>2
  <2>2. local' \in [Queue -> Seq(Nat)] /\ queue' \in [Queue -> Seq(Nat)]
    <3>1. <<>> \in Seq(Nat)
      BY EmptySeq
    <3>2. QED
      BY <1>6, <3>1 DEF TakeBatch, TypeOK
  <2>3. QED
    BY <1>6, <2>1, <2>2 DEF TakeBatch, TypeOK, PC
<1>7. ASSUME NEW t \in Thread, NEW q \in Queue, Insert(t, q)
      PROVE  TypeOK'
  <2>1. /\ pc' \in [Thread -> PC]
        /\ at' \in [Thread -> Nat \ {0}]
        /\ \A u \in Thread :
              at'[u] <= IF pc'[u] = "exit" THEN Len(ExitTest[u])
                                           ELSE Len(Body[u])
    <3>1. CASE t \in ElseExit
      <4>1. 1 \in Entries(t, "body") /\ Goto(t, "body", 1)
        BY <1>7, <3>1, TopologyTypes DEF Insert, AfterInsert, Entries
      <4>2. QED
        BY <4>1, GotoTypes DEF PC
    <3>2. CASE t \notin ElseExit
      <4>1. NextVisit(t) /\ pc[t] # "exit"
        BY <1>7, <3>2 DEF Insert, AfterInsert
      <4>2. QED
        BY <4>1, NextVisitTypes
    <3>3. QED
      BY <3>1, <3>2
  <2>2. local' \in [Queue -> Seq(Nat)] /\ store' \in [Queue -> Seq(Nat)]
    <3>1. <<>> \in Seq(Nat) /\ store[q] \o local[q] \in Seq(Nat)
      BY EmptySeq, ConcatProperties DEF TypeOK
    <3>2. QED
      BY <1>7, <3>1 DEF Insert, TypeOK
  <2>3. QED
    BY <1>7, <2>1, <2>2 DEF Insert, TypeOK, PC
<1>8. ASSUME NEW t \in Thread, ReadExit(t)
      PROVE  TypeOK'
  <2>1. \E where \in PC : \E i \in Entries(t, where) : Goto(t, where, i)
    <3>1. CASE ~Holds(t)
      BY <1>8, <3>1, TopologyTypes DEF ReadExit, Entries, PC
    <3>2. CASE Holds(t) /\ at[t] < Len(ExitTest[t])
      <4>1. at[t] + 1 \in Entries(t, "exit") /\ Goto(t, "exit", at[t] + 1)
        BY <1>8, <3>2, TopologyTypes DEF ReadExit, Entries, TypeOK
      <4>2. QED
        BY <4>1 DEF PC
    <3>3. CASE Holds(t) /\ ~(at[t] < Len(ExitTest[t]))
      BY <1>8, <3>3, TopologyTypes DEF ReadExit, Entries, PC
    <3>4. QED
      BY <3>1, <3>2, <3>3
  <2>2. /\ pc' \in [Thread -> PC]
        /\ at' \in [Thread -> Nat \ {0}]
        /\ \A u \in Thread :
              at'[u] <= IF pc'[u] = "exit" THEN Len(ExitTest[u])
                                           ELSE Len(Body[u])
    BY <2>1, GotoTypes
  <2>3. QED
    BY <1>8, <2>2 DEF ReadExit, TypeOK, PC
<1>9. CASE UNCHANGED vars
  BY <1>9 DEF TypeOK, vars
<1>10. QED
  BY <1>1, <1>2, <1>3, <1>4, <1>5, <1>6, <1>7, <1>8, <1>9
     DEF Next, Produce, Step, Joined

LEMMA TypeInit == Init => TypeOK
<1> SUFFICES ASSUME Init PROVE TypeOK
  OBVIOUS
<1>1. <<>> \in Seq(Nat) /\ MaxRows \in Nat
  BY EmptySeq, ConstantsOK DEF ConstantsOK
<1>2. /\ made \in [Queue -> 0 .. MaxRows]
      /\ place \in [Producer -> Place]
      /\ isAllBlockDone \in BOOLEAN
  <2>1. made \in [Queue -> 0 .. MaxRows]
    BY <1>1 DEF Init
  <2>2. place \in [Producer -> Place]
    BY DEF Init, Place
  <2>3. isAllBlockDone \in BOOLEAN
    BY DEF Init
  <2>4. QED
    BY <2>1, <2>2, <2>3
<1>3. /\ queue \in [Queue -> Seq(Nat)]
      /\ local \in [Queue -> Seq(Nat)]
      /\ store \in [Queue -> Seq(Nat)]
  BY <1>1 DEF Init
<1>4. /\ pc \in [Thread -> {"body", "pop", "insert", "exit", "stopped"}]
      /\ at \in [Thread -> Nat \ {0}]
  BY DEF Init
<1>5. ASSUME NEW t \in Thread
      PROVE  at[t] <= IF pc[t] = "exit" THEN Len(ExitTest[t]) ELSE Len(Body[t])
  BY TopologyTypes DEF Init
<1>6. QED
  BY <1>2, <1>3, <1>4, <1>5 DEF TypeOK

LEMMA VisitTypes ==
    ASSUME TypeOK, NEW t \in Thread, pc[t] # "exit"
    PROVE  at[t] \in 1 .. Len(Body[t]) /\ Body[t][at[t]] \in Queue
<1>1. at[t] \in 1 .. Len(Body[t])
  BY TopologyTypes DEF TypeOK
<1>2. QED
  BY <1>1, TopologyTypes

\* The vectors of two visits are different vectors.
LEMMA OwnersDiffer ==
    ASSUME TypeOK, NEW t \in Thread, NEW u \in Thread, t # u,
           pc[t] # "exit", pc[u] # "exit"
    PROVE  Body[t][at[t]] # Body[u][at[u]]
<1>1. at[t] \in 1 .. Len(Body[t]) /\ at[u] \in 1 .. Len(Body[u])
  BY VisitTypes
<1>2. QED
  BY <1>1, OneOwner DEF OneOwner

\* A thread between its test and its pop finds what it tested for: nobody else
\* takes rows out of the vector.
LEMMA PopStep == TypeOK /\ PopsARow /\ [Next]_vars => PopsARow'
<1> SUFFICES ASSUME TypeOK, PopsARow, [Next]_vars,
                    NEW t \in Thread, pc'[t] = "pop"
             PROVE  queue'[Body[t][at'[t]]] # <<>>
  BY DEF PopsARow
<1>1. ASSUME NEW p \in Producer, NEW q \in Queue, Push(p, q)
      PROVE  queue'[Body[t][at'[t]]] # <<>>
  <2>1. pc[t] = "pop" /\ at'[t] = at[t]
    BY <1>1 DEF Push
  <2>2. queue[Body[t][at[t]]] # <<>>
    BY <2>1 DEF PopsARow
  <2>3. Append(queue[q], made[q] + 1) # <<>>
    <3>1. queue[q] \in Seq(Nat) /\ made[q] + 1 \in Nat
      BY ConstantsOK DEF TypeOK, ConstantsOK
    <3>2. QED
      BY <3>1, SMT
  <2>4. QED
    BY <1>1, <2>1, <2>2, <2>3 DEF Push, TypeOK
<1>2. ASSUME NEW p \in Producer, Return(p)
      PROVE  queue'[Body[t][at'[t]]] # <<>>
  BY <1>2 DEF Return, PopsARow
<1>3. ASSUME SetAllBlockDone
      PROVE  queue'[Body[t][at'[t]]] # <<>>
  BY <1>3 DEF SetAllBlockDone, PopsARow
<1>4. ASSUME NEW u \in Thread, NEW q \in Queue, PeekHash(u, q)
      PROVE  queue'[Body[t][at'[t]]] # <<>>
  BY <1>4 DEF PeekHash, NextVisit, Goto, PopsARow, TypeOK
<1>5. ASSUME NEW u \in Thread, NEW q \in Queue, PopHash(u, q) \/ TakeBatch(u, q)
      PROVE  queue'[Body[t][at'[t]]] # <<>>
  <2>1. t # u
    BY <1>5 DEF PopHash, TakeBatch, NextVisit, Goto, TypeOK
  <2>2. pc[t] = "pop" /\ at'[t] = at[t]
    BY <1>5, <2>1 DEF PopHash, TakeBatch, NextVisit, Goto, TypeOK
  <2>3. pc[u] # "exit" /\ q = Body[u][at[u]]
    BY <1>5 DEF PopHash, TakeBatch
  <2>4. Body[t][at[t]] # q
    BY <2>1, <2>2, <2>3, OwnersDiffer
  <2>5. queue'[Body[t][at[t]]] = queue[Body[t][at[t]]]
    <3>1. CASE PopHash(u, q)
      BY <3>1, <2>4 DEF PopHash, TypeOK
    <3>2. CASE TakeBatch(u, q)
      <4>1. queue' = queue \/ queue' = [queue EXCEPT ![q] = <<>>]
        BY <3>2 DEF TakeBatch
      <4>2. Body[t][at[t]] \in Queue
        BY <2>2, VisitTypes
      <4>3. QED
        BY <4>1, <4>2, <2>4 DEF TypeOK
    <3>3. QED
      BY <1>5, <3>1, <3>2
  <2>6. QED
    BY <2>2, <2>5 DEF PopsARow
<1>6. ASSUME NEW u \in Thread, NEW q \in Queue, Insert(u, q)
      PROVE  queue'[Body[t][at'[t]]] # <<>>
  BY <1>6 DEF Insert, AfterInsert, NextVisit, Goto, PopsARow, TypeOK
<1>7. ASSUME NEW u \in Thread, ReadExit(u)
      PROVE  queue'[Body[t][at'[t]]] # <<>>
  BY <1>7 DEF ReadExit, Goto, PopsARow, TypeOK
<1>8. CASE UNCHANGED vars
  BY <1>8 DEF PopsARow, vars
<1>9. QED
  BY <1>1, <1>2, <1>3, <1>4, <1>5, <1>6, <1>7, <1>8
     DEF Next, Produce, Step, Joined

LEMMA PopInit == Init => PopsARow
BY DEF Init, PopsARow

\* In every reachable state each variable has its type, for every topology.
THEOREM TypeCorrect == Spec => []TypeOK
BY TypeInit, PopInit, TypeStep, PopStep, PTL DEF Spec

\* A hash-id thread never takes element 0 of an empty vector.
THEOREM PopsAreSafe == Spec => []PopsARow
BY TypeInit, PopInit, TypeStep, PopStep, PTL DEF Spec

-----------------------------------------------------------------------------
(* Conservation of the rows.                                               *)

\* A thread holds rows of a vector only between its pop or copy and its insert.
HeldOnlyAtInsert ==
    \A t \in Thread : \A i \in 1 .. Len(Body[t]) :
        local[Body[t][i]] # <<>> => pc[t] = "insert" /\ at[t] = i

TypedAndHeld == TypeOK /\ PopsARow /\ HeldOnlyAtInsert

LEMMA HeldStep == TypedAndHeld /\ [Next]_vars => HeldOnlyAtInsert'
<1> SUFFICES ASSUME TypedAndHeld, [Next]_vars,
                    NEW t \in Thread, NEW i \in 1 .. Len(Body[t]),
                    local'[Body[t][i]] # <<>>
             PROVE  pc'[t] = "insert" /\ at'[t] = i
  BY DEF HeldOnlyAtInsert
<1> USE DEF TypedAndHeld
<1>0. Body[t][i] \in Queue
  BY TopologyTypes
<1>1. ASSUME NEW p \in Producer, Produce(p)
      PROVE  pc'[t] = "insert" /\ at'[t] = i
  BY <1>1 DEF Produce, Push, Return, HeldOnlyAtInsert
<1>2. ASSUME SetAllBlockDone
      PROVE  pc'[t] = "insert" /\ at'[t] = i
  BY <1>2 DEF SetAllBlockDone, HeldOnlyAtInsert
<1>3. ASSUME NEW u \in Thread, NEW q \in Queue, PeekHash(u, q)
      PROVE  pc'[t] = "insert" /\ at'[t] = i
  <2>1. pc[t] = "insert" /\ at[t] = i
    BY <1>3 DEF PeekHash, HeldOnlyAtInsert
  <2>2. t # u
    BY <1>3, <2>1 DEF PeekHash
  <2>3. QED
    BY <1>3, <2>1, <2>2 DEF PeekHash, NextVisit, Goto, TypeOK
<1>4. ASSUME NEW u \in Thread, NEW q \in Queue, PopHash(u, q) \/ TakeBatch(u, q)
      PROVE  pc'[t] = "insert" /\ at'[t] = i
  <2>1. /\ q = Body[u][at[u]] /\ pc[u] \in {"pop", "body"}
        /\ at[u] \in 1 .. Len(Body[u])
    BY <1>4, VisitTypes DEF PopHash, TakeBatch
  <2>2. CASE Body[t][i] = q
    <3>1. t = u /\ i = at[u]
      BY <2>1, <2>2, OneOwner DEF OneOwner
    <3>2. local[q] = <<>>
      BY <2>1, <3>1 DEF HeldOnlyAtInsert
    <3>3. local' # local
      BY <2>2, <3>2
    <3>4. Goto(u, "insert", at[u])
      BY <1>4, <3>3 DEF PopHash, TakeBatch
    <3>5. QED
      BY <3>1, <3>4 DEF Goto, TypeOK
  <2>3. CASE Body[t][i] # q
    <3>1. local'[Body[t][i]] = local[Body[t][i]]
      <4>1. \/ local' = local
            \/ \E s : local' = [local EXCEPT ![q] = s]
        BY <1>4 DEF PopHash, TakeBatch
      <4>2. QED
        BY <1>0, <2>3, <4>1 DEF TypeOK
    <3>2. pc[t] = "insert" /\ at[t] = i
      BY <3>1 DEF HeldOnlyAtInsert
    <3>3. t # u
      BY <2>1, <3>2
    <3>4. QED
      BY <1>4, <3>2, <3>3 DEF PopHash, TakeBatch, NextVisit, Goto, TypeOK
  <2>4. QED
    BY <2>2, <2>3
<1>5. ASSUME NEW u \in Thread, NEW q \in Queue, Insert(u, q)
      PROVE  pc'[t] = "insert" /\ at'[t] = i
  <2>1. q = Body[u][at[u]] /\ pc[u] = "insert" /\ local' = [local EXCEPT ![q] = <<>>]
    BY <1>5 DEF Insert
  <2>2. Body[t][i] # q
    BY <1>0, <2>1 DEF TypeOK
  <2>3. local'[Body[t][i]] = local[Body[t][i]]
    BY <1>0, <2>1, <2>2 DEF TypeOK
  <2>4. pc[t] = "insert" /\ at[t] = i
    BY <2>3 DEF HeldOnlyAtInsert
  <2>5. t # u
    BY <2>1, <2>2, <2>4
  <2>6. QED
    BY <1>5, <2>4, <2>5 DEF Insert, AfterInsert, NextVisit, Goto, TypeOK
<1>6. ASSUME NEW u \in Thread, ReadExit(u)
      PROVE  pc'[t] = "insert" /\ at'[t] = i
  <2>1. pc[t] = "insert" /\ at[t] = i
    BY <1>6 DEF ReadExit, HeldOnlyAtInsert
  <2>2. t # u
    BY <1>6, <2>1 DEF ReadExit
  <2>3. QED
    BY <1>6, <2>1, <2>2 DEF ReadExit, Goto, TypeOK
<1>7. CASE UNCHANGED vars
  BY <1>7 DEF HeldOnlyAtInsert, vars
<1>8. QED
  BY <1>1, <1>2, <1>3, <1>4, <1>5, <1>6, <1>7 DEF Next, Step, Joined

LEMMA ConservedStep ==
    TypedAndHeld /\ Conserved /\ [Next]_vars => Conserved'
<1> SUFFICES ASSUME TypedAndHeld, Conserved, [Next]_vars,
                    NEW q \in Queue
             PROVE  store'[q] \o local'[q] \o queue'[q] = Rows(made'[q])
  BY DEF Conserved
<1> USE DEF TypedAndHeld
<1>0. /\ store[q] \in Seq(Nat) /\ local[q] \in Seq(Nat) /\ queue[q] \in Seq(Nat)
      /\ made[q] \in Nat
      /\ store[q] \o local[q] \o queue[q] = Rows(made[q])
  BY ConstantsOK DEF TypeOK, Conserved, ConstantsOK
<1>a. ASSUME UNCHANGED <<store, local, queue, made>>
      PROVE  store'[q] \o local'[q] \o queue'[q] = Rows(made'[q])
  BY <1>a, <1>0
<1>1. ASSUME NEW p \in Producer, NEW r \in Queue, Push(p, r)
      PROVE  store'[q] \o local'[q] \o queue'[q] = Rows(made'[q])
  <2>1. CASE r = q
    <3>1. /\ store' = store /\ local' = local
          /\ queue'[q] = Append(queue[q], made[q] + 1)
          /\ made'[q] = made[q] + 1
      BY <1>1, <2>1 DEF Push, TypeOK
    <3>2. store[q] \o local[q] \o Append(queue[q], made[q] + 1) = Rows(made[q] + 1)
      BY <1>0, PushKeepsRows
    <3>3. QED
      BY <3>1, <3>2
  <2>2. CASE r # q
    <3>1. /\ store' = store /\ local' = local
          /\ queue'[q] = queue[q] /\ made'[q] = made[q]
      BY <1>1, <2>2 DEF Push, TypeOK
    <3>2. QED
      BY <1>0, <3>1
  <2>3. QED
    BY <2>1, <2>2
<1>2. ASSUME NEW t \in Thread, NEW r \in Queue, PopHash(t, r)
      PROVE  store'[q] \o local'[q] \o queue'[q] = Rows(made'[q])
  <2>1. CASE r = q
    <3>1. at[t] \in 1 .. Len(Body[t]) /\ q = Body[t][at[t]] /\ pc[t] = "pop"
      <4>1. q = Body[t][at[t]] /\ pc[t] = "pop"
        BY <1>2, <2>1 DEF PopHash
      <4>2. QED
        BY <4>1, VisitTypes
    <3>2. local[q] = <<>> /\ queue[q] # <<>>
      <4>1. local[q] = <<>>
        BY <3>1 DEF HeldOnlyAtInsert
      <4>2. queue[q] # <<>>
        BY <3>1 DEF PopsARow
      <4>3. QED
        BY <4>1, <4>2
    <3>3. /\ store' = store /\ made' = made
          /\ local'[q] = SubSeq(queue[q], 1, 1) /\ queue'[q] = Tail(queue[q])
      BY <1>2, <2>1 DEF PopHash, TypeOK
    <3>4. store[q] \o SubSeq(queue[q], 1, 1) \o Tail(queue[q])
             = store[q] \o local[q] \o queue[q]
      BY <1>0, <3>2, PopKeepsRows
    <3>5. QED
      BY <1>0, <3>3, <3>4
  <2>2. CASE r # q
    <3>1. /\ store' = store /\ made' = made
          /\ local'[q] = local[q] /\ queue'[q] = queue[q]
      BY <1>2, <2>2 DEF PopHash, TypeOK
    <3>2. QED
      BY <1>0, <3>1
  <2>3. QED
    BY <2>1, <2>2
<1>3. ASSUME NEW t \in Thread, NEW r \in Queue, TakeBatch(t, r)
      PROVE  store'[q] \o local'[q] \o queue'[q] = Rows(made'[q])
  <2>1. CASE UNCHANGED <<local, queue>>
    BY <1>3, <2>1, <1>a DEF TakeBatch
  <2>2. CASE /\ local' = [local EXCEPT ![r] = queue[r]]
             /\ queue' = [queue EXCEPT ![r] = <<>>]
    <3>0. store' = store /\ made' = made
      BY <1>3 DEF TakeBatch
    <3>1. CASE r = q
      <4>1. at[t] \in 1 .. Len(Body[t]) /\ q = Body[t][at[t]] /\ pc[t] = "body"
        BY <1>3, <3>1, VisitTypes DEF TakeBatch
      <4>2. local[q] = <<>>
        BY <4>1, <1>0 DEF HeldOnlyAtInsert
      <4>3. local'[q] = queue[q] /\ queue'[q] = <<>>
        BY <2>2, <3>1 DEF TypeOK
      <4>4. store[q] \o local[q] = store[q] /\ store[q] \o queue[q] \in Seq(Nat)
        BY <1>0, <4>2, ConcatEmptySeq, ConcatProperties
      <4>5. store[q] \o queue[q] \o <<>> = store[q] \o queue[q]
        BY <4>4, ConcatEmptySeq
      <4>6. QED
        BY <1>0, <3>0, <4>3, <4>4, <4>5
    <3>2. CASE r # q
      <4>1. local'[q] = local[q] /\ queue'[q] = queue[q]
        BY <2>2, <3>2 DEF TypeOK
      <4>2. QED
        BY <1>0, <3>0, <4>1
    <3>3. QED
      BY <3>1, <3>2
  <2>3. QED
    BY <1>3, <2>1, <2>2 DEF TakeBatch
<1>4. ASSUME NEW t \in Thread, NEW r \in Queue, Insert(t, r)
      PROVE  store'[q] \o local'[q] \o queue'[q] = Rows(made'[q])
  <2>0. made' = made /\ queue' = queue
    BY <1>4 DEF Insert
  <2>1. CASE r = q
    <3>1. store'[q] = store[q] \o local[q] /\ local'[q] = <<>>
      BY <1>4, <2>1 DEF Insert, TypeOK
    <3>2. store[q] \o local[q] \in Seq(Nat)
      BY <1>0, ConcatProperties
    <3>3. QED
      BY <1>0, <2>0, <3>1, <3>2, ConcatEmptySeq
  <2>2. CASE r # q
    <3>1. store'[q] = store[q] /\ local'[q] = local[q]
      BY <1>4, <2>2 DEF Insert, TypeOK
    <3>2. QED
      BY <1>0, <2>0, <3>1
  <2>3. QED
    BY <2>1, <2>2
<1>5. ASSUME NEW t \in Thread, NEW r \in Queue, PeekHash(t, r)
      PROVE  store'[q] \o local'[q] \o queue'[q] = Rows(made'[q])
  BY <1>5, <1>a DEF PeekHash
<1>6. ASSUME NEW t \in Thread, ReadExit(t)
      PROVE  store'[q] \o local'[q] \o queue'[q] = Rows(made'[q])
  BY <1>6, <1>a DEF ReadExit
<1>7. ASSUME NEW p \in Producer, Return(p)
      PROVE  store'[q] \o local'[q] \o queue'[q] = Rows(made'[q])
  BY <1>7, <1>a DEF Return
<1>8. CASE SetAllBlockDone
  BY <1>8, <1>a DEF SetAllBlockDone
<1>9. CASE UNCHANGED vars
  BY <1>9, <1>a DEF vars
<1>10. QED
  BY <1>1, <1>2, <1>3, <1>4, <1>5, <1>6, <1>7, <1>8, <1>9
     DEF Next, Produce, Step, Joined

LEMMA ConservedInit == Init => HeldOnlyAtInsert /\ Conserved
<1> SUFFICES ASSUME Init PROVE HeldOnlyAtInsert /\ Conserved
  OBVIOUS
<1>1. HeldOnlyAtInsert
  BY TopologyTypes DEF Init, HeldOnlyAtInsert
<1>2. <<>> \o <<>> \o <<>> = <<>>
  OBVIOUS
<1>3. Rows(0) = <<>>
  BY RowsFacts, EmptySeq
<1>4. Conserved
  BY <1>2, <1>3 DEF Init, Conserved
<1>5. QED
  BY <1>1, <1>4

\* Every vector of every topology is a first-in first-out channel without loss
\* or duplication, whatever the interleaving.
THEOREM RowsAreConserved == Spec => []Conserved
<1>1. Init => TypedAndHeld /\ Conserved
  BY TypeInit, PopInit, ConservedInit DEF TypedAndHeld
<1>2. TypedAndHeld /\ Conserved /\ [Next]_vars => (TypedAndHeld /\ Conserved)'
  BY TypeStep, PopStep, HeldStep, ConservedStep DEF TypedAndHeld
<1>3. QED
  BY <1>1, <1>2, PTL DEF Spec

-----------------------------------------------------------------------------
(* The pipeline implements the row log.                                    *)

\* The flag is set only when no producer will push again.
DoneMeansReturned == isAllBlockDone => \A p \in Producer : place[p] = Stop

LEMMA DoneStep == TypeOK /\ DoneMeansReturned /\ [Next]_vars => DoneMeansReturned'
<1> SUFFICES ASSUME TypeOK, DoneMeansReturned, [Next]_vars
             PROVE  DoneMeansReturned'
  OBVIOUS
<1>1. ASSUME NEW p \in Producer, Produce(p)
      PROVE  DoneMeansReturned'
  <2>1. place[p] # Stop /\ isAllBlockDone' = isAllBlockDone
    BY <1>1, ConstantsOK DEF Produce, Push, Return, ConstantsOK
  <2>2. QED
    BY <2>1 DEF DoneMeansReturned
<1>2. CASE SetAllBlockDone
  BY <1>2 DEF SetAllBlockDone, DoneMeansReturned
<1>3. ASSUME NEW t \in Thread, Step(t)
      PROVE  DoneMeansReturned'
  BY <1>3 DEF Step, ReadExit, PeekHash, PopHash, TakeBatch, Insert, DoneMeansReturned
<1>4. CASE UNCHANGED vars
  BY <1>4 DEF DoneMeansReturned, vars
<1>5. QED
  BY <1>1, <1>2, <1>3, <1>4 DEF Next, Joined

\* What has been inserted, with what is about to be, is a prefix of the pushes.
LEMMA InsertedPrefix ==
    ASSUME NEW s \in Seq(Nat), NEW l \in Seq(Nat), NEW r \in Seq(Nat),
           NEW n \in Nat, s \o l \o r = Rows(n)
    PROVE  /\ s \o l = SubSeq(Rows(n), 1, Len(s) + Len(l))
           /\ Len(s) + Len(l) \in Len(s) .. n
           /\ l # <<>> => Len(s) + Len(l) # Len(s)
<1>1. /\ s \o l \in Seq(Nat) /\ Len(s \o l) = Len(s) + Len(l)
      /\ Rows(n) \in Seq(Nat) /\ Len(Rows(n)) = n
  BY ConcatProperties, RowsFacts
<1>2. Len(s) \in Nat /\ Len(l) \in Nat /\ Len(r) \in Nat
  BY LenProperties
<1>3. Len(s) + Len(l) + Len(r) = n
  <2>1. ASSUME NEW u \in Seq(Nat)
        PROVE  Len(u \o r) = Len(u) + Len(r)
    BY SMT
  <2>2. Len((s \o l) \o r) = Len(s \o l) + Len(r)
    BY <1>1, <2>1
  <2>3. QED
    BY <1>1, <2>2
<1>4. \A i \in 1 .. Len(s) + Len(l) : (s \o l)[i] = Rows(n)[i]
  BY <1>1, <1>2, SMT
<1>5. /\ SubSeq(Rows(n), 1, Len(s) + Len(l)) \in Seq(Nat)
      /\ Len(SubSeq(Rows(n), 1, Len(s) + Len(l))) = Len(s) + Len(l)
      /\ \A i \in 1 .. Len(s) + Len(l) :
            SubSeq(Rows(n), 1, Len(s) + Len(l))[i] = Rows(n)[i]
  BY <1>1, <1>2, <1>3, SMT
<1>6. s \o l = SubSeq(Rows(n), 1, Len(s) + Len(l))
  BY <1>1, <1>4, <1>5, SeqEqual
<1>7. l # <<>> => Len(s) + Len(l) # Len(s)
  BY <1>2, EmptySeq
<1>8. QED
  BY <1>2, <1>3, <1>6, <1>7

LEMMA LogInit == Init => Log!Init
<1> SUFFICES ASSUME Init PROVE Log!Init
  OBVIOUS
<1>1. Rows(0) = <<>>
  BY RowsFacts, EmptySeq
<1>2. QED
  BY <1>1 DEF Init, Log!Init

LEMMA LogStep ==
    TypeOK /\ Conserved /\ DoneMeansReturned /\ [Next]_vars => [Log!Next]_(Log!vars)
<1> SUFFICES ASSUME TypeOK, Conserved, DoneMeansReturned, [Next]_vars
             PROVE  [Log!Next]_(Log!vars)
  OBVIOUS
<1>1. ASSUME NEW p \in Producer, NEW q \in Queue, Push(p, q)
      PROVE  Log!Log(q)
  <2>1. ~isAllBlockDone
    BY <1>1, ConstantsOK DEF Push, DoneMeansReturned, ConstantsOK
  <2>2. made[q] \in Nat
    BY ConstantsOK DEF TypeOK, ConstantsOK
  <2>3. Append(Rows(made[q]), Len(Rows(made[q])) + 1) = Rows(made[q] + 1)
    BY <2>2, RowsFacts
  <2>4. made' = [made EXCEPT ![q] = made[q] + 1]
    BY <1>1 DEF Push
  <2>5. [r \in Queue |-> Rows(made'[r])]
           = [[r \in Queue |-> Rows(made[r])] EXCEPT ![q] =
                Append(Rows(made[q]), Len(Rows(made[q])) + 1)]
    BY <2>3, <2>4 DEF TypeOK
  <2>6. QED
    BY <1>1, <2>1, <2>5 DEF Push, Log!Log
<1>2. ASSUME NEW t \in Thread, NEW q \in Queue, Insert(t, q)
      PROVE  Log!Store(q) \/ UNCHANGED Log!vars
  <2>1. /\ store[q] \in Seq(Nat) /\ local[q] \in Seq(Nat)
        /\ queue[q] \in Seq(Nat) /\ made[q] \in Nat
        /\ store[q] \o local[q] \o queue[q] = Rows(made[q])
    <3>1. store[q] \in Seq(Nat) /\ local[q] \in Seq(Nat) /\ queue[q] \in Seq(Nat)
      BY DEF TypeOK
    <3>2. made[q] \in Nat
      BY ConstantsOK DEF TypeOK, ConstantsOK
    <3>3. QED
      BY <3>1, <3>2 DEF Conserved
  <2>2. /\ store[q] \o local[q]
              = SubSeq(Rows(made[q]), 1, Len(store[q]) + Len(local[q]))
        /\ Len(store[q]) + Len(local[q]) \in Len(store[q]) .. made[q]
        /\ local[q] # <<>> => Len(store[q]) + Len(local[q]) # Len(store[q])
    BY <2>1, InsertedPrefix
  <2>3. /\ made' = made /\ isAllBlockDone' = isAllBlockDone
        /\ store' = [store EXCEPT ![q] = store[q] \o local[q]]
    BY <1>2 DEF Insert
  <2>4. CASE local[q] = <<>>
    <3>1. store' = store
      BY <2>1, <2>3, <2>4, ConcatEmptySeq DEF TypeOK
    <3>2. QED
      BY <2>3, <3>1 DEF Log!vars
  <2>5. CASE local[q] # <<>>
    <3>1. /\ Len(Rows(made[q])) = made[q]
          /\ Len(store[q]) \in Nat /\ Len(local[q]) \in Nat
      BY <2>1, RowsFacts, LenProperties
    <3>2. Len(store[q]) + Len(local[q])
             \in (Len(store[q]) + 1) .. Len(Rows(made[q]))
      <4>1. made[q] \in Nat
        BY <2>1
      <4>2. /\ Len(store[q]) + Len(local[q]) \in Len(store[q]) .. made[q]
            /\ Len(store[q]) + Len(local[q]) # Len(store[q])
        BY <2>2, <2>5
      <4>3. \A a, b, n \in Nat :
                a + b \in a .. n /\ a + b # a => a + b \in (a + 1) .. n
        BY SMT
      <4>4. Len(store[q]) + Len(local[q]) \in (Len(store[q]) + 1) .. made[q]
        BY <3>1, <4>1, <4>2, <4>3, Zenon
      <4>5. QED
        BY <3>1, <4>4, Zenon
    <3>3. QED
      BY <2>2, <2>3, <3>2 DEF Log!Store
  <2>6. QED
    BY <2>4, <2>5
<1>3. CASE SetAllBlockDone
  BY <1>3 DEF SetAllBlockDone, Log!Next, Log!Close
<1>4. ASSUME NEW p \in Producer, Return(p)
      PROVE  UNCHANGED Log!vars
  BY <1>4 DEF Return, Log!vars
<1>5. ASSUME NEW t \in Thread,
             \/ ReadExit(t)
             \/ \E q \in Queue : PeekHash(t, q) \/ PopHash(t, q) \/ TakeBatch(t, q)
      PROVE  UNCHANGED Log!vars
  BY <1>5 DEF ReadExit, PeekHash, PopHash, TakeBatch, Log!vars
<1>6. CASE UNCHANGED vars
  BY <1>6 DEF vars, Log!vars
<1>7. QED
  BY <1>1, <1>2, <1>3, <1>4, <1>5, <1>6 DEF Next, Produce, Step, Joined, Log!Next

\* Every behaviour of the pipeline is one of the row log: rows reach storage in
\* the order of the pushes, each once, and none is pushed after the flag.
THEOREM PipelineImplementsLog == Spec => ImplementsLog
<1>1. Init => TypedAndHeld /\ Conserved /\ DoneMeansReturned
  BY TypeInit, PopInit, ConservedInit DEF TypedAndHeld, Init, DoneMeansReturned
<1>2. TypedAndHeld /\ Conserved /\ DoneMeansReturned /\ [Next]_vars
         => (TypedAndHeld /\ Conserved /\ DoneMeansReturned)'
  BY TypeStep, PopStep, HeldStep, ConservedStep, DoneStep DEF TypedAndHeld
<1>3. TypedAndHeld /\ Conserved /\ DoneMeansReturned /\ [Next]_vars
         => [Log!Next]_(Log!vars)
  BY LogStep DEF TypedAndHeld
<1>4. QED
  BY <1>1, <1>2, <1>3, LogInit, PTL DEF Spec, ImplementsLog, Log!Spec
-----------------------------------------------------------------------------
(* A thread whose exit test is covered leaves no row behind, for every     *)
(* topology, every number of producers and every batch size: reading the   *)
(* vectors and the flag one after the other, without a lock, is enough     *)
(* when the order of the reads fits the order of the pushes.               *)

\* The inductive invariant: ReadsStayGood, for each covering on its own.
ExitInv ==
    \A t \in Thread : \A f \in 1 .. Len(ExitTest[t]), O \in SUBSET Place :
        CoveredBy(t, f, O) => /\ pc[t] = "exit" => ReadSoFar(t, f, O)
                              /\ pc[t] = "stopped" => Drained(t)

\* The invariants of StoreThreadsProofs that the steps below rely on.
Base == TypedAndHeld /\ DoneMeansReturned

LEMMA OwnedTypes ==
    ASSUME NEW t \in Thread, NEW f \in 1 .. Len(ExitTest[t]), NEW O \in SUBSET Place,
           CoveredBy(t, f, O)
    PROVE  /\ Owned(t) \subseteq Queue
           /\ Late(t, f) \subseteq Queue
           /\ Stop \notin O \cup Late(t, f)
<1>1. Owned(t) \subseteq Queue
  BY TopologyTypes DEF Owned
<1>2. Late(t, f) \subseteq Queue
  BY <1>1 DEF CoveredBy
<1>3. Stop \notin Queue
  BY ConstantsOK DEF ConstantsOK
<1>4. QED
  BY <1>1, <1>2, <1>3 DEF CoveredBy

\* A step that neither moves t nor touches its vectors nor pushes.
LEMMA Undisturbed ==
    ASSUME NEW t \in Thread, NEW f \in 1 .. Len(ExitTest[t]), NEW O \in SUBSET Place,
           CoveredBy(t, f, O),
           pc[t] = "exit" => ReadSoFar(t, f, O),
           pc[t] = "stopped" => Drained(t),
           pc'[t] = pc[t], at'[t] = at[t], place' = place,
           isAllBlockDone => isAllBlockDone',
           \A q \in Owned(t) : queue'[q] = queue[q]
    PROVE  /\ pc'[t] = "exit" => ReadSoFar(t, f, O)'
           /\ pc'[t] = "stopped" => Drained(t)'
<1>1. ASSUME pc[t] = "exit"
      PROVE  ReadSoFar(t, f, O)'
  <2>1. ReadSoFar(t, f, O)
    BY <1>1
  <2>2. (at[t] > f => isAllBlockDone)'
    BY <2>1 DEF ReadSoFar
  <2>3. ASSUME NEW i \in f + 1 .. Len(ExitTest[t]), i < at[t]
        PROVE  queue'[ExitTest[t][i]] = <<>>
    <3>1. ExitTest[t][i] \in Owned(t)
      BY DEF CoveredBy, Late
    <3>2. QED
      BY <2>1, <2>3, <3>1 DEF ReadSoFar
  <2>4. ASSUME NEW i \in 1 .. f - 1, i < at[t], ExitTest[t][i] \in Owned(t)
        PROVE  Announced(t, f, O, ExitTest[t][i])'
    <3>1. Announced(t, f, O, ExitTest[t][i])
      BY <2>1, <2>4 DEF ReadSoFar
    <3>2. \A l \in Late(t, f) : queue'[l] = queue[l]
      BY DEF CoveredBy
    <3>3. QED
      BY <2>4, <3>1, <3>2 DEF Announced
  <2>5. QED
    BY <2>2, <2>3, <2>4 DEF ReadSoFar
<1>2. ASSUME pc[t] = "stopped"
      PROVE  Drained(t)'
  BY <1>2 DEF Drained
<1>3. QED
  BY <1>1, <1>2

\* A push: the run has not ended, so t has not passed the flag.
LEMMA PushKeepsExit ==
    ASSUME Base, NEW t \in Thread, NEW f \in 1 .. Len(ExitTest[t]),
           NEW O \in SUBSET Place, CoveredBy(t, f, O),
           pc[t] = "exit" => ReadSoFar(t, f, O),
           pc[t] = "stopped" => Drained(t),
           NEW p \in Producer, NEW q \in Queue, Push(p, q)
    PROVE  /\ pc'[t] = "exit" => ReadSoFar(t, f, O)'
           /\ pc'[t] = "stopped" => Drained(t)'
<1>1. ~isAllBlockDone /\ <<place[p], q>> \in Follows
  <2>1. <<place[p], q>> \in Follows /\ place[p] # Stop
    BY ConstantsOK DEF Push, ConstantsOK
  <2>2. QED
    BY <2>1 DEF Base, DoneMeansReturned
<1>2. pc[t] # "stopped" /\ pc' = pc /\ at' = at
  BY <1>1 DEF Push, Drained
<1>3. SUFFICES ASSUME pc[t] = "exit" PROVE ReadSoFar(t, f, O)'
  BY <1>2
<1>4. ReadSoFar(t, f, O) /\ ~(at[t] > f) /\ at[t] \in Nat /\ f \in Nat
  BY <1>1, <1>3 DEF ReadSoFar, Base, TypedAndHeld, TypeOK
<1>5. queue'[q] # <<>>
  <2>1. queue[q] \in Seq(Nat) /\ made[q] + 1 \in Nat
    <3>1. queue[q] \in Seq(Nat) /\ made \in [Queue -> 0 .. MaxRows]
      BY DEF Base, TypedAndHeld, TypeOK
    <3>2. MaxRows \in Nat
      BY ConstantsOK DEF ConstantsOK
    <3>3. QED
      BY <3>1, <3>2
  <2>2. Append(queue[q], made[q] + 1) # <<>>
    BY <2>1, AppendProperties
  <2>3. QED
    BY <2>2 DEF Push, Base, TypedAndHeld, TypeOK
<1>6. \A r \in Queue \ {q} : queue'[r] = queue[r]
  BY DEF Push, Base, TypedAndHeld, TypeOK
<1>7. place'[p] = q /\ \A r \in Producer \ {p} : place'[r] = place[r]
  BY DEF Push, Base, TypedAndHeld, TypeOK
<1>8. ASSUME NEW i \in 1 .. f - 1, i < at[t], ExitTest[t][i] \in Owned(t)
      PROVE  Announced(t, f, O, ExitTest[t][i])'
  <2>1. Announced(t, f, O, ExitTest[t][i]) /\ ExitTest[t][i] \in Queue
    BY <1>4, <1>8, OwnedTypes DEF ReadSoFar
  <2>2. CASE q \in O
    BY <1>7, <2>2 DEF Announced
  <2>3. CASE q \in Late(t, f)
    BY <1>5, <2>3 DEF Announced
  <2>4. CASE q \notin O /\ q \notin Late(t, f)
    <3>1. ExitTest[t][i] # q
      BY <1>8, <2>4 DEF CoveredBy
    <3>2. place[p] \notin O
      BY <1>1, <2>4 DEF CoveredBy
    <3>3. CASE queue[ExitTest[t][i]] = <<>>
      BY <1>6, <2>1, <3>1, <3>3 DEF Announced
    <3>4. ASSUME NEW r \in Producer, place[r] \in O
          PROVE  Announced(t, f, O, ExitTest[t][i])'
      BY <1>7, <3>2, <3>4 DEF Announced
    <3>5. ASSUME NEW l \in Late(t, f), queue[l] # <<>>
          PROVE  Announced(t, f, O, ExitTest[t][i])'
      <4>1. queue'[l] = queue[l]
        BY <1>6, <2>4, OwnedTypes
      <4>2. QED
        BY <3>5, <4>1 DEF Announced
    <3>6. QED
      BY <2>1, <3>3, <3>4, <3>5 DEF Announced
  <2>5. QED
    BY <2>2, <2>3, <2>4
<1>9. QED
  BY <1>2, <1>4, <1>8 DEF ReadSoFar

\* A producer returns: it was not between an early push and its late one.
LEMMA ReturnKeepsExit ==
    ASSUME Base, NEW t \in Thread, NEW f \in 1 .. Len(ExitTest[t]),
           NEW O \in SUBSET Place, CoveredBy(t, f, O),
           pc[t] = "exit" => ReadSoFar(t, f, O),
           pc[t] = "stopped" => Drained(t),
           NEW p \in Producer, Return(p)
    PROVE  /\ pc'[t] = "exit" => ReadSoFar(t, f, O)'
           /\ pc'[t] = "stopped" => Drained(t)'
<1>1. place[p] \notin O
  BY OwnedTypes DEF Return, CoveredBy
<1>2. \A r \in Producer : place[r] \in O => place'[r] \in O
  BY <1>1 DEF Return, Base, TypedAndHeld, TypeOK
<1>3. \A i \in 1 .. f - 1 :
          Announced(t, f, O, ExitTest[t][i]) => Announced(t, f, O, ExitTest[t][i])'
  BY <1>2 DEF Announced, Return
<1>4. pc[t] = "exit" => ReadSoFar(t, f, O)'
  BY <1>3 DEF Return, ReadSoFar
<1>5. QED
  BY <1>4 DEF Return, Drained

\* A step of a storing thread that takes no row leaves the vectors alone; one
\* that takes a row leaves those of every other thread alone.
LEMMA OthersVectors ==
    ASSUME Base, NEW t \in Thread, NEW u \in Thread, t # u, Step(u)
    PROVE  \A q \in Owned(t) : queue'[q] = queue[q]
<1> SUFFICES ASSUME NEW i \in 1 .. Len(Body[t])
             PROVE  queue'[Body[t][i]] = queue[Body[t][i]]
  BY DEF Owned
<1> USE DEF Base, TypedAndHeld
<1>1. Body[t][i] \in Queue
  BY TopologyTypes
<1>2. ASSUME NEW q \in Queue, PopHash(u, q) \/ TakeBatch(u, q)
      PROVE  queue'[Body[t][i]] = queue[Body[t][i]]
  <2>1. q = Body[u][at[u]] /\ at[u] \in 1 .. Len(Body[u])
    BY <1>2, VisitTypes DEF PopHash, TakeBatch
  <2>2. Body[t][i] # q
    BY <2>1, OneOwner DEF OneOwner
  <2>3. \/ queue' = queue
        \/ queue' = [queue EXCEPT ![q] = Tail(@)]
        \/ queue' = [queue EXCEPT ![q] = <<>>]
    BY <1>2 DEF PopHash, TakeBatch
  <2>4. QED
    BY <1>1, <2>2, <2>3 DEF TypeOK
<1>3. QED
  BY <1>2 DEF Step, ReadExit, PeekHash, Insert

\* A step of t outside the exit test starts the test at its first entry, or
\* does not reach it.
LEMMA VisitStartsExit ==
    ASSUME Base, NEW t \in Thread, NEW f \in 1 .. Len(ExitTest[t]),
           NEW O \in SUBSET Place,
           NEW q \in Queue,
           PeekHash(t, q) \/ PopHash(t, q) \/ TakeBatch(t, q) \/ Insert(t, q)
    PROVE  /\ pc'[t] = "exit" => ReadSoFar(t, f, O)'
           /\ pc'[t] # "stopped"
<1>1. pc'[t] \in {"body", "pop", "insert"} \/ (pc'[t] = "exit" /\ at'[t] = 1)
  BY DEF PeekHash, PopHash, TakeBatch, Insert, AfterInsert, NextVisit, Goto,
         Base, TypedAndHeld, TypeOK
<1>2. Len(ExitTest[t]) \in Nat
  BY TopologyTypes
<1>3. at'[t] = 1 => ReadSoFar(t, f, O)'
  BY <1>2 DEF ReadSoFar
<1>4. QED
  BY <1>1, <1>3

\* One read of the exit test, and what the test has established when it ends.
LEMMA ReadKeepsExit ==
    ASSUME Base, NEW t \in Thread, NEW f \in 1 .. Len(ExitTest[t]),
           NEW O \in SUBSET Place, CoveredBy(t, f, O),
           pc[t] = "exit" => ReadSoFar(t, f, O),
           ReadExit(t)
    PROVE  /\ pc'[t] = "exit" => ReadSoFar(t, f, O)'
           /\ pc'[t] = "stopped" => Drained(t)'
<1> USE DEF Base, TypedAndHeld
<1>1. ReadSoFar(t, f, O) /\ at[t] \in 1 .. Len(ExitTest[t]) /\ Len(ExitTest[t]) \in Nat
  BY TopologyTypes DEF ReadExit, TypeOK
<1>2. /\ queue' = queue /\ place' = place
      /\ isAllBlockDone' = isAllBlockDone
  BY DEF ReadExit
<1>3. at[t] = f /\ Holds(t) => isAllBlockDone
  BY DEF Holds, CoveredBy
<1>4. \A i \in 1 .. Len(ExitTest[t]) :
          ExitTest[t][i] \in Queue /\ at[t] = i /\ Holds(t)
             => queue[ExitTest[t][i]] = <<>>
  BY ConstantsOK DEF Holds, ConstantsOK
<1>5. \A i \in f + 1 .. Len(ExitTest[t]) : ExitTest[t][i] \in Late(t, f)
  BY DEF Late
<1>6. CASE ~Holds(t)
  BY <1>6 DEF ReadExit, Goto, TypeOK
<1>7. CASE Holds(t) /\ at[t] < Len(ExitTest[t])
  <2>1. pc'[t] = "exit" /\ at'[t] = at[t] + 1
    BY <1>7 DEF ReadExit, Goto, TypeOK
  <2>2. (at'[t] > f) => isAllBlockDone'
    BY <1>1, <1>2, <1>3, <1>7, <2>1 DEF ReadSoFar
  <2>3. ASSUME NEW i \in f + 1 .. Len(ExitTest[t]), i < at'[t]
        PROVE  queue'[ExitTest[t][i]] = <<>>
    <3>1. CASE i < at[t]
      BY <1>1, <1>2, <3>1 DEF ReadSoFar
    <3>2. CASE i = at[t]
      <4>1. ExitTest[t][i] \in Queue /\ i \in 1 .. Len(ExitTest[t])
        BY <1>1, <1>5, <3>2, OwnedTypes
      <4>2. QED
        BY <1>2, <1>4, <1>7, <3>2, <4>1
    <3>3. QED
      BY <1>1, <2>1, <2>3, <3>1, <3>2
  <2>4. ASSUME NEW i \in 1 .. f - 1, i < at'[t], ExitTest[t][i] \in Owned(t)
        PROVE  Announced(t, f, O, ExitTest[t][i])'
    <3>1. CASE i < at[t]
      <4>1. Announced(t, f, O, ExitTest[t][i])
        BY <1>1, <2>4, <3>1 DEF ReadSoFar
      <4>2. QED
        BY <1>2, <4>1 DEF Announced
    <3>2. CASE i = at[t]
      <4>1. queue[ExitTest[t][i]] = <<>>
        BY <1>1, <1>4, <1>7, <2>4, <3>2, OwnedTypes
      <4>2. QED
        BY <1>2, <4>1 DEF Announced
    <3>3. QED
      BY <1>1, <2>1, <2>4, <3>1, <3>2
  <2>5. QED
    BY <2>1, <2>2, <2>3, <2>4 DEF ReadSoFar
<1>8. CASE Holds(t) /\ ~(at[t] < Len(ExitTest[t]))
  <2>1. pc'[t] = "stopped" /\ at[t] = Len(ExitTest[t])
    BY <1>1, <1>8 DEF ReadExit, Goto, TypeOK
  <2>2. isAllBlockDone
    BY <1>1, <1>3, <1>8, <2>1 DEF ReadSoFar
  <2>3. ASSUME NEW q \in Late(t, f)
        PROVE  queue[q] = <<>>
    <3>1. PICK i \in f + 1 .. Len(ExitTest[t]) : ExitTest[t][i] = q
      BY DEF Late
    <3>2. CASE i < at[t]
      BY <1>1, <3>1, <3>2 DEF ReadSoFar
    <3>3. CASE i = at[t]
      <4>1. q \in Queue /\ i \in 1 .. Len(ExitTest[t])
        BY <1>1, <3>3, OwnedTypes
      <4>2. QED
        BY <1>4, <1>8, <3>1, <3>3, <4>1
    <3>4. QED
      BY <1>1, <2>1, <3>2, <3>3
  <2>4. ASSUME NEW q \in Owned(t) \ Late(t, f)
        PROVE  queue[q] = <<>>
    <3>1. PICK i \in 1 .. f - 1 : ExitTest[t][i] = q
      BY DEF CoveredBy
    <3>2. Announced(t, f, O, q)
      BY <1>1, <2>1, <3>1 DEF ReadSoFar
    <3>3. \A p \in Producer : place[p] \notin O
      BY <2>2, OwnedTypes DEF DoneMeansReturned
    <3>4. QED
      BY <2>3, <3>2, <3>3 DEF Announced
  <2>5. Drained(t)'
    BY <1>2, <2>2, <2>3, <2>4 DEF Drained
  <2>6. QED
    BY <2>1, <2>5
<1>9. QED
  BY <1>6, <1>7, <1>8

LEMMA ExitStep == Base /\ ExitInv /\ [Next]_vars => ExitInv'
<1> SUFFICES ASSUME Base, ExitInv, [Next]_vars,
                    NEW t \in Thread, NEW f \in 1 .. Len(ExitTest[t]),
                    NEW O \in SUBSET Place, CoveredBy(t, f, O)
             PROVE  /\ pc'[t] = "exit" => ReadSoFar(t, f, O)'
                    /\ pc'[t] = "stopped" => Drained(t)'
  BY DEF ExitInv
<1>1. /\ pc[t] = "exit" => ReadSoFar(t, f, O)
      /\ pc[t] = "stopped" => Drained(t)
  BY DEF ExitInv
<1>2. ASSUME NEW p \in Producer, NEW q \in Queue, Push(p, q)
      PROVE  /\ pc'[t] = "exit" => ReadSoFar(t, f, O)'
             /\ pc'[t] = "stopped" => Drained(t)'
  BY <1>1, <1>2, PushKeepsExit
<1>3. ASSUME NEW p \in Producer, Return(p)
      PROVE  /\ pc'[t] = "exit" => ReadSoFar(t, f, O)'
             /\ pc'[t] = "stopped" => Drained(t)'
  BY <1>1, <1>3, ReturnKeepsExit
<1>4. CASE SetAllBlockDone
  BY <1>1, <1>4, Undisturbed DEF SetAllBlockDone
<1>5. ASSUME NEW u \in Thread, Step(u), u # t
      PROVE  /\ pc'[t] = "exit" => ReadSoFar(t, f, O)'
             /\ pc'[t] = "stopped" => Drained(t)'
  <2>1. /\ pc'[t] = pc[t] /\ at'[t] = at[t]
        /\ place' = place /\ isAllBlockDone' = isAllBlockDone
    BY <1>5 DEF Step, ReadExit, PeekHash, PopHash, TakeBatch, Insert, AfterInsert,
                NextVisit, Goto, Base, TypedAndHeld, TypeOK
  <2>2. \A q \in Owned(t) : queue'[q] = queue[q]
    BY <1>5, OthersVectors
  <2>3. QED
    BY <1>1, <2>1, <2>2, Undisturbed
<1>6. CASE ReadExit(t)
  BY <1>1, <1>6, ReadKeepsExit
<1>7. ASSUME NEW q \in Queue,
             PeekHash(t, q) \/ PopHash(t, q) \/ TakeBatch(t, q) \/ Insert(t, q)
      PROVE  /\ pc'[t] = "exit" => ReadSoFar(t, f, O)'
             /\ pc'[t] = "stopped" => Drained(t)'
  BY <1>7, VisitStartsExit
<1>8. CASE UNCHANGED vars
  BY <1>1, <1>8, Undisturbed DEF vars
<1>9. QED
  BY <1>2, <1>3, <1>4, <1>5, <1>6, <1>7, <1>8 DEF Next, Produce, Step, Joined

LEMMA ExitInit == Init => Base /\ ExitInv
<1> SUFFICES ASSUME Init PROVE Base /\ ExitInv
  OBVIOUS
<1>1. Base
  BY TypeInit, PopInit, ConservedInit
     DEF Base, TypedAndHeld, Init, DoneMeansReturned
<1>2. ExitInv
  BY DEF Init, ExitInv
<1>3. QED
  BY <1>1, <1>2

LEMMA CoveringFacts ==
    ASSUME ExitTestsCovered, NEW t \in Thread
    PROVE  /\ Coverings[t] # {}
           /\ \A c \in Coverings[t] :
                 /\ c[1] \in 1 .. Len(ExitTest[t]) /\ c[2] \in SUBSET Place
                 /\ CoveredBy(t, c[1], c[2])
           /\ \E f \in 1 .. Len(ExitTest[t]), O \in SUBSET Place : CoveredBy(t, f, O)
<1>1. Coverings[t] =
        {c \in (1 .. Len(ExitTest[t])) \X SUBSET Place : CoveredBy(t, c[1], c[2])}
  BY DEF Coverings
<1>2. Coverings[t] # {}
  BY DEF ExitTestsCovered
<1>3. \A c \in Coverings[t] :
          /\ c[1] \in 1 .. Len(ExitTest[t]) /\ c[2] \in SUBSET Place
          /\ CoveredBy(t, c[1], c[2])
  BY <1>1
<1>4. QED
  BY <1>2, <1>3

LEMMA ExitInvImplies ==
    ASSUME ExitTestsCovered
    PROVE  ExitInv => ReadsStayGood
<1> SUFFICES ASSUME ExitInv, NEW t \in Thread
             PROVE  /\ Coverings[t] # {}
                    /\ \A c \in Coverings[t] :
                          pc[t] = "exit" => ReadSoFar(t, c[1], c[2])
                    /\ pc[t] = "stopped" => Drained(t)
  BY DEF ReadsStayGood
<1>1. \A c \in Coverings[t] : pc[t] = "exit" => ReadSoFar(t, c[1], c[2])
  BY CoveringFacts DEF ExitInv
<1>2. pc[t] = "stopped" => Drained(t)
  BY CoveringFacts DEF ExitInv
<1>3. QED
  BY <1>1, <1>2, CoveringFacts

\* A thread that has stopped holds nothing, its vectors are empty, and so what
\* it has inserted is everything that was pushed.
LEMMA DrainedMeansStored ==
    ASSUME ExitTestsCovered
    PROVE  Base /\ Conserved /\ ExitInv => NothingLeftBehind
<1> SUFFICES ASSUME Base, Conserved, ExitInv,
                    NEW t \in Thread, pc[t] = "stopped",
                    NEW i \in 1 .. Len(Body[t])
             PROVE  store[Body[t][i]] = Rows(made[Body[t][i]])
  BY DEF NothingLeftBehind
<1> DEFINE q == Body[t][i]
<1>1. q \in Queue /\ q \in Owned(t)
  BY TopologyTypes DEF Owned
<1>2. PICK f \in 1 .. Len(ExitTest[t]), O \in SUBSET Place : CoveredBy(t, f, O)
  BY CoveringFacts
<1>3. queue[q] = <<>>
  BY <1>1, <1>2 DEF ExitInv, Drained
<1>4. local[q] = <<>>
  BY DEF Base, TypedAndHeld, HeldOnlyAtInsert
<1>5. store[q] \in Seq(Nat)
  BY <1>1 DEF Base, TypedAndHeld, TypeOK
<1>6. store[q] \o <<>> \o <<>> = store[q]
  BY <1>5, ConcatEmptySeq
<1>7. QED
  BY <1>1, <1>3, <1>4, <1>6 DEF Conserved

LEMMA InvariantStep ==
    Base /\ Conserved /\ ExitInv /\ [Next]_vars => (Base /\ Conserved /\ ExitInv)'
BY TypeStep, PopStep, HeldStep, ConservedStep, DoneStep, ExitStep
   DEF Base, TypedAndHeld

\* A read of a covered exit test goes out of date only when a later read of the
\* same test will fail.
THEOREM ExitReadsStayGood ==
    ASSUME ExitTestsCovered
    PROVE  Spec => []ReadsStayGood
<1>1. Init => Base /\ Conserved /\ ExitInv
  BY ExitInit, ConservedInit
<1>2. Base /\ Conserved /\ ExitInv => ReadsStayGood
  BY ExitInvImplies
<1>3. QED
  BY <1>1, <1>2, InvariantStep, PTL DEF Spec

\* The threads whose exit tests are covered lose no row when they stop, however
\* their reads interleave with the pushes of any number of producers.
THEOREM StoppedThreadsStoredAll ==
    ASSUME ExitTestsCovered
    PROVE  Spec => []NothingLeftBehind
<1>1. Init => Base /\ Conserved /\ ExitInv
  BY ExitInit, ConservedInit
<1>2. Base /\ Conserved /\ ExitInv => NothingLeftBehind
  BY DrainedMeansStored
<1>3. QED
  BY <1>1, <1>2, InvariantStep, PTL DEF Spec

\* The loop of dataConsumerThread among them, which ends for all vectors by one test, for
\* every number of producers (parser-7thread.h:793).
THEOREM CoveredExitsAreSafe ==
    ASSUME ExitTestsCovered
    PROVE  Spec => []ExitIsSafe
<1>1. NothingLeftBehind /\ ReadsStayGood => ExitIsSafe
  BY DEF ExitIsSafe
<1>2. QED
  BY <1>1, StoppedThreadsStoredAll, ExitReadsStayGood, PTL
=============================================================================
