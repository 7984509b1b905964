--------------------------- MODULE StorePoolProofs ---------------------------
(***************************************************************************)
(* Proofs about StorePool, for every number of vectors and threads, every  *)
(* mixture of pools and single threads, and any number of pushed rows:     *)
(* types, that a row that was seen without the lock is there, that every   *)
(* row is in exactly one thread's hands, and the order of the files.       *)
(***************************************************************************)
EXTENDS StorePool, SequenceTheorems, TLAPS

-----------------------------------------------------------------------------
(* Sequences.                                                              *)

\* Appending to the second part of a sequence appends to the whole.
LEMMA AppendAtTheEnd ==
    ASSUME NEW s \in Seq(Nat), NEW x \in Nat
    PROVE  s \o Append(<<>>, x) = Append(s \o <<>>, x)
<1>1. /\ s \o Append(<<>>, x) \in Seq(Nat)
      /\ Append(s \o <<>>, x) \in Seq(Nat)
      /\ Len(s \o Append(<<>>, x)) = Len(Append(s \o <<>>, x))
  BY SMT
<1>2. \A i \in 1 .. Len(s \o Append(<<>>, x)) :
          (s \o Append(<<>>, x))[i] = Append(s \o <<>>, x)[i]
  BY SMT
<1>3. QED
  BY <1>1, <1>2, SeqEqual

\* Moving the only element of the second part to the first leaves the whole as it is.
LEMMA MoveTheOnlyOne ==
    ASSUME NEW s \in Seq(Nat), NEW r \in Seq(Nat), Len(r) = 1
    PROVE  /\ Append(s, Head(r)) \o Tail(r) = s \o r
           /\ Tail(r) = <<>>
           /\ Head(r) \in Nat
<1>0. r # <<>> /\ Len(s) \in Nat
  BY EmptySeq, LenProperties
<1>1. Head(r) = r[1] /\ r[1] \in Nat
  BY <1>0, SMT
<1>2. Tail(r) \in Seq(Nat) /\ Len(Tail(r)) = 0
  BY <1>0, HeadTailProperties, SMT
<1>3. Tail(r) = <<>>
  BY <1>2, EmptySeq
<1>4. /\ s \o r \in Seq(Nat) /\ Len(s \o r) = Len(s) + 1
      /\ \A i \in 1 .. Len(s) + 1 :
            (s \o r)[i] = IF i <= Len(s) THEN s[i] ELSE r[i - Len(s)]
  <2>1. /\ s \o r \in Seq(Nat) /\ Len(s \o r) = Len(s) + Len(r)
        /\ \A i \in 1 .. Len(s) + Len(r) :
              (s \o r)[i] = IF i <= Len(s) THEN s[i] ELSE r[i - Len(s)]
    BY ConcatProperties
  <2>2. QED
    BY <2>1
<1>5. /\ Append(s, r[1]) \o <<>> = Append(s, r[1])
      /\ Append(s, r[1]) \in Seq(Nat) /\ Len(Append(s, r[1])) = Len(s) + 1
      /\ \A i \in 1 .. Len(s) + 1 :
            Append(s, r[1])[i] = IF i <= Len(s) THEN s[i] ELSE r[1]
  BY <1>0, <1>1, AppendProperties, ConcatEmptySeq
<1>6. Append(s, r[1]) \o <<>> = s \o r
  BY <1>0, <1>4, <1>5, SeqEqual
<1>7. QED
  BY <1>1, <1>3, <1>6

LEMMA TailFacts ==
    ASSUME NEW s \in Seq(Nat), s # <<>>
    PROVE  /\ Len(s) \in Nat \ {0}
           /\ Head(s) = s[1] /\ s[1] \in Nat
           /\ Tail(s) \in Seq(Nat)
           /\ Len(Tail(s)) = Len(s) - 1
           /\ \A i \in 1 .. Len(s) - 1 : Tail(s)[i] = s[i + 1]
<1>1. Len(s) \in Nat \ {0}
  BY EmptySeq
<1>2. QED
  BY <1>1, SMT

LEMMA AppendFacts ==
    ASSUME NEW s \in Seq(Nat), NEW x \in Nat
    PROVE  /\ Append(s, x) \in Seq(Nat)
           /\ Append(s, x) # <<>>
           /\ Len(s) \in Nat
           /\ Len(Append(s, x)) = Len(s) + 1
           /\ DOMAIN Append(s, x) = 1 .. Len(s) + 1
           /\ DOMAIN s = 1 .. Len(s)
           /\ \A i \in 1 .. Len(s) : Append(s, x)[i] = s[i]
           /\ Append(s, x)[Len(s) + 1] = x
<1>1. /\ Append(s, x) \in Seq(Nat) /\ Len(s) \in Nat
      /\ Len(Append(s, x)) = Len(s) + 1
      /\ \A i \in 1 .. Len(s) : Append(s, x)[i] = s[i]
      /\ Append(s, x)[Len(s) + 1] = x
  BY SMT
<1>2. Append(s, x) # <<>>
  BY <1>1, EmptySeq
<1>3. DOMAIN Append(s, x) = 1 .. Len(s) + 1 /\ DOMAIN s = 1 .. Len(s)
  BY <1>1, LenProperties
<1>4. QED
  BY <1>1, <1>2, <1>3

-----------------------------------------------------------------------------
(* Types, what a thread holds at each place, and the row that was seen.    *)

\* A thread holds one row while it is to insert it, and none elsewhere.
HoldsAtInsert ==
    \A t \in Threads : IF at[t] = "insert" THEN Len(temp[t]) = 1 ELSE temp[t] = <<>>

\* Only the threads that look first take without looking again.
OnlyLookersRemove == \A t \in Threads : at[t] = "remove" => t \in Lookers

Typed == PoolTypeOK /\ HoldsAtInsert /\ OnlyLookersRemove /\ LookedRowIsThere

LEMMA TypedInit == PoolInit => Typed
<1> SUFFICES ASSUME PoolInit PROVE Typed
  OBVIOUS
<1>1. <<>> \in Seq(Nat)
  BY EmptySeq
<1>2. \A t \in Threads : LoopStart(t) \in {"look", "take"}
  BY DEF LoopStart
<1>3. \A t \in Threads : at[t] \in {"look", "take"}
  BY <1>2 DEF PoolInit
<1>4. PoolTypeOK
  BY <1>1, <1>2 DEF PoolInit, PoolTypeOK, Places
<1>5. HoldsAtInsert /\ OnlyLookersRemove /\ LookedRowIsThere
  BY <1>3 DEF PoolInit, HoldsAtInsert, OnlyLookersRemove, LookedRowIsThere
<1>6. QED
  BY <1>4, <1>5 DEF Typed

\* A thread takes the first row of its vector.
TakesRow(t) ==
    /\ at[t] \in {"remove", "take"}
    /\ waiting[VectorOf[t]] # <<>>
    /\ at' = [at EXCEPT ![t] = "insert"]
    /\ temp' = [temp EXCEPT ![t] = Append(@, Head(waiting[VectorOf[t]]))]
    /\ waiting' = [waiting EXCEPT ![VectorOf[t]] = Tail(@)]
    /\ UNCHANGED <<pushed, blocksDone, database>>

\* A thread goes from one place to another and does nothing else.
Moves(t, to) ==
    /\ at[t] \notin {"insert"}
    /\ to \in {"look", "remove", "take", "testEmpty", "testDone", "stopped"}
    /\ to = "look" => t \in Lookers
    /\ to = "remove" => t \in Lookers /\ waiting[VectorOf[t]] # <<>>
    /\ at' = [at EXCEPT ![t] = to]
    /\ UNCHANGED <<pushed, waiting, blocksDone, temp, database>>

\* The places of the threads that look first, and of the others.
RightPlaces == \A t \in Threads : at[t] = "look" => t \in Lookers

LEMMA RightPlacesInit == PoolInit => RightPlaces
BY DEF PoolInit, RightPlaces, LoopStart

\* Every step is a push, the flag, a row taken, a row inserted, or a move.
LEMMA StepKinds ==
    ASSUME Typed, RightPlaces, [PoolNext]_poolVars
    PROVE  \/ \E v \in Vectors : PushRow(v)
           \/ \E t \in Threads : TakesRow(t) \/ InsertRow(t)
           \/ \E t \in Threads, to \in Places : Moves(t, to)
           \/ SetBlocksDone
           \/ UNCHANGED poolVars
<1>1. ASSUME NEW t \in Threads, PoolStep(t)
      PROVE  \/ TakesRow(t) \/ InsertRow(t)
             \/ \E to \in Places : Moves(t, to)
  <2>1. /\ at[t] \in Places
        /\ LoopStart(t) \in {"look", "take"}
        /\ LoopStart(t) = "look" => t \in Lookers
    BY DEF Typed, PoolTypeOK, LoopStart
  <2>2. CASE Look(t)
    <3>1. at[t] = "look" /\ t \in Lookers
      BY <2>2 DEF Look, Goto, RightPlaces
    <3>2. CASE waiting[VectorOf[t]] = <<>>
      <4>1. Moves(t, "testEmpty")
        BY <2>2, <3>1, <3>2 DEF Look, Goto, Moves
      <4>2. QED
        BY <4>1 DEF Places
    <3>3. CASE waiting[VectorOf[t]] # <<>>
      <4>1. Moves(t, "remove")
        BY <2>2, <3>1, <3>3 DEF Look, Goto, Moves
      <4>2. QED
        BY <4>1 DEF Places
    <3>4. QED
      BY <3>2, <3>3
  <2>3. CASE EraseFirst(t)
    <3>1. waiting[VectorOf[t]] # <<>>
      BY <2>3 DEF EraseFirst, Goto, Typed, LookedRowIsThere
    <3>2. TakesRow(t)
      BY <2>3, <3>1 DEF EraseFirst, Goto, TakesRow
    <3>3. QED
      BY <3>2
  <2>4. CASE Take(t)
    <3>1. CASE waiting[VectorOf[t]] # <<>>
      <4>1. TakesRow(t)
        BY <2>4, <3>1 DEF Take, Goto, TakesRow
      <4>2. QED
        BY <4>1
    <3>2. CASE waiting[VectorOf[t]] = <<>>
      <4>1. Moves(t, "testEmpty")
        BY <2>4, <3>2 DEF Take, Goto, Moves
      <4>2. QED
        BY <4>1 DEF Places
    <3>3. QED
      BY <3>1, <3>2
  <2>5. CASE TestEmpty(t)
    <3>1. Moves(t, IF waiting[VectorOf[t]] = <<>> THEN "testDone" ELSE LoopStart(t))
      BY <2>1, <2>5 DEF TestEmpty, Goto, Moves
    <3>2. QED
      BY <2>1, <3>1 DEF Places
  <2>6. CASE TestDone(t)
    <3>1. Moves(t, IF blocksDone THEN "stopped" ELSE LoopStart(t))
      BY <2>1, <2>6 DEF TestDone, Goto, Moves
    <3>2. QED
      BY <2>1, <3>1 DEF Places
  <2>7. QED
    BY <1>1, <2>2, <2>3, <2>4, <2>5, <2>6 DEF PoolStep
<1>2. QED
  BY <1>1 DEF PoolNext, PoolEnded

\* What each kind of step does to the places, the rows held and the rows seen.
LEMMA TypedStep == Typed /\ RightPlaces /\ [PoolNext]_poolVars => Typed' /\ RightPlaces'
<1> SUFFICES ASSUME Typed, RightPlaces, [PoolNext]_poolVars
             PROVE  Typed' /\ RightPlaces'
  OBVIOUS
<1> USE PoolOK DEF PoolOK
<1>1. \A t \in Threads :
          /\ VectorOf[t] \in Vectors
          /\ waiting[VectorOf[t]] \in Seq(Nat)
          /\ temp[t] \in Seq(Nat) /\ database[t] \in Seq(Nat)
  BY DEF Typed, PoolTypeOK
<1>2. ASSUME NEW v \in Vectors, PushRow(v)
      PROVE  Typed' /\ RightPlaces'
  <2>1. pushed[v] + 1 \in Nat /\ waiting[v] \in Seq(Nat)
    BY DEF Typed, PoolTypeOK
  <2>2. /\ Append(waiting[v], pushed[v] + 1) \in Seq(Nat)
        /\ Append(waiting[v], pushed[v] + 1) # <<>>
    BY <2>1, AppendFacts
  <2>3. PoolTypeOK'
    BY <1>2, <2>1, <2>2 DEF PushRow, Typed, PoolTypeOK
  <2>4. LookedRowIsThere'
    BY <1>1, <1>2, <2>2 DEF PushRow, Typed, PoolTypeOK, LookedRowIsThere
  <2>5. HoldsAtInsert' /\ OnlyLookersRemove' /\ RightPlaces'
    BY <1>2 DEF PushRow, Typed, HoldsAtInsert, OnlyLookersRemove, RightPlaces
  <2>6. QED
    BY <2>3, <2>4, <2>5 DEF Typed
<1>3. ASSUME NEW t \in Threads, TakesRow(t)
      PROVE  Typed' /\ RightPlaces'
  <2> DEFINE v == VectorOf[t]
  <2>1. /\ Head(waiting[v]) \in Nat
        /\ Tail(waiting[v]) \in Seq(Nat)
    BY <1>1, <1>3, TailFacts DEF TakesRow
  <2>2. temp[t] = <<>>
    BY <1>3 DEF TakesRow, Typed, HoldsAtInsert
  <2>3. /\ Append(temp[t], Head(waiting[v])) \in Seq(Nat)
        /\ Len(Append(temp[t], Head(waiting[v]))) = 1
    BY <1>1, <2>1, <2>2, AppendFacts, EmptySeq
  <2>4. PoolTypeOK'
    BY <1>1, <1>3, <2>1, <2>3 DEF TakesRow, Typed, PoolTypeOK, Places
  <2>5. HoldsAtInsert'
    BY <1>1, <1>3, <2>3 DEF TakesRow, Typed, PoolTypeOK, HoldsAtInsert
  <2>6. OnlyLookersRemove' /\ RightPlaces'
    BY <1>3 DEF TakesRow, Typed, PoolTypeOK, OnlyLookersRemove, RightPlaces
  <2>7. LookedRowIsThere'
    <3> SUFFICES ASSUME NEW u \in Threads, at'[u] = "remove"
                 PROVE  waiting'[VectorOf[u]] # <<>>
      BY DEF LookedRowIsThere
    <3>1. u # t /\ at[u] = "remove"
      BY <1>3 DEF TakesRow, Typed, PoolTypeOK
    <3>2. u \in Lookers /\ waiting[VectorOf[u]] # <<>>
      BY <3>1 DEF Typed, OnlyLookersRemove, LookedRowIsThere
    <3>3. VectorOf[u] # v
      BY <3>1, <3>2
    <3>4. QED
      BY <1>1, <1>3, <3>2, <3>3 DEF TakesRow, Typed, PoolTypeOK
  <2>8. QED
    BY <2>4, <2>5, <2>6, <2>7 DEF Typed
<1>4. ASSUME NEW t \in Threads, InsertRow(t)
      PROVE  Typed' /\ RightPlaces'
  <2>1. at[t] = "insert" /\ Len(temp[t]) = 1
    BY <1>4 DEF InsertRow, Goto, Typed, HoldsAtInsert
  <2>2. Tail(temp[t]) = <<>> /\ Head(temp[t]) \in Nat
    BY <1>1, <2>1, MoveTheOnlyOne
  <2>3. <<>> \in Seq(Nat) /\ Append(database[t], Head(temp[t])) \in Seq(Nat)
    BY <1>1, <2>2, EmptySeq, AppendFacts
  <2>4. PoolTypeOK'
    BY <1>4, <2>2, <2>3 DEF InsertRow, Goto, Typed, PoolTypeOK, Places
  <2>5. HoldsAtInsert'
    BY <1>4, <2>2 DEF InsertRow, Goto, Typed, PoolTypeOK, HoldsAtInsert
  <2>6. OnlyLookersRemove' /\ RightPlaces' /\ LookedRowIsThere'
    BY <1>4 DEF InsertRow, Goto, Typed, PoolTypeOK, OnlyLookersRemove, RightPlaces,
                LookedRowIsThere
  <2>7. QED
    BY <2>4, <2>5, <2>6 DEF Typed
<1>5. ASSUME NEW t \in Threads, NEW to \in Places, Moves(t, to)
      PROVE  Typed' /\ RightPlaces'
  <2>1. PoolTypeOK' /\ HoldsAtInsert'
    BY <1>5 DEF Moves, Typed, PoolTypeOK, HoldsAtInsert
  <2>2. OnlyLookersRemove' /\ RightPlaces' /\ LookedRowIsThere'
    BY <1>5 DEF Moves, Typed, PoolTypeOK, OnlyLookersRemove, RightPlaces, LookedRowIsThere
  <2>3. QED
    BY <2>1, <2>2 DEF Typed
<1>6. CASE SetBlocksDone
  BY <1>6 DEF SetBlocksDone, Typed, PoolTypeOK, HoldsAtInsert, OnlyLookersRemove, RightPlaces,
              LookedRowIsThere
<1>7. CASE UNCHANGED poolVars
  BY <1>7 DEF poolVars, Typed, PoolTypeOK, HoldsAtInsert, OnlyLookersRemove, RightPlaces,
              LookedRowIsThere
<1>8. QED
  BY <1>2, <1>3, <1>4, <1>5, <1>6, <1>7, StepKinds

LEMMA TypedAlways == PoolSpec => [](Typed /\ RightPlaces)
BY TypedInit, RightPlacesInit, TypedStep, PTL DEF PoolSpec

\* The types of the pools' state (StorePool.PoolTypeOK).
THEOREM PoolTypesCorrect == PoolSpec => []PoolTypeOK
<1>1. Typed => PoolTypeOK
  BY DEF Typed
<1>2. QED
  BY <1>1, TypedAlways, PTL

\* A thread that has seen a row without the lock finds one when it has the lock: nobody
\* else takes from its vector (StorePool.LookedRowIsThere).
THEOREM SeenRowsAreThere == PoolSpec => []LookedRowIsThere
<1>1. Typed => LookedRowIsThere
  BY DEF Typed
<1>2. QED
  BY <1>1, TypedAlways, PTL

-----------------------------------------------------------------------------
(* The rows of one vector, as constants: w waits, p have been pushed and   *)
(* thread t of the pool has taken T[t].                                    *)

\* RowsAccountedFor for one vector, and nothing waits that was not pushed.
Accounted(threads, w, p, T) ==
    /\ Len(w) <= p
    /\ \A i \in 1 .. Len(w) : w[i] = p - Len(w) + i
    /\ \A r \in 1 .. p - Len(w) : \E t \in threads : \E i \in DOMAIN T[t] : T[t][i] = r
    /\ \A t \in threads : \A i \in DOMAIN T[t] :
          /\ T[t][i] \in 1 .. p - Len(w)
          /\ \A u \in threads : \A j \in DOMAIN T[u] : T[t][i] = T[u][j] => t = u /\ i = j

\* FilesInOrder for the threads of one vector.
Ordered(threads, T) ==
    \A t \in threads : \A i, j \in DOMAIN T[t] : i < j => T[t][i] < T[t][j]

\* A push accounts for the new row: it waits, as the newest.
LEMMA PushKeepsAccount ==
    ASSUME NEW threads, NEW w \in Seq(Nat), NEW p \in Nat, NEW T \in [threads -> Seq(Nat)],
           Accounted(threads, w, p, T)
    PROVE  Accounted(threads, Append(w, p + 1), p + 1, T)
<1> DEFINE x == Append(w, p + 1)
<1>1. /\ Len(w) \in Nat /\ Len(x) = Len(w) + 1
      /\ \A i \in 1 .. Len(w) : x[i] = w[i]
      /\ x[Len(w) + 1] = p + 1
  BY AppendFacts
<1>2. Len(x) <= p + 1 /\ (p + 1) - Len(x) = p - Len(w)
  BY <1>1 DEF Accounted
<1>3. \A i \in 1 .. Len(x) : x[i] = (p + 1) - Len(x) + i
  <2> SUFFICES ASSUME NEW i \in 1 .. Len(x) PROVE x[i] = p - Len(w) + i
    BY <1>2
  <2>1. CASE i \in 1 .. Len(w)
    BY <1>1, <2>1 DEF Accounted
  <2>2. CASE i = Len(w) + 1
    BY <1>1, <2>2
  <2>3. QED
    BY <1>1, <2>1, <2>2
<1> HIDE DEF x
<1>4. Accounted(threads, x, p + 1, T)
  BY <1>2, <1>3 DEF Accounted
<1>5. QED
  BY <1>4 DEF x

\* The first row that waits is the next one after those that were taken.
LEMMA NextToTake ==
    ASSUME NEW threads, NEW w \in Seq(Nat), w # <<>>, NEW p \in Nat, NEW T,
           Accounted(threads, w, p, T)
    PROVE  /\ Head(w) = p - Len(w) + 1
           /\ Len(Tail(w)) = Len(w) - 1
           /\ p - Len(w) \in Nat
           /\ Tail(w) \in Seq(Nat)
           /\ \A i \in 1 .. Len(w) - 1 : Tail(w)[i] = w[i + 1]
<1>1. /\ Len(w) \in Nat \ {0} /\ Head(w) = w[1]
      /\ Len(Tail(w)) = Len(w) - 1 /\ Tail(w) \in Seq(Nat)
      /\ \A i \in 1 .. Len(w) - 1 : Tail(w)[i] = w[i + 1]
  BY TailFacts
<1>2. w[1] = p - Len(w) + 1 /\ Len(w) <= p
  BY <1>1 DEF Accounted
<1>3. QED
  BY <1>1, <1>2

\* A row that is taken changes hands: it waits no more and its taker has it.
LEMMA TakeKeepsAccount ==
    ASSUME NEW threads, NEW w \in Seq(Nat), w # <<>>, NEW p \in Nat,
           NEW T \in [threads -> Seq(Nat)], NEW taker \in threads,
           Accounted(threads, w, p, T), Ordered(threads, T)
    PROVE  LET U == [T EXCEPT ![taker] = Append(@, Head(w))] IN
           Accounted(threads, Tail(w), p, U) /\ Ordered(threads, U)
<1> DEFINE next == p - Len(w) + 1
           U == [T EXCEPT ![taker] = Append(@, next)]
           last == Len(T[taker]) + 1
<1>1. /\ Head(w) = next /\ Len(Tail(w)) = Len(w) - 1
      /\ next \in Nat /\ next - 1 \in Nat /\ Len(w) \in Nat
      /\ \A i \in 1 .. Len(w) - 1 : Tail(w)[i] = w[i + 1]
  BY NextToTake, LenProperties
<1>2. /\ T[taker] \in Seq(Nat) /\ last \in Nat /\ last \notin DOMAIN T[taker]
      /\ DOMAIN U[taker] = DOMAIN T[taker] \cup {last}
      /\ \A i \in DOMAIN T[taker] : U[taker][i] = T[taker][i] /\ i < last
      /\ U[taker][last] = next
  <2>1. T[taker] \in Seq(Nat) /\ U[taker] = Append(T[taker], next)
    OBVIOUS
  <2>2. /\ Len(T[taker]) \in Nat
        /\ DOMAIN T[taker] = 1 .. Len(T[taker])
        /\ DOMAIN U[taker] = 1 .. last
        /\ \A i \in 1 .. Len(T[taker]) : U[taker][i] = T[taker][i]
        /\ U[taker][last] = next
    BY <1>1, <2>1, AppendFacts
  <2>3. QED
    BY <2>1, <2>2
<1>3. \A u \in threads : u # taker => U[u] = T[u]
  OBVIOUS
<1>4. \A t \in threads : \A i \in DOMAIN T[t] :
          /\ T[t][i] \in 1 .. next - 1 /\ i \in Nat
          /\ \A u \in threads : \A j \in DOMAIN T[u] : T[t][i] = T[u][j] => t = u /\ i = j
  BY LenProperties DEF Accounted
<1>5. p - Len(Tail(w)) = next /\ Len(Tail(w)) <= p
  BY <1>1 DEF Accounted
<1>6. \A i \in 1 .. Len(Tail(w)) : Tail(w)[i] = next + i
  BY <1>1 DEF Accounted
<1>7. \A r \in 1 .. next - 1 : \E t \in threads : \E i \in DOMAIN T[t] : T[t][i] = r
  <2>1. next - 1 = p - Len(w)
    BY <1>1
  <2>2. QED
    BY <2>1, Zenon DEF Accounted
<1>8. \A t \in threads : \A i \in DOMAIN U[t] :
          \/ i \in DOMAIN T[t] /\ U[t][i] = T[t][i]
          \/ t = taker /\ i = last /\ U[t][i] = next
  BY <1>2, <1>3
<1>9. \A t \in threads : \A i \in DOMAIN T[t] : i \in DOMAIN U[t] /\ U[t][i] = T[t][i]
  BY <1>2, <1>3
<1>10. \A t \in threads : \A i \in DOMAIN T[t] : t = taker => i < last
  BY <1>2
<1>11. last \in DOMAIN U[taker] /\ U[taker][last] = next
  BY <1>2
<1>12. \A t \in threads : \A i, j \in DOMAIN T[t] : i < j => T[t][i] < T[t][j]
  BY DEF Ordered
<1>13. last \in Nat
  BY <1>2
<1> HIDE DEF next, last, U
<1>14. \A r \in 1 .. next : \E t \in threads : \E i \in DOMAIN U[t] : U[t][i] = r
  <2> SUFFICES ASSUME NEW r \in 1 .. next
               PROVE  \E t \in threads : \E i \in DOMAIN U[t] : U[t][i] = r
    OBVIOUS
  <2>1. CASE r = next
    BY <2>1, <1>11
  <2>2. CASE r \in 1 .. next - 1
    <3>1. PICK t \in threads : \E i \in DOMAIN T[t] : T[t][i] = r
      BY <2>2, <1>7
    <3>2. PICK i \in DOMAIN T[t] : T[t][i] = r
      BY <3>1
    <3>3. i \in DOMAIN U[t] /\ U[t][i] = r
      BY <3>2, <1>9
    <3>4. QED
      BY <3>3
  <2>3. QED
    BY <1>1, <2>1, <2>2
<1>15. \A t \in threads : \A i \in DOMAIN U[t] : U[t][i] \in 1 .. next
  <2> SUFFICES ASSUME NEW t \in threads, NEW i \in DOMAIN U[t]
               PROVE  U[t][i] \in 1 .. next
    OBVIOUS
  <2>1. CASE U[t][i] = next
    BY <2>1, <1>1
  <2>2. CASE U[t][i] \in 1 .. next - 1
    BY <2>2, <1>1
  <2>3. QED
    BY <1>4, <1>8, <2>1, <2>2
<1>16. ASSUME NEW t \in threads, NEW i \in DOMAIN U[t], NEW u \in threads,
              NEW j \in DOMAIN U[u], U[t][i] = U[u][j]
       PROVE  t = u /\ i = j
  <2>1. \A s \in threads : \A k \in DOMAIN T[s] : T[s][k] # next
    BY <1>1, <1>4
  <2>2. CASE U[t][i] = next
    <3>1. t = taker /\ i = last
      BY <1>8, <2>1, <2>2, Zenon
    <3>2. u = taker /\ j = last
      BY <1>8, <1>16, <2>1, <2>2, Zenon
    <3>3. QED
      BY <3>1, <3>2
  <2>3. CASE U[t][i] # next
    <3>1. i \in DOMAIN T[t] /\ j \in DOMAIN T[u] /\ T[t][i] = T[u][j]
      BY <1>8, <1>16, <2>3
    <3>2. QED
      BY <1>4, <3>1
  <2>4. QED
    BY <2>2, <2>3
<1>17. Ordered(threads, U)
  <2> SUFFICES ASSUME NEW t \in threads, NEW i \in DOMAIN U[t], NEW j \in DOMAIN U[t], i < j
               PROVE  U[t][i] < U[t][j]
    BY DEF Ordered
  <2>1. CASE i \in DOMAIN T[t] /\ j \in DOMAIN T[t]
    BY <2>1, <1>9, <1>12
  <2>2. CASE i \in DOMAIN T[t] /\ t = taker /\ j = last
    BY <2>2, <1>1, <1>4, <1>9, <1>11
  <2>3. CASE t = taker /\ i = last
    BY <2>3, <1>4, <1>8, <1>10, <1>13
  <2>4. QED
    BY <1>8, <2>1, <2>2, <2>3
<1>18. Accounted(threads, Tail(w), p, U)
  <2>1. \A i \in 1 .. Len(Tail(w)) : Tail(w)[i] = p - Len(Tail(w)) + i
    BY <1>5, <1>6, Zenon
  <2>2. \A r \in 1 .. p - Len(Tail(w)) : \E t \in threads : \E i \in DOMAIN U[t] : U[t][i] = r
    BY <1>5, <1>14, Zenon
  <2>3. \A t \in threads : \A i \in DOMAIN U[t] : U[t][i] \in 1 .. p - Len(Tail(w))
    BY <1>5, <1>15, Zenon
  <2>4. \A t \in threads : \A i \in DOMAIN U[t] : \A u \in threads : \A j \in DOMAIN U[u] :
            U[t][i] = U[u][j] => t = u /\ i = j
    BY <1>16
  <2>5. Len(Tail(w)) <= p
    BY <1>5
  <2>6. \A t \in threads : \A i \in DOMAIN U[t] :
            /\ U[t][i] \in 1 .. p - Len(Tail(w))
            /\ \A u \in threads : \A j \in DOMAIN U[u] : U[t][i] = U[u][j] => t = u /\ i = j
    BY <2>3, <2>4, Zenon
  <2>7. QED
    BY <2>1, <2>2, <2>5, <2>6, Zenon DEF Accounted
<1>19. QED
  BY <1>1, <1>17, <1>18 DEF U
-----------------------------------------------------------------------------
(* Every step accounts for the rows.                                       *)

\* What the threads of one vector have taken.
TakenIn(v) == [t \in Pool(v) |-> Taken(t)]

Rows == \A v \in Vectors : /\ Accounted(Pool(v), waiting[v], pushed[v], TakenIn(v))
                           /\ Ordered(Pool(v), TakenIn(v))

LEMMA RowsInit == PoolInit => Rows
<1> SUFFICES ASSUME PoolInit, NEW v \in Vectors
             PROVE  /\ Accounted(Pool(v), waiting[v], pushed[v], TakenIn(v))
                    /\ Ordered(Pool(v), TakenIn(v))
  BY DEF Rows
<1>1. waiting[v] = <<>> /\ pushed[v] = 0 /\ Len(waiting[v]) = 0
  BY EmptySeq DEF PoolInit
<1>2. \A t \in Pool(v) : TakenIn(v)[t] = <<>>
  <2>1. <<>> \o <<>> = <<>>
    BY EmptySeq, ConcatEmptySeq
  <2>2. QED
    BY <2>1 DEF PoolInit, TakenIn, Taken, Pool
<1>3. DOMAIN <<>> = {}
  BY EmptySeq, LenProperties
<1>4. QED
  BY <1>1, <1>2, <1>3 DEF Accounted, Ordered

\* What a thread has taken has the type that the lemmas above ask for.
LEMMA TakenTypes == Typed => \A v \in Vectors : TakenIn(v) \in [Pool(v) -> Seq(Nat)]
<1> SUFFICES ASSUME Typed, NEW v \in Vectors, NEW t \in Pool(v)
             PROVE  Taken(t) \in Seq(Nat)
  BY DEF TakenIn
<1>1. database[t] \in Seq(Nat) /\ temp[t] \in Seq(Nat)
  BY DEF Typed, PoolTypeOK, Pool
<1>2. QED
  BY <1>1, ConcatProperties DEF Taken

\* A step that takes nothing, and leaves one vector alone, leaves its account as it was.
LEMMA SameAccount ==
    ASSUME Rows, NEW v \in Vectors, waiting'[v] = waiting[v], pushed'[v] = pushed[v],
           \A t \in Threads : Taken(t)' = Taken(t)
    PROVE  /\ Accounted(Pool(v), waiting'[v], pushed'[v], TakenIn(v)')
           /\ Ordered(Pool(v), TakenIn(v)')
<1>1. TakenIn(v)' = TakenIn(v)
  BY DEF TakenIn, Pool
<1>2. QED
  BY <1>1 DEF Rows

LEMMA RowsStep == Typed /\ RightPlaces /\ Rows /\ [PoolNext]_poolVars => Rows'
<1> SUFFICES ASSUME Typed, RightPlaces, Rows, [PoolNext]_poolVars, NEW v \in Vectors
             PROVE  /\ Accounted(Pool(v), waiting'[v], pushed'[v], TakenIn(v)')
                    /\ Ordered(Pool(v), TakenIn(v)')
  BY DEF Rows, Pool
<1>1. /\ waiting[v] \in Seq(Nat) /\ pushed[v] \in Nat
      /\ TakenIn(v) \in [Pool(v) -> Seq(Nat)]
      /\ Accounted(Pool(v), waiting[v], pushed[v], TakenIn(v))
      /\ Ordered(Pool(v), TakenIn(v))
  BY TakenTypes DEF Typed, PoolTypeOK, Rows
<1>2. ASSUME NEW w \in Vectors, PushRow(w)
      PROVE  /\ Accounted(Pool(v), waiting'[v], pushed'[v], TakenIn(v)')
             /\ Ordered(Pool(v), TakenIn(v)')
  <2>1. \A t \in Threads : Taken(t)' = Taken(t)
    BY <1>2 DEF PushRow, Taken
  <2>2. CASE w # v
    <3>1. waiting'[v] = waiting[v] /\ pushed'[v] = pushed[v]
      BY <1>2, <2>2 DEF PushRow, Typed, PoolTypeOK
    <3>2. QED
      BY <2>1, <3>1, SameAccount
  <2>3. CASE w = v
    <3>1. waiting'[v] = Append(waiting[v], pushed[v] + 1) /\ pushed'[v] = pushed[v] + 1
      BY <1>2, <2>3 DEF PushRow, Typed, PoolTypeOK
    <3>2. TakenIn(v)' = TakenIn(v)
      BY <2>1 DEF TakenIn, Pool
    <3>3. Accounted(Pool(v), Append(waiting[v], pushed[v] + 1), pushed[v] + 1, TakenIn(v))
      BY <1>1, PushKeepsAccount
    <3>4. QED
      BY <1>1, <3>1, <3>2, <3>3
  <2>4. QED
    BY <2>2, <2>3
<1>3. ASSUME NEW t \in Threads, TakesRow(t)
      PROVE  /\ Accounted(Pool(v), waiting'[v], pushed'[v], TakenIn(v)')
             /\ Ordered(Pool(v), TakenIn(v)')
  <2> DEFINE row == Head(waiting[VectorOf[t]])
  <2>1. \A u \in Threads : u # t => Taken(u)' = Taken(u)
    BY <1>3 DEF TakesRow, Taken, Typed, PoolTypeOK
  <2>2. pushed' = pushed
    BY <1>3 DEF TakesRow
  <2>3. CASE VectorOf[t] # v
    <3>1. waiting'[v] = waiting[v]
      BY <1>3, <2>3 DEF TakesRow, Typed, PoolTypeOK
    <3>2. TakenIn(v)' = TakenIn(v)
      BY <2>1, <2>3 DEF TakenIn, Pool
    <3>3. QED
      BY <1>1, <2>2, <3>1, <3>2
  <2>4. CASE VectorOf[t] = v
    <3>1. waiting[v] # <<>> /\ waiting'[v] = Tail(waiting[v]) /\ t \in Pool(v)
      BY <1>3, <2>4 DEF TakesRow, Typed, PoolTypeOK, Pool
    <3>2. Taken(t)' = Append(Taken(t), row)
      <4>1. /\ database[t] \in Seq(Nat) /\ temp[t] = <<>>
            /\ database'[t] = database[t] /\ temp'[t] = Append(temp[t], row)
        BY <1>3 DEF TakesRow, Typed, PoolTypeOK, HoldsAtInsert
      <4>2. row \in Nat
        BY <1>1, <2>4, <3>1, TailFacts
      <4>3. QED
        BY <4>1, <4>2, AppendAtTheEnd DEF Taken
    <3>3. TakenIn(v)' = [TakenIn(v) EXCEPT ![t] = Append(@, Head(waiting[v]))]
      BY <2>1, <2>4, <3>1, <3>2 DEF TakenIn, Pool
    <3>4. LET U == [TakenIn(v) EXCEPT ![t] = Append(@, Head(waiting[v]))] IN
          Accounted(Pool(v), Tail(waiting[v]), pushed[v], U) /\ Ordered(Pool(v), U)
      BY <1>1, <3>1, TakeKeepsAccount
    <3>5. QED
      BY <2>2, <3>1, <3>3, <3>4
  <2>5. QED
    BY <2>3, <2>4
<1>4. ASSUME NEW t \in Threads, InsertRow(t)
      PROVE  /\ Accounted(Pool(v), waiting'[v], pushed'[v], TakenIn(v)')
             /\ Ordered(Pool(v), TakenIn(v)')
  <2>1. /\ database[t] \in Seq(Nat) /\ temp[t] \in Seq(Nat) /\ Len(temp[t]) = 1
        /\ database'[t] = Append(database[t], Head(temp[t])) /\ temp'[t] = Tail(temp[t])
    BY <1>4 DEF InsertRow, Goto, Typed, PoolTypeOK, HoldsAtInsert
  <2>2. Taken(t)' = Taken(t)
    BY <2>1, MoveTheOnlyOne DEF Taken
  <2>3. \A u \in Threads : u # t => Taken(u)' = Taken(u)
    BY <1>4 DEF InsertRow, Taken, Typed, PoolTypeOK
  <2>4. waiting' = waiting /\ pushed' = pushed
    BY <1>4 DEF InsertRow
  <2>5. QED
    BY <2>2, <2>3, <2>4, SameAccount
<1>5. ASSUME UNCHANGED <<pushed, waiting, temp, database>>
      PROVE  /\ Accounted(Pool(v), waiting'[v], pushed'[v], TakenIn(v)')
             /\ Ordered(Pool(v), TakenIn(v)')
  <2>1. \A t \in Threads : Taken(t)' = Taken(t)
    BY <1>5 DEF Taken
  <2>2. QED
    BY <1>5, <2>1, SameAccount
<1>6. QED
  BY <1>2, <1>3, <1>4, <1>5, StepKinds DEF Moves, SetBlocksDone, poolVars

LEMMA RowsAlways == PoolSpec => []Rows
BY TypedAlways, RowsInit, RowsStep, PTL DEF PoolSpec

\* Two threads of a pool neither store the same row nor lose one between them, for every
\* number of threads, vectors and rows (StorePool.RowsAccountedFor).
THEOREM PoolRowsAreAccountedFor == PoolSpec => []RowsAccountedFor
<1>1. ASSUME Rows, NEW v \in Vectors
      PROVE  LET left == Len(waiting[v]) IN
             /\ \A i \in 1 .. left : waiting[v][i] = pushed[v] - left + i
             /\ \A r \in 1 .. pushed[v] - left :
                   \E t \in Pool(v) : \E i \in DOMAIN Taken(t) : Taken(t)[i] = r
             /\ \A t \in Pool(v) : \A i \in DOMAIN Taken(t) :
                   /\ Taken(t)[i] \in 1 .. pushed[v] - left
                   /\ \A u \in Pool(v) : \A j \in DOMAIN Taken(u) :
                         Taken(t)[i] = Taken(u)[j] => t = u /\ i = j
  <2>1. Accounted(Pool(v), waiting[v], pushed[v], TakenIn(v))
    BY <1>1 DEF Rows
  <2>2. \A t \in Pool(v) : TakenIn(v)[t] = Taken(t)
    BY DEF TakenIn
  <2>3. /\ \A i \in 1 .. Len(waiting[v]) : waiting[v][i] = pushed[v] - Len(waiting[v]) + i
        /\ \A r \in 1 .. pushed[v] - Len(waiting[v]) :
              \E t \in Pool(v) : \E i \in DOMAIN TakenIn(v)[t] : TakenIn(v)[t][i] = r
        /\ \A t \in Pool(v) : \A i \in DOMAIN TakenIn(v)[t] :
              /\ TakenIn(v)[t][i] \in 1 .. pushed[v] - Len(waiting[v])
              /\ \A u \in Pool(v) : \A j \in DOMAIN TakenIn(v)[u] :
                    TakenIn(v)[t][i] = TakenIn(v)[u][j] => t = u /\ i = j
    BY <2>1 DEF Accounted
  <2>4. \A r \in 1 .. pushed[v] - Len(waiting[v]) :
            \E t \in Pool(v) : \E i \in DOMAIN Taken(t) : Taken(t)[i] = r
    BY <2>2, <2>3
  <2>5. ASSUME NEW t \in Pool(v), NEW i \in DOMAIN Taken(t)
        PROVE  /\ Taken(t)[i] \in 1 .. pushed[v] - Len(waiting[v])
               /\ \A u \in Pool(v) : \A j \in DOMAIN Taken(u) :
                     Taken(t)[i] = Taken(u)[j] => t = u /\ i = j
    BY <2>2, <2>3
  <2>6. QED
    BY <2>3, <2>4, <2>5
<1>2. Rows => RowsAccountedFor
  BY <1>1 DEF RowsAccountedFor
<1>3. QED
  BY <1>2, RowsAlways, PTL

\* Each database file has its rows in the order in which they were parsed
\* (StorePool.FilesInOrder).
THEOREM PoolFilesAreInOrder == PoolSpec => []FilesInOrder
<1>1. Rows => FilesInOrder
  BY PoolOK DEF Rows, Ordered, TakenIn, FilesInOrder, Pool
<1>2. QED
  BY <1>1, RowsAlways, PTL

\* A pool keeps the rows it is given, in the sense that the run checks
\* (StorePool.PoolKeepsRows).
THEOREM PoolRowsAreKept == PoolSpec => []PoolKeepsRows
<1>1. RowsAccountedFor /\ FilesInOrder /\ LookedRowIsThere => PoolKeepsRows
  BY DEF PoolKeepsRows
<1>2. QED
  BY <1>1, PoolRowsAreAccountedFor, PoolFilesAreInOrder, SeenRowsAreThere, PTL
=============================================================================
