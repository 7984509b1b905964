------------------------------- MODULE RowLog -------------------------------
(***************************************************************************)
(* What the pipeline of the parser promises about one run, with no thread, *)
(* vector or lock in sight: for each kind of row (block hashes, block      *)
(* data, ...) the rows are logged in order while the run is open, and a    *)
(* prefix of the log, never anything else, has been handed to storage.     *)
(* Rows are numbered from 1 within their kind.                             *)
(***************************************************************************)
EXTENDS Naturals, Sequences

CONSTANT Queue      \* the kinds of rows

VARIABLES logged,   \* logged[q]: the rows produced so far, in order
          stored,   \* stored[q]: the rows handed to the storage call, in order
          closed    \* nothing is logged any more

vars == <<logged, stored, closed>>

Init ==
    /\ logged = [q \in Queue |-> <<>>]
    /\ stored = [q \in Queue |-> <<>>]
    /\ closed = FALSE

Log(q) ==
    /\ ~closed
    /\ logged' = [logged EXCEPT ![q] = Append(@, Len(@) + 1)]
    /\ UNCHANGED <<stored, closed>>

Close ==
    /\ closed' = TRUE
    /\ UNCHANGED <<logged, stored>>

\* One storage call takes the next rows of the log, as many as it likes.
Store(q) ==
    /\ \E n \in (Len(stored[q]) + 1) .. Len(logged[q]) :
          stored' = [stored EXCEPT ![q] = SubSeq(logged[q], 1, n)]
    /\ UNCHANGED <<logged, closed>>

Next == Close \/ \E q \in Queue : Log(q) \/ Store(q)

Spec == Init /\ [][Next]_vars
=============================================================================
