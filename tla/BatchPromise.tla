----------------------------- MODULE BatchPromise -----------------------------
(***************************************************************************)
(* What the storing threads rely on when they hand a batch of rows to the  *)
(* database wrapper: the batch ends up in the file whole, or not at all,   *)
(* and what is in the file stays there.  Only a batch of which a refused   *)
(* row has been printed may be torn.  If the process dies while the file   *)
(* is written nothing is promised.                                         *)
(***************************************************************************)
CONSTANT Batches

VARIABLES
    outcome,    \* outcome[b]: "waiting", "kept", "lost" or "torn"
    refused,    \* the batches of which a refused row has been printed
    over        \* no batch follows

PromiseInit ==
    /\ outcome = [b \in Batches |-> "waiting"]
    /\ refused = {}
    /\ over = FALSE

Refuse(b) ==
    /\ ~over
    /\ outcome[b] = "waiting"
    /\ refused' = refused \cup {b}
    /\ UNCHANGED <<outcome, over>>

\* Some waiting batches are kept or lost, at once: more than one can be in a
\* transaction.
Settle ==
    /\ ~over
    /\ outcome' \in [Batches -> {"waiting", "kept", "lost", "torn"}]
    /\ \A b \in Batches : outcome'[b] # outcome[b] =>
          /\ outcome[b] = "waiting"
          /\ outcome'[b] = "torn" => b \in refused
    /\ over' \in BOOLEAN
    /\ UNCHANGED refused

\* The process dies while the file is written.
Crash ==
    /\ ~over
    /\ outcome' \in [Batches -> {"waiting", "kept", "lost", "torn"}]
    /\ over' = TRUE
    /\ UNCHANGED refused

PromiseNext == (\E b \in Batches : Refuse(b)) \/ Settle \/ Crash

PromiseSpec == PromiseInit /\ [][PromiseNext]_<<outcome, refused, over>>
=============================================================================
