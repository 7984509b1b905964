---------------------------- MODULE SqliteBatches ----------------------------
(***************************************************************************)
(* A storing thread's batches in the SQLite wrapper (indexmapper.h), one   *)
(* connection to one file.  Every insert function does the same: BEGIN,    *)
(* prepare, one sqlite3_step for each row, COMMIT, with all results        *)
(* ignored but that of prepare; if prepare fails the function returns      *)
(* without COMMIT or ROLLBACK.  The file is written with synchronous=OFF   *)
(* and the journal in memory.                                              *)
(*                                                                         *)
(* SQLite is external and modelled by what its interface says: BEGIN fails *)
(* inside a transaction, a row that is refused leaves the transaction as   *)
(* it was, COMMIT that finds the file busy leaves the transaction open,    *)
(* close rolls an open transaction back.                                   *)
(***************************************************************************)
EXTENDS Integers, FiniteSets

CONSTANTS
    NumBatches,     \* bound: batches that a thread stores
    BatchRows,      \* rows in a batch
    MaxFaults       \* bound: prepares, rows and commits that fail

ASSUME BatchesOK == NumBatches \in Nat /\ BatchRows \in Nat \ {0} /\ MaxFaults \in Nat

VARIABLES
    batch,          \* the batch at hand
    next,           \* the statement of the insert function that comes next
    bound,          \* the row to bind next
    open,           \* a transaction is open
    uncommitted,    \* the rows in it
    file,           \* the rows in the file
    reported,       \* the rows for which "Commit Failed!" was printed
    dropped,        \* the batches whose prepare failed
    faults,
    damaged         \* the process died while COMMIT wrote the file

batchVars == <<batch, next, bound, open, uncommitted, file, reported, dropped, faults, damaged>>

RowsOf(b) == {<<b, i>> : i \in 1 .. BatchRows}

BatchesInit ==
    /\ batch = 1
    /\ next = "begin"
    /\ bound = 1
    /\ open = FALSE
    /\ uncommitted = {}
    /\ file = {}
    /\ reported = {}
    /\ dropped = {}
    /\ faults = 0
    /\ damaged = FALSE

Alive == next \notin {"closed", "died"}
Fault == faults < MaxFaults /\ faults' = faults + 1
-----------------------------------------------------------------------------
\* BEGIN TRANSACTION; within a transaction it fails, which nobody notices.
BeginTransaction ==
    /\ next = "begin"
    /\ batch <= NumBatches
    /\ open' = TRUE
    /\ next' = "prepare"
    /\ UNCHANGED <<batch, bound, uncommitted, file, reported, dropped, faults, damaged>>

\* Seeded fault: the failing branch ends the transaction.
PrepareEnds ==
    /\ next = "prepare"
    /\ \/ next' = "step" /\ UNCHANGED <<batch, dropped, faults, open, uncommitted>>
       \/ /\ Fault
          /\ dropped' = dropped \cup {batch}
          /\ batch' = batch + 1
          /\ next' = "begin"
          /\ open' = FALSE
          /\ uncommitted' = {}
    /\ bound' = 1
    /\ UNCHANGED <<file, reported, damaged>>

\* sqlite3_prepare; when it fails the function returns with the transaction open.
Prepare ==
    /\ next = "prepare"
    /\ \/ next' = "step" /\ UNCHANGED <<batch, dropped, faults>>
       \/ /\ Fault
          /\ dropped' = dropped \cup {batch}
          /\ batch' = batch + 1
          /\ next' = "begin"
    /\ bound' = 1
    /\ UNCHANGED <<open, uncommitted, file, reported, damaged>>

\* Seeded fault: a refused row is not reported.
StepRowSilent ==
    /\ next = "step"
    /\ \/ uncommitted' = uncommitted \cup {<<batch, bound>>} /\ UNCHANGED faults
       \/ Fault /\ UNCHANGED uncommitted
    /\ bound' = bound + 1
    /\ next' = IF bound = BatchRows THEN "commit" ELSE "step"
    /\ UNCHANGED <<batch, open, file, reported, dropped, damaged>>

\* bind, sqlite3_step and sqlite3_reset of one row; a refused row is printed.
StepRow ==
    /\ next = "step"
    /\ \/ uncommitted' = uncommitted \cup {<<batch, bound>>} /\ UNCHANGED <<reported, faults>>
       \/ Fault /\ reported' = reported \cup {<<batch, bound>>} /\ UNCHANGED uncommitted
    /\ bound' = bound + 1
    /\ next' = IF bound = BatchRows THEN "commit" ELSE "step"
    /\ UNCHANGED <<batch, open, file, dropped, damaged>>

\* COMMIT TRANSACTION and sqlite3_finalize; the result of COMMIT is not looked at.
CommitTransaction ==
    /\ next = "commit"
    /\ \/ /\ file' = file \cup uncommitted
          /\ uncommitted' = {}
          /\ open' = FALSE
          /\ UNCHANGED faults
       \/ Fault /\ UNCHANGED <<file, uncommitted, open>>
    /\ batch' = batch + 1
    /\ next' = "begin"
    /\ UNCHANGED <<bound, reported, dropped, damaged>>

\* close(): an open transaction is rolled back.
close ==
    /\ next = "begin"
    /\ batch > NumBatches
    /\ next' = "closed"
    /\ open' = FALSE
    /\ uncommitted' = {}
    /\ UNCHANGED <<batch, bound, file, reported, dropped, faults, damaged>>

\* The process dies.  Outside COMMIT the file is as the last COMMIT left it.  Within
\* it some pages of the file are new and some old, and no journal on disk can undo
\* them: what can still be read is any of the rows.
Die ==
    /\ Alive
    /\ next' = "died"
    /\ open' = FALSE
    /\ uncommitted' = {}
    /\ \/ UNCHANGED <<file, damaged>>
       \/ /\ next = "commit"
          /\ damaged' = TRUE
          /\ file' \in SUBSET (file \cup uncommitted)
    /\ UNCHANGED <<batch, bound, reported, dropped, faults>>

BatchesEnded == ~Alive /\ UNCHANGED batchVars

BatchesNext ==
    \/ BeginTransaction \/ Prepare \/ StepRow \/ CommitTransaction \/ close
    \/ Die
    \/ BatchesEnded

BatchesSpec == BatchesInit /\ [][BatchesNext]_batchVars
-----------------------------------------------------------------------------
\* What has become of batch b.
OutcomeOf(b) ==
    LET inFile == RowsOf(b) \cap file IN
    IF inFile = RowsOf(b) THEN "kept"
    ELSE IF inFile # {} THEN "torn"
    ELSE IF b \in dropped \/ ~Alive THEN "lost"
    ELSE "waiting"

Promise == INSTANCE BatchPromise WITH
    Batches <- 1 .. NumBatches,
    outcome <- [b \in 1 .. NumBatches |-> OutcomeOf(b)],
    refused <- {r[1] : r \in reported},
    over <- ~Alive

\* A batch is kept whole or not at all, unless a row was refused and printed or the
\* process died within COMMIT (indexmapper.h:121-167 and the like; the transaction
\* that a failing prepare or COMMIT leaves open tears nothing).
KeepsThePromise == Promise!PromiseSpec

\* Rows that are missing without a trace are the last ones: once a row is in the
\* file, so is every earlier row, but for those that were printed as refused or
\* whose prepare failed (indexmapper.h:154-163: what a COMMIT leaves behind is
\* picked up by the next, also across a batch that was dropped in between).
LossIsAtTheEnd ==
    ~damaged =>
        \A r \in file : \A b \in 1 .. r[1] - 1 :
            b \notin dropped => RowsOf(b) \subseteq file \cup reported
=============================================================================
