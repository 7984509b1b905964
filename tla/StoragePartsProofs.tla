-------------------------- MODULE StoragePartsProofs --------------------------
(***************************************************************************)
(* Proofs about three parts of the storage: SqliteBatches, for every       *)
(* number of batches and rows and however many statements fail,            *)
(* SharedFilter, for every set of producers, keys and hash functions, and  *)
(* TableRows, for every shape of the blocks.                               *)
(***************************************************************************)
EXTENDS SqliteBatches, SharedFilter, TableRows, FiniteSetTheorems, SequenceTheorems,
        WellFoundedInduction, TLAPS

-----------------------------------------------------------------------------
(* The batches of the SQLite wrapper.  Rows of a batch leave the thread together: while
   one is at hand its rows are in the open transaction or printed as refused, and no row
   of it is in the file. *)
Statements == {"begin", "prepare", "step", "commit", "closed", "died"}
BatchTypes ==
    /\ batch \in Nat /\ batch >= 1 /\ bound \in 1 .. BatchRows + 1 /\ next \in Statements
    /\ file \subseteq Nat \X (1 .. BatchRows) /\ uncommitted \subseteq Nat \X (1 .. BatchRows)
    /\ dropped \subseteq 1 .. batch - 1
    /\ next \in {"prepare", "step", "commit"} => batch <= NumBatches
    /\ next = "step" => bound <= BatchRows
    /\ next = "commit" => bound = BatchRows + 1
Earlier(rows) == \A r \in rows : r[1] < batch
BatchesApart ==
    /\ Alive => Earlier(file)
    /\ \A r \in uncommitted :
          r[1] < batch \/ (r[1] = batch /\ next \in {"step", "commit"} /\ r[2] < bound)
    /\ \A r \in file : \A s \in uncommitted : r[1] # s[1]
    /\ \A r \in file \cup uncommitted : r[1] \notin dropped
RowsAccountedFor ==
    /\ Alive => \A b \in 1 .. batch - 1 :
          b \notin dropped => RowsOf(b) \subseteq file \cup uncommitted \cup reported
    /\ next \in {"step", "commit"} =>
          \A i \in 1 .. bound - 1 : <<batch, i>> \in uncommitted \cup reported
BatchInv == BatchTypes /\ BatchesApart /\ RowsAccountedFor /\ LossIsAtTheEnd

LEMMA BatchNumbers == NumBatches \in Nat /\ BatchRows \in Nat /\ BatchRows >= 1
BY BatchesOK DEF BatchesOK

LEMMA RowsOfBatch ==
    ASSUME NEW b
    PROVE  /\ \A r : r \in RowsOf(b) <=> \E i \in 1 .. BatchRows : r = <<b, i>>
           /\ RowsOf(b) # {} /\ \A r \in RowsOf(b) : r[1] = b
<1>1. \A r : r \in RowsOf(b) <=> \E i \in 1 .. BatchRows : r = <<b, i>>
  BY DEF RowsOf
<1>2. <<b, 1>> \in RowsOf(b)
  BY <1>1, BatchNumbers
<1>3. QED
  BY <1>1, <1>2

LEMMA BatchesStart == BatchesInit => BatchInv
<1> SUFFICES ASSUME BatchesInit PROVE BatchInv
  OBVIOUS
<1>1. /\ batch = 1 /\ next = "begin" /\ bound = 1 /\ uncommitted = {} /\ file = {} /\ dropped = {}
  BY DEF BatchesInit
<1>2. QED
  BY <1>1, BatchNumbers
  DEF BatchInv, BatchTypes, Statements, BatchesApart, Earlier, RowsAccountedFor, LossIsAtTheEnd

LEMMA BeginStep ==
    ASSUME BatchInv, BeginTransaction
    PROVE  BatchInv'
<1>1. /\ next = "begin" /\ batch <= NumBatches /\ next' = "prepare"
      /\ UNCHANGED <<batch, bound, uncommitted, file, reported, dropped, damaged>>
  BY DEF BeginTransaction
<1>2. QED
  BY <1>1
  DEF BatchInv, BatchTypes, Statements, BatchesApart, Earlier, RowsAccountedFor, LossIsAtTheEnd, Alive

LEMMA PrepareStep ==
    ASSUME BatchInv, Prepare
    PROVE  BatchInv'
<1>1. /\ next = "prepare" /\ bound' = 1 /\ UNCHANGED <<uncommitted, file, reported, damaged>>
      /\ \/ next' = "step" /\ UNCHANGED <<batch, dropped>>
         \/ dropped' = dropped \cup {batch} /\ batch' = batch + 1 /\ next' = "begin"
  BY DEF Prepare
<1>2. /\ batch \in Nat /\ batch >= 1 /\ dropped \subseteq 1 .. batch - 1 /\ batch <= NumBatches
      /\ file \subseteq Nat \X (1 .. BatchRows) /\ uncommitted \subseteq Nat \X (1 .. BatchRows)
      /\ \A r \in file \cup uncommitted : r[1] < batch
  BY <1>1 DEF BatchInv, BatchTypes, BatchesApart, Earlier, Alive
<1>3. BatchTypes'
  <2>1. CASE next' = "step" /\ UNCHANGED <<batch, dropped>>
    BY <1>1, <1>2, <2>1, BatchNumbers DEF BatchTypes, Statements
  <2>2. CASE dropped' = dropped \cup {batch} /\ batch' = batch + 1 /\ next' = "begin"
    <3>1. \A b \in dropped' : b \in 1 .. batch' - 1
      BY <1>2, <2>2
    <3>2. batch' \in Nat /\ batch' >= 1 /\ bound' \in 1 .. BatchRows + 1
      BY <1>1, <1>2, <2>2, BatchNumbers
    <3>3. QED
      BY <1>1, <1>2, <2>2, <3>1, <3>2 DEF BatchTypes, Statements
  <2>3. QED
    BY <1>1, <2>1, <2>2
<1>4. BatchesApart'
  <2>1. \A r \in file \cup uncommitted : r[1] < batch' /\ r[1] # batch
    BY <1>1, <1>2
  <2>2. QED
    BY <1>1, <2>1 DEF BatchInv, BatchesApart, Earlier
<1>5. RowsAccountedFor'
  <2>1. \A b \in 1 .. batch - 1 :
            b \notin dropped => RowsOf(b) \subseteq file \cup uncommitted \cup reported
    BY <1>1 DEF BatchInv, RowsAccountedFor, Alive
  <2>2. \A b \in 1 .. batch' - 1 : b \notin dropped' => b \in 1 .. batch - 1 /\ b \notin dropped
    BY <1>1, <1>2
  <2>3. 1 .. bound' - 1 = {}
    BY <1>1
  <2>4. QED
    BY <1>1, <2>1, <2>2, <2>3 DEF RowsAccountedFor
<1>6. LossIsAtTheEnd'
  BY <1>1 DEF BatchInv, LossIsAtTheEnd
<1>7. QED
  BY <1>3, <1>4, <1>5, <1>6 DEF BatchInv

LEMMA RowStep ==
    ASSUME BatchInv, StepRow
    PROVE  BatchInv'
<1>1. /\ next = "step" /\ bound' = bound + 1 /\ UNCHANGED <<batch, file, dropped, damaged>>
      /\ next' = IF bound = BatchRows THEN "commit" ELSE "step"
      /\ \/ uncommitted' = uncommitted \cup {<<batch, bound>>} /\ reported' = reported
         \/ reported' = reported \cup {<<batch, bound>>} /\ uncommitted' = uncommitted
  BY DEF StepRow
<1>2. /\ batch \in Nat /\ batch >= 1 /\ bound \in 1 .. BatchRows /\ dropped \subseteq 1 .. batch - 1
      /\ file \subseteq Nat \X (1 .. BatchRows) /\ uncommitted \subseteq Nat \X (1 .. BatchRows)
  BY <1>1 DEF BatchInv, BatchTypes
<1>3. \A r \in uncommitted' : r \in uncommitted \/ r = <<batch, bound>>
  BY <1>1
<1>4. BatchTypes'
  <2>1. bound' \in 1 .. BatchRows + 1 /\ next' \in {"step", "commit"}
        /\ (next' = "step" => bound' <= BatchRows) /\ (next' = "commit" => bound' = BatchRows + 1)
    BY <1>1, <1>2, BatchNumbers
  <2>2. uncommitted' \subseteq Nat \X (1 .. BatchRows)
    BY <1>2, <1>3
  <2>3. QED
    BY <1>1, <2>1, <2>2 DEF BatchInv, BatchTypes, Statements
<1>5. BatchesApart'
  <2>1. Earlier(file) /\ batch \notin dropped
    BY <1>1, <1>2 DEF BatchInv, BatchesApart, Alive
  <2>2. \A r \in uncommitted' : r[1] < batch \/ (r[1] = batch /\ r[2] < bound')
    <3>1. \A r \in uncommitted : r[1] < batch \/ (r[1] = batch /\ r[2] < bound)
      BY DEF BatchInv, BatchesApart
    <3>2. \A r \in uncommitted : r[2] \in Nat
      BY <1>2
    <3>3. QED
      BY <1>1, <1>2, <1>3, <3>1, <3>2
  <2>3. \A r \in file : \A t \in uncommitted' : r[1] # t[1]
    BY <1>2, <1>3, <2>1 DEF BatchInv, BatchesApart, Earlier
  <2>4. \A r \in file \cup uncommitted' : r[1] \notin dropped
    BY <1>3, <2>1 DEF BatchInv, BatchesApart
  <2>5. QED
    BY <1>1, <2>1, <2>2, <2>3, <2>4 DEF BatchesApart, Earlier
<1>6. RowsAccountedFor'
  <2>1. uncommitted \cup reported \subseteq uncommitted' \cup reported'
        /\ <<batch, bound>> \in uncommitted' \cup reported'
    BY <1>1
  <2>2. \A i \in 1 .. bound' - 1 : i \in 1 .. bound - 1 \/ i = bound
    BY <1>1, <1>2
  <2>3. \A i \in 1 .. bound' - 1 : <<batch, i>> \in uncommitted' \cup reported'
    BY <1>1, <2>1, <2>2 DEF BatchInv, RowsAccountedFor
  <2>4. \A b \in 1 .. batch - 1 :
            b \notin dropped => RowsOf(b) \subseteq file \cup uncommitted \cup reported
    BY <1>1 DEF BatchInv, RowsAccountedFor, Alive
  <2>5. QED
    BY <1>1, <2>1, <2>3, <2>4 DEF RowsAccountedFor
<1>7. LossIsAtTheEnd'
  BY <1>1 DEF BatchInv, LossIsAtTheEnd
<1>8. QED
  BY <1>4, <1>5, <1>6, <1>7 DEF BatchInv

\* What has been printed or waits in the open transaction at a COMMIT.
LEMMA BeforeCommit ==
    ASSUME BatchInv, next = "commit"
    PROVE  /\ \A b \in 1 .. batch :
                 b \notin dropped => RowsOf(b) \subseteq file \cup uncommitted \cup reported
           /\ \A r \in file \cup uncommitted : r[1] \in Nat /\ r[1] <= batch
<1>1. batch \in Nat /\ bound = BatchRows + 1
      /\ file \subseteq Nat \X (1 .. BatchRows) /\ uncommitted \subseteq Nat \X (1 .. BatchRows)
  BY DEF BatchInv, BatchTypes
<1>2. \A i \in 1 .. BatchRows : <<batch, i>> \in uncommitted \cup reported
  BY <1>1, BatchNumbers DEF BatchInv, RowsAccountedFor
<1>3. RowsOf(batch) \subseteq uncommitted \cup reported
  BY <1>2, RowsOfBatch
<1>4. \A b \in 1 .. batch - 1 :
          b \notin dropped => RowsOf(b) \subseteq file \cup uncommitted \cup reported
  BY DEF BatchInv, RowsAccountedFor, Alive
<1>5. \A b \in 1 .. batch : b = batch \/ b \in 1 .. batch - 1
  BY <1>1
<1>6. \A r \in file \cup uncommitted : r[1] \in Nat /\ r[1] <= batch
  BY <1>1 DEF BatchInv, BatchesApart, Earlier, Alive
<1>7. QED
  BY <1>3, <1>4, <1>5, <1>6

LEMMA CommitStep ==
    ASSUME BatchInv, CommitTransaction
    PROVE  BatchInv'
<1>1. /\ next = "commit" /\ batch' = batch + 1 /\ next' = "begin"
      /\ UNCHANGED <<bound, reported, dropped, damaged>>
      /\ \/ file' = file \cup uncommitted /\ uncommitted' = {}
         \/ UNCHANGED <<file, uncommitted>>
  BY DEF CommitTransaction
<1>2. /\ batch \in Nat /\ batch >= 1 /\ dropped \subseteq 1 .. batch - 1
      /\ file \subseteq Nat \X (1 .. BatchRows) /\ uncommitted \subseteq Nat \X (1 .. BatchRows)
  BY DEF BatchInv, BatchTypes
<1>3. /\ \A b \in 1 .. batch :
            b \notin dropped => RowsOf(b) \subseteq file \cup uncommitted \cup reported
      /\ \A r \in file \cup uncommitted : r[1] \in Nat /\ r[1] <= batch
  BY <1>1, BeforeCommit
<1>4. file' \cup uncommitted' = file \cup uncommitted
  BY <1>1
<1>5. BatchTypes'
  <2>1. batch' \in Nat /\ batch' >= 1 /\ dropped' \subseteq 1 .. batch' - 1
    BY <1>1, <1>2
  <2>2. QED
    BY <1>1, <1>2, <1>4, <2>1 DEF BatchInv, BatchTypes, Statements
<1>6. BatchesApart'
  <2>1. \A r \in file' \cup uncommitted' : r[1] < batch'
    BY <1>1, <1>2, <1>3, <1>4
  <2>2. \A r \in file' : \A t \in uncommitted' : r[1] # t[1]
    BY <1>1 DEF BatchInv, BatchesApart
  <2>3. QED
    BY <1>1, <1>4, <2>1, <2>2 DEF BatchInv, BatchesApart, Earlier
<1>7. RowsAccountedFor'
  <2>1. 1 .. batch' - 1 = 1 .. batch
    BY <1>1, <1>2
  <2>2. QED
    BY <1>1, <1>3, <1>4, <2>1 DEF RowsAccountedFor
<1>8. LossIsAtTheEnd'
  <2>1. CASE file' = file \cup uncommitted /\ uncommitted' = {}
    <3>1. \A r \in file' : \A b \in 1 .. r[1] - 1 : b \in 1 .. batch
      BY <1>2, <1>3, <2>1
    <3>2. QED
      BY <1>1, <1>3, <2>1, <3>1 DEF LossIsAtTheEnd
  <2>2. CASE UNCHANGED <<file, uncommitted>>
    BY <1>1, <2>2 DEF BatchInv, LossIsAtTheEnd
  <2>3. QED
    BY <1>1, <2>1, <2>2
<1>9. QED
  BY <1>5, <1>6, <1>7, <1>8 DEF BatchInv

LEMMA EndStep ==
    ASSUME BatchInv, close \/ Die
    PROVE  BatchInv'
<1>1. /\ next' \in {"closed", "died"} /\ uncommitted' = {}
      /\ UNCHANGED <<batch, bound, reported, dropped>>
      /\ file' \subseteq file \cup uncommitted
      /\ UNCHANGED <<file, damaged>> \/ damaged'
  BY DEF close, Die
<1>2. BatchTypes' /\ BatchesApart'
  BY <1>1 DEF BatchInv, BatchTypes, Statements, BatchesApart, Earlier, Alive
<1>3. RowsAccountedFor' /\ LossIsAtTheEnd'
  BY <1>1 DEF BatchInv, RowsAccountedFor, LossIsAtTheEnd, Alive
<1>4. QED
  BY <1>2, <1>3 DEF BatchInv

LEMMA BatchesGoOn == BatchInv /\ [BatchesNext]_batchVars => BatchInv'
<1> SUFFICES ASSUME BatchInv, [BatchesNext]_batchVars PROVE BatchInv'
  OBVIOUS
<1>1. CASE UNCHANGED batchVars
  BY <1>1 DEF batchVars, BatchInv, BatchTypes, BatchesApart, Earlier, RowsAccountedFor, LossIsAtTheEnd, Alive
<1>2. CASE BatchesNext
  BY <1>1, <1>2, BeginStep, PrepareStep, RowStep, CommitStep, EndStep DEF BatchesNext, BatchesEnded
<1>3. QED
  BY <1>1, <1>2

\* The rows of a batch leave the thread together, and what is neither in the file nor in
\* the open transaction has been printed as refused (the insert functions of
\* indexmapper.h).
THEOREM BatchesInvariant == BatchesSpec => []BatchInv
BY BatchesStart, BatchesGoOn, PTL DEF BatchesSpec

\* Once a row is in the file so is every earlier one, but for those that were printed as
\* refused and those of a batch whose prepare failed (the insert functions of
\* indexmapper.h).
THEOREM LossesComeLast == BatchesSpec => []LossIsAtTheEnd
<1>1. BatchInv => LossIsAtTheEnd
  BY DEF BatchInv
<1>2. QED
  BY <1>1, BatchesInvariant, PTL

(* The refinement of the promise of a batch: a COMMIT that succeeds settles the batches
   whose rows are in the transaction, a failing prepare loses its batch, and the end
   loses what has not been settled. *)
Outcomes == {"waiting", "kept", "lost", "torn"}

LEMMA OutcomesAre ==
    ASSUME NEW b
    PROVE  OutcomeOf(b) \in Outcomes /\ OutcomeOf(b)' \in Outcomes
BY DEF OutcomeOf, Outcomes

LEMMA OutcomeStays ==
    ASSUME NEW b, Alive' <=> Alive, RowsOf(b) \cap file' = RowsOf(b) \cap file,
           b \in dropped' <=> b \in dropped
    PROVE  OutcomeOf(b)' = OutcomeOf(b)
<1>1. RowsOf(b)' = RowsOf(b)
  BY DEF RowsOf
<1>2. QED
  BY <1>1 DEF OutcomeOf

LEMMA StillWaiting ==
    ASSUME NEW b, Alive, b \notin dropped, \A r \in RowsOf(b) : r \notin file
    PROVE  OutcomeOf(b) = "waiting"
<1>1. RowsOf(b) \cap file = {} /\ RowsOf(b) # {}
  BY RowsOfBatch
<1>2. QED
  BY <1>1 DEF OutcomeOf

LEMMA SettlesOnly ==
    ASSUME Alive, UNCHANGED reported,
           \A b \in 1 .. NumBatches : OutcomeOf(b)' # OutcomeOf(b) =>
               /\ OutcomeOf(b) = "waiting"
               /\ OutcomeOf(b)' = "torn" => b \in {r[1] : r \in reported}
    PROVE  Promise!Settle
<1>1. [b \in 1 .. NumBatches |-> OutcomeOf(b)]' \in [1 .. NumBatches -> {"waiting", "kept", "lost", "torn"}]
  BY OutcomesAre DEF Outcomes
<1>2. (~Alive)' \in BOOLEAN
  BY DEF Alive
<1>3. QED
  BY <1>1, <1>2 DEF Promise!Settle

LEMMA CommitSettles ==
    ASSUME BatchInv, CommitTransaction
    PROVE  Promise!Settle
<1>1. /\ next = "commit" /\ Alive /\ Alive' /\ UNCHANGED <<reported, dropped>>
      /\ file' = file \cup uncommitted \/ file' = file
  BY DEF CommitTransaction, Alive
<1>2. /\ \A b \in 1 .. batch :
            b \notin dropped => RowsOf(b) \subseteq file \cup uncommitted \cup reported
      /\ \A r \in file \cup uncommitted : r[1] \in Nat /\ r[1] <= batch
  BY <1>1, BeforeCommit
<1>3. ASSUME NEW b \in 1 .. NumBatches, OutcomeOf(b)' # OutcomeOf(b)
      PROVE  /\ OutcomeOf(b) = "waiting"
             /\ OutcomeOf(b)' = "torn" => b \in {r[1] : r \in reported}
  <2>1. PICK t \in RowsOf(b) : t \in uncommitted /\ t \notin file /\ file' = file \cup uncommitted
    <3>1. RowsOf(b) \cap file' # RowsOf(b) \cap file
      BY <1>1, <1>3, OutcomeStays
    <3>2. QED
      BY <1>1, <3>1
  <2>2. t[1] = b /\ b \in 1 .. batch
    BY <1>2, <2>1, RowsOfBatch
  <2>3. b \notin dropped /\ \A r \in RowsOf(b) : r \notin file
    BY <2>1, <2>2, RowsOfBatch DEF BatchInv, BatchesApart
  <2>4. OutcomeOf(b) = "waiting"
    BY <1>1, <2>3, StillWaiting
  <2>5. ASSUME OutcomeOf(b)' = "torn"
        PROVE  b \in {r[1] : r \in reported}
    <3>1. RowsOf(b)' = RowsOf(b)
      BY DEF RowsOf
    <3>2. ~(RowsOf(b) \subseteq file')
      BY <2>5, <3>1 DEF OutcomeOf
    <3>3. PICK r \in RowsOf(b) : r \notin file'
      BY <3>2
    <3>4. r \in reported /\ r[1] = b
      BY <1>2, <2>1, <2>2, <2>3, <3>3, RowsOfBatch
    <3>5. QED
      BY <3>4
  <2>6. QED
    BY <2>4, <2>5
<1>4. QED
  BY <1>1, <1>3, SettlesOnly

LEMMA PrepareSettles ==
    ASSUME BatchInv, Prepare
    PROVE  Promise!Settle
<1>1. /\ next = "prepare" /\ Alive /\ Alive' /\ UNCHANGED <<file, reported>>
      /\ dropped' = dropped \/ dropped' = dropped \cup {batch}
  BY DEF Prepare, Alive
<1>2. ASSUME NEW b \in 1 .. NumBatches, OutcomeOf(b)' # OutcomeOf(b)
      PROVE  OutcomeOf(b) = "waiting" /\ OutcomeOf(b)' # "torn"
  <2>1. b = batch /\ b \notin dropped
    BY <1>1, <1>2, OutcomeStays
  <2>2. \A r \in RowsOf(b) : r \notin file
    <3>1. \A r \in file : r[1] < batch
      BY <1>1 DEF BatchInv, BatchesApart, Earlier
    <3>2. QED
      BY <2>1, <3>1, RowsOfBatch
  <2>3. RowsOf(b)' \cap file' = {}
    BY <1>1, <2>2 DEF RowsOf
  <2>4. QED
    BY <1>1, <2>1, <2>2, <2>3, StillWaiting DEF OutcomeOf
<1>3. QED
  BY <1>1, <1>2, SettlesOnly

\* A refused row is printed while its batch waits.
LEMMA RowRefuses ==
    ASSUME BatchInv, StepRow
    PROVE  [Promise!PromiseNext]_<<[b \in 1 .. NumBatches |-> OutcomeOf(b)], {r[1] : r \in reported}, ~Alive>>
<1>1. /\ next = "step" /\ Alive /\ Alive' /\ UNCHANGED <<file, dropped>>
      /\ reported' = reported \/ reported' = reported \cup {<<batch, bound>>}
  BY DEF StepRow, Alive
<1>2. \A b \in 1 .. NumBatches : OutcomeOf(b)' = OutcomeOf(b)
  BY <1>1, OutcomeStays
<1>3. [b \in 1 .. NumBatches |-> OutcomeOf(b)]' = [b \in 1 .. NumBatches |-> OutcomeOf(b)]
  BY <1>2
<1>4. (~Alive)' = ~Alive
  BY <1>1
<1>5. CASE reported' = reported
  BY <1>3, <1>4, <1>5
<1>6. CASE reported' = reported \cup {<<batch, bound>>}
  <2>1. batch \in 1 .. NumBatches /\ batch \notin dropped
    BY <1>1, BatchNumbers DEF BatchInv, BatchTypes
  <2>2. \A r \in RowsOf(batch) : r \notin file
    <3>1. \A r \in file : r[1] < batch
      BY <1>1 DEF BatchInv, BatchesApart, Earlier
    <3>2. QED
      BY <2>1, <3>1, RowsOfBatch
  <2>3. OutcomeOf(batch) = "waiting"
    BY <1>1, <2>1, <2>2, StillWaiting
  <2>4. {r[1] : r \in reported'} = {r[1] : r \in reported} \cup {batch}
    <3>1. PICK e : e = <<batch, bound>> /\ e[1] = batch
      <4>1. <<batch, bound>>[1] = batch
        OBVIOUS
      <4>2. QED
        BY <4>1, Zenon
    <3>2. \A r : r \in reported' <=> r \in reported \/ r = e
      BY <1>6, <3>1
    <3>3. {r[1] : r \in reported'} \subseteq {r[1] : r \in reported} \cup {batch}
      BY <3>1, <3>2
    <3>4. {r[1] : r \in reported} \subseteq {r[1] : r \in reported'}
      BY <3>2
    <3>5. batch \in {r[1] : r \in reported'}
      BY <3>1, <3>2
    <3>6. QED
      BY <3>3, <3>4, <3>5
  <2>5. PICK b \in 1 .. NumBatches : b = batch
    BY <2>1
  <2>6. Promise!PromiseNext
    <3>1. Promise!Refuse(b)
      BY <1>1, <1>3, <1>4, <2>3, <2>4, <2>5 DEF Promise!Refuse
    <3>2. QED
      BY <3>1 DEF Promise!PromiseNext
  <2>7. QED
    BY <2>6
<1>7. QED
  BY <1>1, <1>5, <1>6

LEMMA EndSettles ==
    ASSUME BatchInv, close \/ Die
    PROVE  Promise!PromiseNext
<1>1. Alive /\ ~Alive' /\ UNCHANGED <<reported, dropped>>
  BY DEF close, Die, Alive
<1>2. CASE UNCHANGED file
  <2>1. ASSUME NEW b \in 1 .. NumBatches, OutcomeOf(b)' # OutcomeOf(b)
        PROVE  OutcomeOf(b) = "waiting" /\ OutcomeOf(b)' # "torn"
    <3>1. RowsOf(b)' = RowsOf(b)
      BY DEF RowsOf
    <3>2. QED
      BY <1>1, <1>2, <2>1, <3>1 DEF OutcomeOf
  <2>2. Promise!Settle
    BY <1>1, <2>1, SettlesOnly
  <2>3. QED
    BY <2>2 DEF Promise!PromiseNext
<1>3. CASE ~UNCHANGED file
  <2>1. [b \in 1 .. NumBatches |-> OutcomeOf(b)]' \in [1 .. NumBatches -> {"waiting", "kept", "lost", "torn"}]
    BY OutcomesAre DEF Outcomes
  <2>2. Promise!Crash
    BY <1>1, <2>1 DEF Promise!Crash
  <2>3. QED
    BY <2>2 DEF Promise!PromiseNext
<1>4. QED
  BY <1>2, <1>3

LEMMA PromiseStep ==
    BatchInv /\ [BatchesNext]_batchVars =>
        [Promise!PromiseNext]_<<[b \in 1 .. NumBatches |-> OutcomeOf(b)], {r[1] : r \in reported}, ~Alive>>
<1> SUFFICES ASSUME BatchInv, [BatchesNext]_batchVars
             PROVE  [Promise!PromiseNext]_<<[b \in 1 .. NumBatches |-> OutcomeOf(b)],
                                            {r[1] : r \in reported}, ~Alive>>
  OBVIOUS
<1>1. CASE BeginTransaction \/ BatchesEnded \/ UNCHANGED batchVars
  <2>1. UNCHANGED <<file, dropped, reported>> /\ (Alive' <=> Alive)
    BY <1>1 DEF BeginTransaction, BatchesEnded, batchVars, Alive
  <2>2. \A b \in 1 .. NumBatches : OutcomeOf(b)' = OutcomeOf(b)
    BY <2>1, OutcomeStays
  <2>3. [b \in 1 .. NumBatches |-> OutcomeOf(b)]' = [b \in 1 .. NumBatches |-> OutcomeOf(b)]
    BY <2>2
  <2>4. QED
    BY <2>1, <2>3
<1>2. CASE Prepare \/ CommitTransaction
  BY <1>2, PrepareSettles, CommitSettles DEF Promise!PromiseNext
<1>3. CASE StepRow
  BY <1>3, RowRefuses
<1>4. CASE close \/ Die
  BY <1>4, EndSettles
<1>5. QED
  BY <1>1, <1>2, <1>3, <1>4 DEF BatchesNext

LEMMA PromiseStart == BatchesInit => Promise!PromiseInit
<1> SUFFICES ASSUME BatchesInit PROVE Promise!PromiseInit
  OBVIOUS
<1>1. Alive /\ file = {} /\ dropped = {} /\ reported = {}
  BY DEF BatchesInit, Alive
<1>2. \A b \in 1 .. NumBatches : OutcomeOf(b) = "waiting"
  BY <1>1, StillWaiting
<1>3. [b \in 1 .. NumBatches |-> OutcomeOf(b)] = [b \in 1 .. NumBatches |-> "waiting"]
  BY <1>2
<1>4. QED
  BY <1>1, <1>3 DEF Promise!PromiseInit

\* The wrapper keeps what the storing threads rely on: a batch is in the file whole or
\* not at all, unless a row of it was printed as refused or the process died within
\* COMMIT; the open transaction that a failing prepare or COMMIT leaves tears nothing
\* (indexmapper.h).
THEOREM WrapperKeepsThePromise == BatchesSpec => KeepsThePromise
BY BatchesStart, BatchesGoOn, PromiseStart, PromiseStep, PTL DEF BatchesSpec, KeepsThePromise, Promise!PromiseSpec
-----------------------------------------------------------------------------
(* The shared filter.  Of a key that no two producers looked up at a time and that no late
   store has cleared a bit of, the bits stay set once they are set; so that no producer
   begins to add it after its first row. *)
MixinIds  == (Producers \X Nat) \cup {Garbage}
Origins   == {"new", "memory", "past end", "store", "not found"}
OldOrigins == Origins \ {"new"}
MixinRows == [key : Keys, id : MixinIds, origin : Origins]
FilterTypes ==
    /\ met \in [Producers -> Seq(Keys)] /\ row \in [Producers -> Seq(MixinRows)]
    /\ doing \in [Producers -> {"exists", "load", "store", "record", "count", "find", "get"}]
    /\ hash \in [Producers -> Nat] /\ died \in BOOLEAN
    /\ DOMAIN buffer = Bytes
    /\ \A p \in Producers : Working(p) => hash[p] \in 1 .. Len(BitsOf[key(p)])

HasBit(k, i) == BitsOf[k][i][2] \in buffer[BitsOf[k][i][1]]
AllBits(k)   == \A i \in 1 .. Len(BitsOf[k]) : HasBit(k, i)
IsNewRow(p, n, k) == n \in 1 .. Len(row[p]) /\ row[p][n].origin = "new" /\ row[p][n].key = k
IsNew(k) == \E p \in Producers : \E n \in Nat : IsNewRow(p, n, k)
Adding(p) == Working(p) /\ doing[p] \in {"load", "store", "record"}

OverlapsAreKnown ==
    \A p, q \in Producers : \A k \in Keys : p # q /\ Busy(p, k) /\ Busy(q, k) => k \in overlapped
BitsStay ==
    /\ \A p \in Producers : \A k \in Keys : Adding(p) /\ key(p) = k /\ k \notin unset =>
          \A i \in 1 .. Len(BitsOf[k]) : i < hash[p] \/ doing[p] = "record" => HasBit(k, i)
    /\ \A k \in Keys : IsNew(k) /\ k \notin unset => AllBits(k)
OnlyOneAdds ==
    \A k \in Keys : IsNew(k) /\ k \notin overlapped \cup unset =>
        \A p \in Producers : Adding(p) => key(p) # k
NewRowsAreOne ==
    \A k \in Keys : k \notin overlapped \cup unset =>
        \A p, q \in Producers : \A m, n \in Nat :
            IsNewRow(p, m, k) /\ IsNewRow(q, n, k) => p = q /\ m = n
FilterInv == FilterTypes /\ OverlapsAreKnown /\ BitsStay /\ OnlyOneAdds /\ NewRowsAreOne

(* The pairs of keys and ids.  The map's keys are finitely many, which is said here by
   what the consumer needs of it: each part of them has a least one. *)
IsIdOf(id, k) == \E p \in Producers : \E n \in Nat :
                    id = <<p, n>> /\ n \in 1 .. Len(row[p]) /\ row[p][n].key = k
HaveLeast(S) == \A T \in SUBSET S : T # {} => \E k \in T : \A j \in T : k <= j
PairsInv ==
    /\ \A k \in DOMAIN memory : \E id \in MixinIds : memory[k] = id /\ IsIdOf(id, k)
    /\ \A k \in DOMAIN stored : \E id \in MixinIds : stored[k] = id /\ IsIdOf(id, k)
    /\ storing = <<>> \/ \E k \in Keys, id \in MixinIds : storing = <<k, id>> /\ IsIdOf(id, k)
    /\ DOMAIN memory \subseteq Keys /\ HaveLeast(DOMAIN memory)
    /\ \A p \in Producers : \A n \in 1 .. Len(row[p]) :
          /\ \/ row[p][n].origin = "past end"
             \/ \E k \in Keys, id \in MixinIds :
                   row[p][n].id = id /\ row[p][n].key = k /\ IsIdOf(id, k)
          /\ row[p][n].origin = "new" => row[p][n].key \in Homes

LEMMA FilterConstants ==
    /\ Keys \subseteq Int
    /\ \A k \in Keys :
          /\ Len(BitsOf[k]) \in Nat /\ Len(BitsOf[k]) >= 1
          /\ \A i \in 1 .. Len(BitsOf[k]) : BitsOf[k][i][1] \in Bytes
<1>1. ASSUME NEW k \in Keys
      PROVE  /\ Len(BitsOf[k]) \in Nat /\ Len(BitsOf[k]) >= 1
             /\ \A i \in 1 .. Len(BitsOf[k]) : BitsOf[k][i][1] \in Bytes
  <2>1. BitsOf[k] \in Seq(Bytes \X Nat) /\ BitsOf[k] # <<>>
    BY FilterOK DEF FilterOK
  <2>2. Len(BitsOf[k]) \in Nat /\ Len(BitsOf[k]) # 0
    BY <2>1
  <2>3. \A i \in 1 .. Len(BitsOf[k]) : BitsOf[k][i] \in Bytes \X Nat
    BY <2>1
  <2>4. QED
    BY <2>2, <2>3
<1>2. QED
  BY <1>1, FilterOK DEF FilterOK

LEMMA KeyAtHand ==
    ASSUME FilterTypes, NEW p \in Producers, Working(p)
    PROVE  key(p) \in Keys /\ hash[p] \in 1 .. Len(BitsOf[key(p)])
<1>1. met[p] \in Seq(Keys) /\ row[p] \in Seq(MixinRows)
  BY DEF FilterTypes
<1>2. Len(row[p]) + 1 \in 1 .. Len(met[p])
  BY <1>1 DEF Working
<1>3. QED
  BY <1>1, <1>2 DEF key, FilterTypes

LEMMA NextIn == ASSUME NEW a \in Nat, NEW b \in Nat, a < b PROVE a + 1 \in 1 .. b
OBVIOUS

LEMMA OneLonger == ASSUME NEW l \in Nat, NEW n PROVE n \in 1 .. l + 1 <=> (n \in 1 .. l \/ n = l + 1)
OBVIOUS

LEMMA OneIn == ASSUME NEW b \in Nat, b >= 1 PROVE 1 \in 1 .. b
OBVIOUS

\* A producer whose variables stay.
LEMMA OthersStay ==
    ASSUME NEW q, UNCHANGED <<met, died>>, row'[q] = row[q], doing'[q] = doing[q], hash'[q] = hash[q]
    PROVE  /\ (Working(q)' <=> Working(q)) /\ key(q)' = key(q) /\ (Adding(q)' <=> Adding(q))
           /\ \A k : Busy(q, k)' <=> Busy(q, k)
BY DEF Working, key, Adding, Busy

LEMMA Grown ==
    ASSUME NEW S, NEW s \in Seq(S), NEW e \in S
    PROVE  /\ Append(s, e) \in Seq(S) /\ Len(s) \in Nat
           /\ Len(Append(s, e)) = Len(s) + 1 /\ Append(s, e)[Len(s) + 1] = e
           /\ \A n \in 1 .. Len(s) : Append(s, e)[n] = s[n]
BY AppendProperties, LenProperties, ElementOfSeq

LEMMA OneGrown ==
    ASSUME NEW D, NEW S, NEW r \in [D -> Seq(S)], NEW d \in D, NEW e \in S,
           NEW t, t = [r EXCEPT ![d] = Append(r[d], e)]
    PROVE  /\ t \in [D -> Seq(S)]
           /\ Len(r[d]) \in Nat /\ Len(t[d]) = Len(r[d]) + 1 /\ t[d][Len(r[d]) + 1] = e
           /\ \A n \in 1 .. Len(r[d]) : t[d][n] = r[d][n]
           /\ \A c \in D \ {d} : t[c] = r[c]
<1>1. PICK s \in Seq(S) : s = r[d]
  OBVIOUS
<1>2. /\ Append(s, e) \in Seq(S) /\ Len(s) \in Nat
      /\ Len(Append(s, e)) = Len(s) + 1 /\ Append(s, e)[Len(s) + 1] = e
      /\ \A n \in 1 .. Len(s) : Append(s, e)[n] = s[n]
  BY Grown
<1>3. t \in [D -> Seq(S)] /\ t[d] = Append(s, e) /\ \A c \in D \ {d} : t[c] = r[c]
  BY <1>1, <1>2
<1>4. QED
  BY <1>1, <1>2, <1>3, Zenon

LEMMA RowsGrow ==
    ASSUME row \in [Producers -> Seq(MixinRows)], NEW p \in Producers, NEW e \in MixinRows,
           row' = [row EXCEPT ![p] = Append(row[p], e)]
    PROVE  /\ row' \in [Producers -> Seq(MixinRows)]
           /\ Len(row[p]) \in Nat /\ Len(row'[p]) = Len(row[p]) + 1 /\ row'[p][Len(row[p]) + 1] = e
           /\ \A n \in 1 .. Len(row[p]) : row'[p][n] = row[p][n]
           /\ \A q \in Producers \ {p} : row'[q] = row[q]
<1>1. row' \in [Producers -> Seq(MixinRows)] /\ Len(row[p]) \in Nat
  BY OneGrown
<1>2. Len(row'[p]) = Len(row[p]) + 1 /\ row'[p][Len(row[p]) + 1] = e
  BY OneGrown
<1>3. \A n \in 1 .. Len(row[p]) : row'[p][n] = row[p][n]
  BY OneGrown
<1>4. \A q \in Producers \ {p} : row'[q] = row[q]
  BY OneGrown
<1>5. QED
  BY <1>1, <1>2, <1>3, <1>4

\* Rows are pushed.
LEMMA Pushed ==
    ASSUME FilterTypes, NEW p \in Producers, Working(p), UNCHANGED <<met, died, buffer>>,
           NEW id \in MixinIds, NEW origin \in Origins,
           PushRowOf(p, id, origin)
    PROVE  /\ FilterTypes'
           /\ Len(row[p]) \in Nat /\ Len(row'[p]) = Len(row[p]) + 1
           /\ doing'[p] = "exists" /\ hash'[p] = 1
           /\ row'[p][Len(row[p]) + 1].key = key(p) /\ row'[p][Len(row[p]) + 1].id = id
           /\ row'[p][Len(row[p]) + 1].origin = origin
           /\ \A n \in 1 .. Len(row[p]) : row'[p][n] = row[p][n]
           /\ \A q \in Producers \ {p} : row'[q] = row[q] /\ doing'[q] = doing[q] /\ hash'[q] = hash[q]
<1>1. key(p) \in Keys
  BY KeyAtHand
<1>2. PICK e \in MixinRows : /\ e = [key |-> key(p), id |-> id, origin |-> origin]
                             /\ e.key = key(p) /\ e.id = id /\ e.origin = origin
  <2>1. PICK k \in Keys : k = key(p)
    BY <1>1
  <2>2. [key |-> k, id |-> id, origin |-> origin] \in MixinRows
    BY DEF MixinRows
  <2>3. QED
    BY <2>1, <2>2
<1>3. /\ row' = [row EXCEPT ![p] = Append(row[p], e)]
      /\ doing' = [doing EXCEPT ![p] = "exists"] /\ hash' = [hash EXCEPT ![p] = 1]
  BY <1>2 DEF PushRowOf, Goes
<1>4. row[p] \in Seq(MixinRows) /\ row \in [Producers -> Seq(MixinRows)]
      /\ hash \in [Producers -> Nat] /\ met \in [Producers -> Seq(Keys)]
      /\ doing \in [Producers -> {"exists", "load", "store", "record", "count", "find", "get"}]
  BY DEF FilterTypes
<1>5. /\ row' \in [Producers -> Seq(MixinRows)]
      /\ Len(row[p]) \in Nat /\ Len(row'[p]) = Len(row[p]) + 1 /\ row'[p][Len(row[p]) + 1] = e
      /\ \A n \in 1 .. Len(row[p]) : row'[p][n] = row[p][n]
      /\ \A q \in Producers \ {p} : row'[q] = row[q]
  BY <1>3, <1>4, RowsGrow
<1>6. /\ hash' \in [Producers -> Nat] /\ hash'[p] = 1
      /\ doing' \in [Producers -> {"exists", "load", "store", "record", "count", "find", "get"}]
      /\ doing'[p] = "exists"
      /\ \A q \in Producers \ {p} : row'[q] = row[q] /\ doing'[q] = doing[q] /\ hash'[q] = hash[q]
  BY <1>3, <1>4, <1>5
<1>7. ASSUME NEW q \in Producers, Working(q)'
      PROVE  (hash[q] \in 1 .. Len(BitsOf[key(q)]))'
  <2>1. CASE q = p
    <3>1. met'[p] \in Seq(Keys) /\ row'[p] \in Seq(MixinRows)
      BY <1>4, <1>5
    <3>2. Len(row'[p]) \in Nat /\ Len(met'[p]) \in Nat /\ Len(row'[p]) < Len(met'[p])
      BY <1>7, <2>1, <3>1, LenProperties DEF Working
    <3>3. PICK k \in Keys : k = met'[p][Len(row'[p]) + 1]
      <4>1. Len(row'[p]) + 1 \in 1 .. Len(met'[p])
        BY <3>2, NextIn, Zenon
      <4>2. QED
        BY <3>1, <4>1, ElementOfSeq
    <3>4. hash'[p] \in 1 .. Len(BitsOf[k])
      <4>1. Len(BitsOf[k]) \in Nat /\ Len(BitsOf[k]) >= 1 /\ hash'[p] = 1
        BY <1>6, <3>3, FilterConstants
      <4>2. QED
        BY <4>1, OneIn, Zenon
    <3>5. QED
      BY <2>1, <3>3, <3>4 DEF key
  <2>2. CASE q # p
    <3>1. Working(q) /\ key(q)' = key(q) /\ hash'[q] = hash[q]
      BY <1>6, <1>7, <2>2 DEF Working, key
    <3>2. QED
      BY <3>1 DEF FilterTypes
  <2>3. QED
    BY <2>1, <2>2
<1>8. FilterTypes'
  BY <1>4, <1>5, <1>6, <1>7 DEF FilterTypes
<1>9. QED
  BY <1>2, <1>5, <1>6, <1>8

\* No row is pushed, and p goes on.
LEMMA GoesOn ==
    ASSUME FilterTypes, NEW p \in Producers, UNCHANGED <<met, row, died>>, DOMAIN buffer' = DOMAIN buffer,
           NEW to \in {"exists", "load", "store", "record", "count", "find", "get"},
           NEW h \in Nat, Working(p) => h \in 1 .. Len(BitsOf[key(p)]),
           doing' = [doing EXCEPT ![p] = to], hash' = [hash EXCEPT ![p] = h]
    PROVE  /\ FilterTypes' /\ doing'[p] = to /\ hash'[p] = h
           /\ \A q \in Producers : Working(q)' <=> Working(q)
           /\ \A q \in Producers : key(q)' = key(q)
           /\ \A q \in Producers \ {p} : doing'[q] = doing[q] /\ hash'[q] = hash[q]
<1>1. /\ doing' \in [Producers -> {"exists", "load", "store", "record", "count", "find", "get"}]
      /\ hash' \in [Producers -> Nat] /\ doing'[p] = to /\ hash'[p] = h
      /\ \A q \in Producers \ {p} : doing'[q] = doing[q] /\ hash'[q] = hash[q]
  BY DEF FilterTypes
<1>2. \A q \in Producers : (Working(q)' <=> Working(q)) /\ key(q)' = key(q)
  BY DEF Working, key
<1>3. ASSUME NEW q \in Producers, Working(q)
      PROVE  hash'[q] \in 1 .. Len(BitsOf[key(q)])
  BY <1>1, <1>3 DEF FilterTypes
<1>4. FilterTypes'
  BY <1>1, <1>2, <1>3 DEF FilterTypes
<1>5. QED
  BY <1>1, <1>2, <1>4

\* Overlaps stay known when at most one producer becomes busy, and what it overlaps with
\* is written down.
LEMMA OverlapsStay ==
    ASSUME OverlapsAreKnown, overlapped \subseteq overlapped', NEW p \in Producers,
           \A q \in Producers \ {p} : \A k \in Keys : Busy(q, k)' => Busy(q, k),
           \A k \in Keys : Busy(p, k)' =>
               Busy(p, k) \/ \A q \in Producers \ {p} : Busy(q, k) => k \in overlapped'
    PROVE  OverlapsAreKnown'
<1> SUFFICES ASSUME NEW q \in Producers, NEW r \in Producers, NEW k \in Keys,
                    q # r, Busy(q, k)', Busy(r, k)'
             PROVE  k \in overlapped'
  BY DEF OverlapsAreKnown
<1>1. CASE q # p /\ r # p
  BY <1>1 DEF OverlapsAreKnown
<1>2. CASE q = p
  BY <1>2 DEF OverlapsAreKnown
<1>3. CASE r = p
  BY <1>3 DEF OverlapsAreKnown
<1>4. QED
  BY <1>1, <1>2, <1>3

\* A step that leaves the bits alone and pushes no new key: a producer may begin to add
\* a key of which it found a bit not set.
LEMMA NoBitNoRow ==
    ASSUME BitsStay, OnlyOneAdds, NewRowsAreOne, UNCHANGED <<buffer, unset>>,
           overlapped \subseteq overlapped',
           \A q \in Producers : \A n \in Nat : \A k \in Keys : IsNewRow(q, n, k)' => IsNewRow(q, n, k),
           \A q \in Producers : Adding(q)' =>
               /\ key(q)' = key(q) /\ key(q) \in Keys
               /\ \/ Adding(q) /\ hash'[q] = hash[q] /\ (doing'[q] = "record" => doing[q] = "record")
                  \/ /\ hash'[q] = 1 /\ doing'[q] = "load"
                     /\ \E i \in 1 .. Len(BitsOf[key(q)]) : ~HasBit(key(q), i)
    PROVE  BitsStay' /\ OnlyOneAdds' /\ NewRowsAreOne'
<1>1. \A k \in Keys : IsNew(k)' => IsNew(k)
  BY DEF IsNew
<1>2. \A k, i : HasBit(k, i)' <=> HasBit(k, i)
  BY DEF HasBit
<1>3. ASSUME NEW q \in Producers, NEW k \in Keys, Adding(q)', key(q)' = k, k \notin unset',
             NEW i \in 1 .. Len(BitsOf[k]), i < hash'[q] \/ doing'[q] = "record"
      PROVE  HasBit(k, i)'
  <2>1. ~(hash'[q] = 1 /\ doing'[q] = "load")
    BY <1>3, FilterConstants
  <2>2. Adding(q) /\ hash'[q] = hash[q] /\ (doing'[q] = "record" => doing[q] = "record") /\ key(q) = k
    BY <1>3, <2>1
  <2>3. HasBit(k, i)
    BY <1>3, <2>2 DEF BitsStay
  <2>4. QED
    BY <1>2, <2>3
<1>4. \A k \in Keys : (IsNew(k) /\ k \notin unset)' => AllBits(k)'
  BY <1>1, <1>2 DEF BitsStay, AllBits
<1>5. BitsStay'
  BY <1>3, <1>4 DEF BitsStay
<1>6. ASSUME NEW k \in Keys, IsNew(k)', k \notin overlapped' \cup unset',
             NEW q \in Producers, Adding(q)', key(q)' = k
      PROVE  FALSE
  <2>1. IsNew(k) /\ k \notin overlapped \cup unset /\ key(q) = k
    BY <1>1, <1>6
  <2>2. ~Adding(q)
    BY <2>1 DEF OnlyOneAdds
  <2>3. \E i \in 1 .. Len(BitsOf[k]) : ~HasBit(k, i)
    BY <1>6, <2>1, <2>2
  <2>4. QED
    BY <2>1, <2>3 DEF BitsStay, AllBits
<1>7. OnlyOneAdds'
  BY <1>6 DEF OnlyOneAdds
<1>8. NewRowsAreOne'
  <2>1. ASSUME NEW k \in Keys, k \notin overlapped' \cup unset',
               NEW p \in Producers, NEW q \in Producers, NEW m \in Nat, NEW n \in Nat,
               IsNewRow(p, m, k)', IsNewRow(q, n, k)'
        PROVE  p = q /\ m = n
    <3>1. k \notin overlapped \cup unset /\ IsNewRow(p, m, k) /\ IsNewRow(q, n, k)
      BY <2>1
    <3>2. QED
      BY <3>1 DEF NewRowsAreOne
  <2>2. QED
    BY <2>1 DEF NewRowsAreOne
<1>9. QED
  BY <1>5, <1>7, <1>8

\* What a pushed row changes.
LEMMA AfterPush ==
    ASSUME FilterTypes, NEW p \in Producers, Working(p), UNCHANGED <<met, died, buffer>>,
           NEW id \in MixinIds, NEW origin \in Origins,
           PushRowOf(p, id, origin), NEW h \in Keys, h = key(p), NEW m \in Nat, m = Len(row[p]) + 1
    PROVE  /\ \A q \in Producers : \A n \in Nat : \A k \in Keys :
                 IsNewRow(q, n, k)' /\ ~IsNewRow(q, n, k) => q = p /\ n = m /\ k = h
           /\ ~Adding(p)' /\ \A k : ~Busy(p, k)'
           /\ \A q \in Producers \ {p} :
                 /\ key(q)' = key(q) /\ hash'[q] = hash[q] /\ doing'[q] = doing[q]
                 /\ Adding(q)' <=> Adding(q)
                 /\ \A k : Busy(q, k)' <=> Busy(q, k)
<1>1. /\ FilterTypes'
      /\ Len(row[p]) \in Nat /\ Len(row'[p]) = Len(row[p]) + 1
      /\ doing'[p] = "exists" /\ hash'[p] = 1
      /\ row'[p][Len(row[p]) + 1].key = key(p) /\ row'[p][Len(row[p]) + 1].id = id
      /\ row'[p][Len(row[p]) + 1].origin = origin
      /\ \A n \in 1 .. Len(row[p]) : row'[p][n] = row[p][n]
      /\ \A q \in Producers \ {p} : row'[q] = row[q] /\ doing'[q] = doing[q] /\ hash'[q] = hash[q]
  BY Pushed
<1>2. /\ \A q \in Producers \ {p} :
            /\ key(q)' = key(q) /\ hash'[q] = hash[q] /\ doing'[q] = doing[q]
            /\ Adding(q)' <=> Adding(q)
            /\ \A k : Busy(q, k)' <=> Busy(q, k)
  BY <1>1, OthersStay
<1>3. ~Adding(p)' /\ \A k : ~Busy(p, k)'
  BY <1>1 DEF Adding, Busy
<1>4. PICK l \in Nat : l = Len(row[p])
  BY <1>1
<1>5. /\ Len(row'[p]) = l + 1 /\ m = l + 1
      /\ row'[p][m].key = h /\ row'[p][m].id = id /\ row'[p][m].origin = origin
      /\ \A n \in 1 .. l : row'[p][n] = row[p][n]
  BY <1>1, <1>4
<1>6. \A n \in Nat : n \in 1 .. l + 1 <=> n \in 1 .. l \/ n = l + 1
  OBVIOUS
<1>7. ~(l + 1 \in 1 .. l)
  OBVIOUS
<1>8. ASSUME NEW q \in Producers, NEW n \in Nat, NEW k \in Keys
      PROVE  IsNewRow(q, n, k)' => IsNewRow(q, n, k) \/ (q = p /\ n = m /\ k = h)
  <2>1. CASE q # p
    BY <1>1, <2>1 DEF IsNewRow
  <2>2. CASE q = p /\ n = m
    BY <1>4, <1>5, <1>6, <1>7, <2>2, Zenon DEF IsNewRow
  <2>3. CASE q = p /\ n # m
    BY <1>4, <1>5, <1>6, <2>3, Zenon DEF IsNewRow
  <2>4. QED
    BY <2>1, <2>2, <2>3
<1>9. QED
  BY <1>2, <1>3, <1>8

LEMMA IdsAfterPush ==
    ASSUME FilterTypes, NEW p \in Producers, Working(p), UNCHANGED <<met, died, buffer>>,
           NEW id \in MixinIds, NEW origin \in Origins,
           PushRowOf(p, id, origin), NEW h \in Keys, h = key(p), NEW m \in Nat, m = Len(row[p]) + 1
    PROVE  /\ \A i, k : IsIdOf(i, k) => IsIdOf(i, k)'
           /\ \A i : i = <<p, m>> => IsIdOf(i, h)'
<1>1. /\ FilterTypes'
      /\ Len(row[p]) \in Nat /\ Len(row'[p]) = Len(row[p]) + 1
      /\ doing'[p] = "exists" /\ hash'[p] = 1
      /\ row'[p][Len(row[p]) + 1].key = key(p) /\ row'[p][Len(row[p]) + 1].id = id
      /\ row'[p][Len(row[p]) + 1].origin = origin
      /\ \A n \in 1 .. Len(row[p]) : row'[p][n] = row[p][n]
      /\ \A q \in Producers \ {p} : row'[q] = row[q] /\ doing'[q] = doing[q] /\ hash'[q] = hash[q]
  BY Pushed
<1>4. PICK l \in Nat : l = Len(row[p])
  BY <1>1
<1>5. /\ Len(row'[p]) = l + 1 /\ m = l + 1
      /\ row'[p][m].key = h /\ row'[p][m].id = id /\ row'[p][m].origin = origin
      /\ \A n \in 1 .. l : row'[p][n] = row[p][n]
  BY <1>1, <1>4
<1>6. \A n \in Nat : n \in 1 .. l + 1 <=> n \in 1 .. l \/ n = l + 1
  OBVIOUS
<1>9. ASSUME NEW i, NEW k, IsIdOf(i, k)
      PROVE  IsIdOf(i, k)'
  <2>1. PICK q \in Producers, n \in Nat : i = <<q, n>> /\ n \in 1 .. Len(row[q]) /\ row[q][n].key = k
    BY <1>9 DEF IsIdOf
  <2>2. n \in 1 .. Len(row'[q]) /\ row'[q][n].key = k
    BY <1>1, <1>4, <1>5, <1>6, <2>1, Zenon
  <2>3. QED
    BY <2>1, <2>2 DEF IsIdOf
<1>10. ASSUME NEW i, i = <<p, m>> PROVE IsIdOf(i, h)'
  <2>1. m \in 1 .. Len(row'[p]) /\ row'[p][m].key = h
    BY <1>4, <1>5, <1>6, Zenon
  <2>2. QED
    BY <1>10, <2>1 DEF IsIdOf
<1>11. QED
  BY <1>9, <1>10

LEMMA AfterOldPush ==
    ASSUME FilterTypes, NEW p \in Producers, Working(p), UNCHANGED <<met, died, buffer>>,
           NEW id \in MixinIds, NEW origin \in OldOrigins, PushRowOf(p, id, origin)
    PROVE  \A q \in Producers : \A n \in Nat : \A k \in Keys : IsNewRow(q, n, k)' => IsNewRow(q, n, k)
<1>1. /\ origin \in Origins /\ Len(row[p]) \in Nat /\ Len(row'[p]) = Len(row[p]) + 1
      /\ row'[p][Len(row[p]) + 1].origin = origin
      /\ \A n \in 1 .. Len(row[p]) : row'[p][n] = row[p][n]
      /\ \A q \in Producers \ {p} : row'[q] = row[q]
  <2>1. origin \in Origins
    BY DEF OldOrigins
  <2>2. QED
    BY <2>1, Pushed
<1>2. PICK l \in Nat : l = Len(row[p])
  BY <1>1
<1>3. \A n \in Nat : n \in 1 .. l + 1 <=> n \in 1 .. l \/ n = l + 1
  OBVIOUS
<1>4. row'[p][l + 1].origin # "new"
  BY <1>1, <1>2, Zenon DEF OldOrigins
<1>5. ASSUME NEW q \in Producers, NEW n \in Nat, NEW k \in Keys, IsNewRow(q, n, k)'
      PROVE  IsNewRow(q, n, k)
  <2>1. CASE q # p
    BY <1>1, <1>5, <2>1 DEF IsNewRow
  <2>2. CASE q = p
    BY <1>1, <1>2, <1>3, <1>4, <1>5, <2>2, Zenon DEF IsNewRow
  <2>3. QED
    BY <2>1, <2>2
<1>6. QED
  BY <1>5

LEMMA RecordAdds ==
    ASSUME FilterInv, NEW p \in Producers, Record(p)
    PROVE  OverlapsAreKnown' /\ BitsStay' /\ OnlyOneAdds' /\ NewRowsAreOne'
<1>1. Working(p) /\ doing[p] = "record" /\ FilterTypes /\ UNCHANGED <<met, died, buffer, overlapped, unset>>
  BY DEF Record, From, FilterInv
<1>2. key(p) \in Keys /\ Len(row[p]) + 1 \in Nat /\ currentRingMemberID(p) \in MixinIds
  <2>1. row[p] \in Seq(MixinRows)
    BY <1>1 DEF FilterTypes
  <2>2. Len(row[p]) \in Nat
    BY <2>1, LenProperties
  <2>3. QED
    BY <1>1, <2>2, KeyAtHand DEF currentRingMemberID, MixinIds
<1>3. PICK h \in Keys, m \in Nat, id \in MixinIds :
          h = key(p) /\ m = Len(row[p]) + 1 /\ id = currentRingMemberID(p)
  BY <1>2
<1>4. PICK origin \in Origins : origin = "new"
  BY DEF Origins
<1>5. /\ \A q \in Producers : \A n \in Nat : \A k \in Keys :
            IsNewRow(q, n, k)' /\ ~IsNewRow(q, n, k) => q = p /\ n = m /\ k = h
      /\ ~Adding(p)' /\ \A k : ~Busy(p, k)'
      /\ \A q \in Producers \ {p} :
            /\ key(q)' = key(q) /\ hash'[q] = hash[q] /\ doing'[q] = doing[q]
            /\ Adding(q)' <=> Adding(q)
            /\ \A k : Busy(q, k)' <=> Busy(q, k)
  <2>1. PushRowOf(p, id, origin)
    BY <1>3, <1>4 DEF Record, PushRowOf
  <2>2. QED
    BY <1>1, <1>3, <2>1, AfterPush
<1>6. OverlapsAreKnown'
  BY <1>1, <1>5, OverlapsStay DEF FilterInv
<1>7. \A k \in Keys : \A i : HasBit(k, i)' <=> HasBit(k, i)
  BY <1>1 DEF HasBit
<1>8. \A k \in Keys : IsNew(k)' => IsNew(k) \/ k = h
  BY <1>5 DEF IsNew
<1>9. Adding(p) /\ key(p) = h
  BY <1>1, <1>3 DEF Adding
<1>10. BitsStay'
  <2>1. ASSUME NEW q \in Producers, NEW k \in Keys, Adding(q)', key(q)' = k, k \notin unset',
               NEW i \in 1 .. Len(BitsOf[k]), i < hash'[q] \/ doing'[q] = "record"
        PROVE  HasBit(k, i)'
    <3>1. q # p
      BY <1>5, <2>1
    <3>2. Adding(q) /\ key(q) = k /\ (i < hash[q] \/ doing[q] = "record") /\ k \notin unset
      BY <1>1, <1>5, <2>1, <3>1
    <3>3. HasBit(k, i)
      BY <3>2 DEF FilterInv, BitsStay
    <3>4. QED
      BY <1>7, <3>3
  <2>2. ASSUME NEW k \in Keys, IsNew(k)', k \notin unset'
        PROVE  AllBits(k)'
    <3>1. AllBits(k)
      BY <1>1, <1>8, <1>9, <2>2 DEF FilterInv, BitsStay, AllBits
    <3>2. QED
      BY <1>7, <3>1 DEF AllBits
  <2>3. QED
    BY <2>1, <2>2 DEF BitsStay
<1>11. OnlyOneAdds'
  <2>1. ASSUME NEW k \in Keys, IsNew(k)', k \notin overlapped' \cup unset',
               NEW q \in Producers, Adding(q)', key(q)' = k
        PROVE  FALSE
    <3>1. q # p /\ Adding(q) /\ key(q) = k /\ k \notin overlapped \cup unset
      BY <1>1, <1>5, <2>1
    <3>2. ~IsNew(k)
      BY <3>1 DEF FilterInv, OnlyOneAdds
    <3>3. key(p) = k
      BY <1>8, <1>9, <2>1, <3>2
    <3>4. Busy(p, k) /\ Busy(q, k)
      BY <1>1, <3>1, <3>3 DEF Busy, Adding
    <3>5. QED
      BY <3>1, <3>4 DEF FilterInv, OverlapsAreKnown
  <2>2. QED
    BY <2>1 DEF OnlyOneAdds
<1>12. NewRowsAreOne'
  <2>1. ASSUME NEW k \in Keys, k \notin overlapped' \cup unset', NEW q \in Producers, NEW r \in Producers,
               NEW i \in Nat, NEW n \in Nat, IsNewRow(q, i, k)', IsNewRow(r, n, k)'
        PROVE  q = r /\ i = n
    <3>1. k = h => ~IsNew(k)
      BY <1>1, <1>9, <2>1 DEF FilterInv, OnlyOneAdds
    <3>2. CASE IsNewRow(q, i, k) /\ IsNewRow(r, n, k)
      BY <1>1, <2>1, <3>2 DEF FilterInv, NewRowsAreOne
    <3>3. CASE ~IsNewRow(q, i, k)
      BY <1>5, <2>1, <3>1, <3>3 DEF IsNew
    <3>4. CASE ~IsNewRow(r, n, k)
      BY <1>5, <2>1, <3>1, <3>4 DEF IsNew
    <3>5. QED
      BY <3>2, <3>3, <3>4
  <2>2. QED
    BY <2>1 DEF NewRowsAreOne
<1>13. QED
  BY <1>6, <1>10, <1>11, <1>12

\* A bit that is set stays set, or its key is among those that a late store has hurt.
LEMMA BitKept ==
    ASSUME FilterTypes, NEW b \in Bytes, NEW bits, buffer' = [buffer EXCEPT ![b] = bits],
           unset' = unset \cup Losers(b, buffer[b] \ bits),
           NEW k \in Keys, k \notin unset', NEW i \in 1 .. Len(BitsOf[k]), HasBit(k, i)
    PROVE  HasBit(k, i)'
<1>1. BitsOf[k] \in Seq(Bytes \X Nat) /\ DOMAIN BitsOf[k] = 1 .. Len(BitsOf[k])
  BY FilterOK, LenProperties DEF FilterOK
<1>2. BitsOf[k][i][1] \in Bytes
  BY FilterConstants
<1>3. PICK c \in Bytes : c = BitsOf[k][i][1]
  BY <1>2
<1>8. PICK x : x = BitsOf[k][i][2]
  OBVIOUS
<1>4. x \in buffer[c]
  BY <1>3, <1>8 DEF HasBit
<1>5. CASE c # b
  <2>1. buffer'[c] = buffer[c]
    BY <1>5 DEF FilterTypes
  <2>2. QED
    BY <1>3, <1>4, <1>8, <2>1 DEF HasBit
<1>6. CASE c = b
  <2>1. buffer'[b] = bits
    BY DEF FilterTypes
  <2>2. ~(x \in buffer[b] \ bits)
    BY <1>1, <1>3, <1>6, <1>8 DEF Losers
  <2>3. QED
    BY <1>3, <1>4, <1>6, <1>8, <2>1, <2>2 DEF HasBit
<1>7. QED
  BY <1>5, <1>6

LEMMA StoreAdds ==
    ASSUME FilterInv, NEW p \in Producers, StoreByte(p)
    PROVE  FilterTypes' /\ OverlapsAreKnown' /\ BitsStay' /\ OnlyOneAdds' /\ NewRowsAreOne'
<1>1. Working(p) /\ doing[p] = "store" /\ FilterTypes /\ UNCHANGED <<met, row, died, overlapped>>
  BY DEF StoreByte, From, FilterInv
<1>2. key(p) \in Keys /\ hash[p] \in 1 .. Len(BitsOf[key(p)])
  BY <1>1, KeyAtHand
<1>3. PICK h \in Keys, n \in Nat : h = key(p) /\ n = hash[p] /\ n \in 1 .. Len(BitsOf[h])
  BY <1>1, <1>2 DEF FilterTypes
<1>4. PICK b \in Bytes : b = BitsOf[h][n][1]
  BY <1>3, FilterConstants
<1>19. PICK bits : bits = loaded[p] \cup {BitsOf[h][n][2]}
  OBVIOUS
<1>5. /\ b = bit(p)[1] /\ bits = loaded[p] \cup {bit(p)[2]}
  BY <1>3, <1>4, <1>19 DEF bit
<1>6. /\ buffer' = [buffer EXCEPT ![b] = bits] /\ DOMAIN buffer' = DOMAIN buffer /\ buffer'[b] = bits
      /\ unset' = unset \cup Losers(b, buffer[b] \ bits)
  <2>1. buffer' = [buffer EXCEPT ![b] = bits] /\ unset' = unset \cup Losers(b, buffer[b] \ buffer'[b])
    BY <1>5 DEF StoreByte
  <2>2. buffer'[b] = bits /\ DOMAIN buffer' = DOMAIN buffer
    BY <1>1, <2>1 DEF FilterTypes
  <2>3. QED
    BY <2>1, <2>2
<1>7. /\ \A k \in Keys : \A i \in 1 .. Len(BitsOf[k]) : HasBit(k, i) /\ k \notin unset' => HasBit(k, i)'
      /\ unset \subseteq unset'
  BY <1>1, <1>6, BitKept
<1>8. HasBit(h, n)'
  BY <1>4, <1>6, <1>19 DEF HasBit
<1>9. PICK to \in {"load", "record"}, g \in Nat :
        /\ hash' = [hash EXCEPT ![p] = g] /\ doing' = [doing EXCEPT ![p] = to]
        /\ g \in 1 .. Len(BitsOf[h])
        /\ to = "load" => g = n + 1
        /\ to = "record" => n = Len(BitsOf[h])
  <2>1. CASE n < Len(BitsOf[h])
    <3>1. hash' = [hash EXCEPT ![p] = n + 1] /\ doing' = [doing EXCEPT ![p] = "load"]
      BY <1>3, <2>1 DEF StoreByte, Goes
    <3>2. n + 1 \in Nat /\ n + 1 \in 1 .. Len(BitsOf[h])
      BY <2>1, <1>3, FilterConstants
    <3>3. QED
      BY <3>1, <3>2
  <2>2. CASE ~(n < Len(BitsOf[h]))
    <3>1. hash' = [hash EXCEPT ![p] = 1] /\ doing' = [doing EXCEPT ![p] = "record"]
      BY <1>3, <2>2 DEF StoreByte, Goes
    <3>2. n = Len(BitsOf[h]) /\ 1 \in 1 .. Len(BitsOf[h])
      BY <2>2, <1>3, FilterConstants
    <3>3. QED
      BY <3>1, <3>2
  <2>3. QED
    BY <2>1, <2>2
<1>10. /\ FilterTypes' /\ doing'[p] = to /\ hash'[p] = g
       /\ \A q \in Producers : Working(q)' <=> Working(q)
       /\ \A q \in Producers : key(q)' = key(q)
       /\ \A q \in Producers \ {p} : doing'[q] = doing[q] /\ hash'[q] = hash[q]
  BY <1>1, <1>3, <1>6, <1>9, GoesOn
<1>11. /\ \A q \in Producers : Adding(q)' => Adding(q) /\ key(q)' = key(q)
       /\ \A q \in Producers : \A k \in Keys : Busy(q, k)' => Busy(q, k)
  <2>1. Adding(p) /\ \A k \in Keys : Busy(p, k) <=> key(p) = k
    BY <1>1 DEF Adding, Busy
  <2>2. QED
    BY <1>10, <2>1 DEF Adding, Busy
<1>12. OverlapsAreKnown'
  BY <1>1, <1>11, OverlapsStay DEF FilterInv
<1>13. \A q \in Producers : \A k \in Keys : \A i \in Nat : IsNewRow(q, i, k)' <=> IsNewRow(q, i, k)
  BY <1>1 DEF IsNewRow
<1>14. \A k \in Keys : IsNew(k)' <=> IsNew(k)
  BY <1>13 DEF IsNew
<1>15. BitsStay'
  <2>1. ASSUME NEW q \in Producers, NEW k \in Keys, Adding(q)', key(q)' = k, k \notin unset',
               NEW i \in 1 .. Len(BitsOf[k]), i < hash'[q] \/ doing'[q] = "record"
        PROVE  HasBit(k, i)'
    <3>1. Adding(q) /\ key(q) = k /\ k \notin unset
      BY <1>7, <1>11, <2>1
    <3>2. CASE q # p
      <4>1. HasBit(k, i)
        BY <1>10, <2>1, <3>1, <3>2 DEF FilterInv, BitsStay
      <4>2. QED
        BY <1>7, <2>1, <4>1
    <3>3. CASE q = p /\ i = n
      BY <1>3, <1>8, <3>1, <3>3
    <3>4. CASE q = p /\ i # n
      <4>1. i < hash[p]
        BY <1>3, <1>9, <1>10, <2>1, <3>1, <3>4, FilterConstants
      <4>2. HasBit(k, i)
        BY <3>1, <3>4, <4>1 DEF FilterInv, BitsStay
      <4>3. QED
        BY <1>7, <2>1, <4>2
    <3>5. QED
      BY <3>2, <3>3, <3>4
  <2>2. ASSUME NEW k \in Keys, IsNew(k)', k \notin unset'
        PROVE  AllBits(k)'
    <3>1. AllBits(k)
      BY <1>7, <1>14, <2>2 DEF FilterInv, BitsStay
    <3>2. QED
      BY <1>7, <2>2, <3>1 DEF AllBits
  <2>3. QED
    BY <2>1, <2>2 DEF BitsStay
<1>16. OnlyOneAdds'
  BY <1>1, <1>7, <1>11, <1>14 DEF FilterInv, OnlyOneAdds
<1>17. NewRowsAreOne'
  BY <1>1, <1>7, <1>13 DEF FilterInv, NewRowsAreOne
<1>18. QED
  BY <1>10, <1>12, <1>15, <1>16, <1>17

\* A row under an id that was found.
LEMMA PushOld ==
    ASSUME FilterInv, NEW p \in Producers, Working(p), UNCHANGED <<met, died, buffer, overlapped, unset>>,
           NEW id \in MixinIds, NEW origin \in OldOrigins, PushRowOf(p, id, origin)
    PROVE  FilterInv'
<1>1. FilterTypes /\ origin \in Origins /\ key(p) \in Keys /\ Len(row[p]) + 1 \in Nat
  <2>1. FilterTypes /\ origin \in Origins
    BY DEF FilterInv, OldOrigins
  <2>2. row[p] \in Seq(MixinRows)
    BY <2>1 DEF FilterTypes
  <2>3. Len(row[p]) \in Nat
    BY <2>2, LenProperties
  <2>4. QED
    BY <2>1, <2>3, KeyAtHand
<1>2. PICK h \in Keys, m \in Nat : h = key(p) /\ m = Len(row[p]) + 1
  BY <1>1
<1>3. /\ ~Adding(p)' /\ \A k : ~Busy(p, k)'
      /\ \A q \in Producers \ {p} :
            /\ key(q)' = key(q) /\ hash'[q] = hash[q] /\ doing'[q] = doing[q]
            /\ Adding(q)' <=> Adding(q)
            /\ \A k : Busy(q, k)' <=> Busy(q, k)
  BY <1>1, <1>2, AfterPush
<1>4. \A q \in Producers : \A n \in Nat : \A k \in Keys : IsNewRow(q, n, k)' => IsNewRow(q, n, k)
  BY <1>1, AfterOldPush
<1>5. FilterTypes'
  BY <1>1, Pushed
<1>6. OverlapsAreKnown'
  BY <1>3, OverlapsStay DEF FilterInv
<1>7. ASSUME NEW q \in Producers, Adding(q)'
      PROVE  key(q)' = key(q) /\ key(q) \in Keys /\ Adding(q) /\ hash'[q] = hash[q] /\ doing'[q] = doing[q]
  <2>1. q # p
    BY <1>3, <1>7
  <2>2. Adding(q) /\ key(q)' = key(q) /\ hash'[q] = hash[q] /\ doing'[q] = doing[q]
    BY <1>3, <1>7, <2>1
  <2>3. QED
    BY <1>1, <2>2, KeyAtHand DEF Adding
<1>8. BitsStay' /\ OnlyOneAdds' /\ NewRowsAreOne'
  BY <1>4, <1>7, NoBitNoRow DEF FilterInv
<1>9. QED
  BY <1>5, <1>6, <1>8 DEF FilterInv

\* A producer that goes on without storing a bit or pushing a row.
LEMMA ExistsTests ==
    ASSUME FilterInv, NEW p \in Producers, Exists(p) \/ LoadByte(p) \/ Count(p)
    PROVE  FilterInv'
<1>1. Working(p) /\ FilterTypes /\ UNCHANGED <<met, row, died, buffer, unset>> /\ overlapped \subseteq overlapped'
  BY DEF Exists, LoadByte, Count, From, FilterInv
<1>2. key(p) \in Keys /\ hash[p] \in 1 .. Len(BitsOf[key(p)])
  BY <1>1, KeyAtHand
<1>3. PICK h \in Keys, n \in Nat : h = key(p) /\ n = hash[p] /\ n \in 1 .. Len(BitsOf[h])
  BY <1>1, <1>2 DEF FilterTypes
<1>4. PICK to \in {"exists", "load", "store", "record", "count", "find", "get"}, g \in Nat :
        /\ hash' = [hash EXCEPT ![p] = g] /\ doing' = [doing EXCEPT ![p] = to]
        /\ g \in 1 .. Len(BitsOf[h]) /\ to # "record"
        /\ \/ to = "load" /\ g = 1 /\ ~HasBit(h, n)
           \/ to = "store" /\ g = n /\ doing[p] = "load"
           \/ to \notin {"load", "store"}
  <2>1. CASE Exists(p)
    <3>1. CASE bit(p)[2] \notin buffer[bit(p)[1]]
      <4>1. hash' = [hash EXCEPT ![p] = 1] /\ doing' = [doing EXCEPT ![p] = "load"]
        BY <2>1, <3>1 DEF Exists, Goes
      <4>2. ~HasBit(h, n) /\ 1 \in 1 .. Len(BitsOf[h])
        BY <1>3, <3>1, FilterConstants DEF bit, HasBit
      <4>3. QED
        BY <4>1, <4>2
    <3>2. CASE bit(p)[2] \in buffer[bit(p)[1]] /\ n < Len(BitsOf[h])
      <4>1. hash' = [hash EXCEPT ![p] = n + 1] /\ doing' = [doing EXCEPT ![p] = "exists"]
        BY <1>1, <1>3, <2>1, <3>2 DEF Exists, Goes, From, FilterTypes
      <4>2. n + 1 \in Nat /\ n + 1 \in 1 .. Len(BitsOf[h])
        BY <1>3, <3>2, FilterConstants
      <4>3. QED
        BY <4>1, <4>2
    <3>3. CASE bit(p)[2] \in buffer[bit(p)[1]] /\ ~(n < Len(BitsOf[h]))
      <4>1. hash' = [hash EXCEPT ![p] = 1] /\ doing' = [doing EXCEPT ![p] = "count"]
        BY <1>3, <2>1, <3>3 DEF Exists, Goes
      <4>2. 1 \in 1 .. Len(BitsOf[h])
        BY FilterConstants
      <4>3. QED
        BY <4>1, <4>2
    <3>4. QED
      BY <3>1, <3>2, <3>3
  <2>2. CASE LoadByte(p)
    <3>1. hash' = [hash EXCEPT ![p] = n] /\ doing' = [doing EXCEPT ![p] = "store"] /\ doing[p] = "load"
      BY <1>1, <1>3, <2>2 DEF LoadByte, Goes, From, FilterTypes
    <3>2. QED
      BY <1>3, <3>1
  <2>3. CASE Count(p)
    <3>1. hash' = [hash EXCEPT ![p] = n]
      BY <1>1, <1>3, <2>3 DEF Count, FilterTypes
    <3>2. doing' = [doing EXCEPT ![p] = "find"] \/ doing' = [doing EXCEPT ![p] = "get"]
      BY <2>3 DEF Count, Goes
    <3>3. QED
      BY <1>3, <3>1, <3>2
  <2>4. QED
    BY <2>1, <2>2, <2>3
<1>5. /\ FilterTypes' /\ doing'[p] = to /\ hash'[p] = g
      /\ \A q \in Producers : Working(q)' <=> Working(q)
      /\ \A q \in Producers : key(q)' = key(q)
      /\ \A q \in Producers \ {p} : doing'[q] = doing[q] /\ hash'[q] = hash[q]
  BY <1>1, <1>3, <1>4, GoesOn
<1>6. OverlapsAreKnown'
  <2>1. \A q \in Producers \ {p} : \A k \in Keys : Busy(q, k)' => Busy(q, k)
    BY <1>5 DEF Busy
  <2>2. ASSUME NEW k \in Keys, Busy(p, k)'
        PROVE  Busy(p, k) \/ \A q \in Producers \ {p} : Busy(q, k) => k \in overlapped'
    <3>1. key(p) = k
      BY <1>5, <2>2 DEF Busy
    <3>2. CASE Exists(p)
      BY <3>1, <3>2 DEF Exists
    <3>3. CASE LoadByte(p) \/ Count(p)
      BY <1>1, <3>1, <3>3 DEF LoadByte, Count, From, Busy
    <3>4. QED
      BY <3>2, <3>3
  <2>3. QED
    BY <1>1, <2>1, <2>2, OverlapsStay DEF FilterInv
<1>7. \A q \in Producers : \A i \in Nat : \A k \in Keys : IsNewRow(q, i, k)' => IsNewRow(q, i, k)
  BY <1>1 DEF IsNewRow
<1>8. ASSUME NEW q \in Producers, Adding(q)'
      PROVE  /\ key(q)' = key(q) /\ key(q) \in Keys
             /\ \/ Adding(q) /\ hash'[q] = hash[q] /\ (doing'[q] = "record" => doing[q] = "record")
                \/ /\ hash'[q] = 1 /\ doing'[q] = "load"
                   /\ \E i \in 1 .. Len(BitsOf[key(q)]) : ~HasBit(key(q), i)
  <2>1. Working(q) /\ key(q)' = key(q) /\ key(q) \in Keys
    BY <1>1, <1>5, <1>8, KeyAtHand DEF Adding
  <2>2. CASE q # p
    BY <1>5, <1>8, <2>1, <2>2 DEF Adding
  <2>3. CASE q = p /\ to = "load" /\ g = 1 /\ ~HasBit(h, n)
    BY <1>3, <1>5, <2>1, <2>3
  <2>4. CASE q = p /\ to = "store" /\ g = n /\ doing[p] = "load"
    BY <1>3, <1>5, <2>1, <2>4 DEF Adding
  <2>5. CASE q = p /\ to \notin {"load", "store"}
    BY <1>4, <1>5, <1>8, <2>5 DEF Adding
  <2>6. QED
    BY <1>4, <2>1, <2>2, <2>3, <2>4, <2>5
<1>9. BitsStay' /\ OnlyOneAdds' /\ NewRowsAreOne'
  BY <1>1, <1>7, <1>8, NoBitNoRow DEF FilterInv
<1>10. QED
  BY <1>5, <1>6, <1>9 DEF FilterInv

\* The other steps, a producer that dies among them.
LEMMA OthersStep ==
    ASSUME FilterInv, UNCHANGED <<met, row, doing, hash, buffer, overlapped, unset>>,
           died' \in BOOLEAN, died => died'
    PROVE  FilterInv'
<1>1. \A q \in Producers : (Working(q)' => Working(q)) /\ key(q)' = key(q)
  BY DEF Working, key
<1>2. FilterTypes'
  BY <1>1 DEF FilterInv, FilterTypes
<1>3. OverlapsAreKnown'
  BY <1>1 DEF FilterInv, OverlapsAreKnown, Busy
<1>4. \A q \in Producers : \A i \in Nat : \A k \in Keys : IsNewRow(q, i, k)' => IsNewRow(q, i, k)
  BY DEF IsNewRow
<1>5. ASSUME NEW q \in Producers, Adding(q)'
      PROVE  key(q)' = key(q) /\ key(q) \in Keys /\ Adding(q) /\ hash'[q] = hash[q] /\ doing'[q] = doing[q]
  BY <1>1, <1>5, KeyAtHand DEF Adding, FilterInv
<1>6. BitsStay' /\ OnlyOneAdds' /\ NewRowsAreOne'
  BY <1>4, <1>5, NoBitNoRow DEF FilterInv
<1>7. QED
  BY <1>2, <1>3, <1>6 DEF FilterInv

LEMMA FilterStarts == MembersInit => FilterInv
<1> SUFFICES ASSUME MembersInit PROVE FilterInv
  OBVIOUS
<1>1. \A p \in Producers : row[p] = <<>> /\ Len(row[p]) = 0 /\ doing[p] = "exists" /\ hash[p] = 1
  BY DEF MembersInit
<1>2. /\ \A p \in Producers : ~Adding(p) /\ \A k \in Keys : ~Busy(p, k)
      /\ \A p \in Producers : \A n \in Nat : \A k \in Keys : ~IsNewRow(p, n, k)
  <2>1. \A n \in Nat : n \notin 1 .. 0
    OBVIOUS
  <2>2. QED
    BY <1>1, <2>1 DEF Adding, Busy, IsNewRow
<1>3. met \in [Producers -> Seq(Keys)]
  <2>1. MixinsOf \in [Producers -> Nat]
    BY FilterOK DEF FilterOK
  <2>2. \A n \in Nat : \A s \in [1 .. n -> Keys] : s \in Seq(Keys)
    OBVIOUS
  <2>3. \A p \in Producers : met[p] \in UNION {[1 .. MixinsOf[q] -> Keys] : q \in Producers}
    BY DEF MembersInit
  <2>4. \A p \in Producers : met[p] \in Seq(Keys)
    BY <2>1, <2>2, <2>3
  <2>5. QED
    BY <2>4 DEF MembersInit
<1>4. FilterTypes
  <2>1. /\ row \in [Producers -> Seq(MixinRows)] /\ hash \in [Producers -> Nat] /\ died \in BOOLEAN
        /\ doing \in [Producers -> {"exists", "load", "store", "record", "count", "find", "get"}]
        /\ DOMAIN buffer = Bytes
    <3>1. row \in [Producers -> Seq(MixinRows)]
      BY DEF MembersInit
    <3>2. hash \in [Producers -> Nat] /\ died \in BOOLEAN
      BY DEF MembersInit
    <3>3. doing \in [Producers -> {"exists", "load", "store", "record", "count", "find", "get"}]
      BY DEF MembersInit
    <3>4. DOMAIN buffer = Bytes
      BY DEF MembersInit
    <3>5. QED
      BY <3>1, <3>2, <3>3, <3>4
  <2>2. ASSUME NEW p \in Producers, Working(p)
        PROVE  hash[p] \in 1 .. Len(BitsOf[key(p)])
    <3>1. met[p] \in Seq(Keys) /\ Len(row[p]) = 0
      BY <1>1, <1>3
    <3>2. Len(met[p]) \in Nat /\ 0 < Len(met[p])
      BY <2>2, <3>1, LenProperties DEF Working
    <3>3. key(p) \in Keys
      BY <3>1, <3>2, ElementOfSeq DEF key
    <3>4. PICK n \in Nat : n = Len(BitsOf[key(p)]) /\ n >= 1
      BY <3>3, FilterConstants
    <3>5. 1 \in 1 .. n /\ hash[p] = 1
      BY <1>1, <3>4
    <3>6. QED
      BY <3>4, <3>5
  <2>3. QED
    BY <1>3, <2>1, <2>2 DEF FilterTypes
<1>5. QED
  BY <1>2, <1>4 DEF FilterInv, OverlapsAreKnown, BitsStay, OnlyOneAdds, NewRowsAreOne, IsNew

LEMMA OneMore ==
    ASSUME NEW S, S \subseteq Int, HaveLeast(S), NEW x \in Int
    PROVE  HaveLeast(S \cup {x})
<1> SUFFICES ASSUME NEW T \in SUBSET (S \cup {x}), T # {}
             PROVE  \E k \in T : \A j \in T : k <= j
  BY DEF HaveLeast
<1>1. CASE T \ {x} = {}
  <2>1. \A j \in T : j = x
    BY <1>1
  <2>2. x \in T
    BY <2>1
  <2>3. QED
    BY <2>1, <2>2
<1>2. CASE T \ {x} # {}
  <2>1. PICK k \in T \ {x} : \A j \in T \ {x} : k <= j
    BY <1>2 DEF HaveLeast
  <2>2. CASE x \notin T \/ k <= x
    BY <2>1, <2>2
  <2>3. CASE x \in T /\ ~(k <= x)
    <3>1. k \in Int /\ \A j \in T \ {x} : j \in Int
      BY <2>1
    <3>2. \A j \in T : x <= j
      BY <2>1, <2>3, <3>1
    <3>3. QED
      BY <2>3, <3>2
  <2>4. QED
    BY <2>2, <2>3
<1>3. QED
  BY <1>1, <1>2

LEMMA LeastIsThere ==
    ASSUME NEW S, HaveLeast(S), S # {}
    PROVE  Least(S) \in S
BY DEF HaveLeast, Least

\* A pushed row whose id is an id of its key, or the text behind the end; a new key comes
\* into the map.
LEMMA PushKeepsPairs ==
    ASSUME FilterTypes, PairsInv, NEW p \in Producers, Working(p), UNCHANGED <<met, died, buffer, storing, stored>>,
           NEW id \in MixinIds, NEW origin \in Origins, PushRowOf(p, id, origin),
           NEW h \in Keys, h = key(p), NEW m \in Nat, m = Len(row[p]) + 1,
           origin \in {"past end"} \/ id = <<p, m>> \/ IsIdOf(id, h),
           memory' = memory \/ (memory' = Put(memory, h, id) /\ id = <<p, m>>),
           origin \in {"new"} => h \in DOMAIN memory'
    PROVE  PairsInv'
<1>1. /\ Len(row[p]) \in Nat /\ Len(row'[p]) = Len(row[p]) + 1
      /\ row'[p][Len(row[p]) + 1].key = key(p) /\ row'[p][Len(row[p]) + 1].id = id
      /\ row'[p][Len(row[p]) + 1].origin = origin
      /\ \A n \in 1 .. Len(row[p]) : row'[p][n] = row[p][n]
      /\ \A q \in Producers \ {p} : row'[q] = row[q]
  BY Pushed
<1>2. /\ \A i, k : IsIdOf(i, k) => IsIdOf(i, k)'
      /\ \A i : i = <<p, m>> => IsIdOf(i, h)'
  BY IdsAfterPush, ZenonT(30)
<1>3. /\ DOMAIN memory' = DOMAIN memory \/ DOMAIN memory' = DOMAIN memory \cup {h}
      /\ \A k \in DOMAIN memory' : \/ k \in DOMAIN memory /\ memory'[k] = memory[k]
                                   \/ k = h /\ memory'[k] = id /\ id = <<p, m>>
  BY DEF Put
<1>4. \A k \in DOMAIN memory' : \E i \in MixinIds : memory'[k] = i /\ IsIdOf(i, k)'
  <2>1. ASSUME NEW k \in DOMAIN memory'
        PROVE  \E i \in MixinIds : memory'[k] = i /\ IsIdOf(i, k)'
    <3>1. CASE k \in DOMAIN memory /\ memory'[k] = memory[k]
      <4>1. PICK i \in MixinIds : memory[k] = i /\ IsIdOf(i, k)
        BY <3>1 DEF PairsInv
      <4>2. QED
        BY <1>2, <3>1, <4>1
    <3>2. CASE k = h /\ memory'[k] = id /\ id = <<p, m>>
      BY <1>2, <3>2
    <3>3. QED
      BY <1>3, <2>1, <3>1, <3>2
  <2>2. QED
    BY <2>1
<1>5. /\ \A k \in DOMAIN stored' : \E i \in MixinIds : stored'[k] = i /\ IsIdOf(i, k)'
      /\ storing' = <<>> \/ \E k \in Keys, i \in MixinIds : storing' = <<k, i>> /\ IsIdOf(i, k)'
  BY <1>2 DEF PairsInv
<1>6. DOMAIN memory' \subseteq Keys /\ HaveLeast(DOMAIN memory')
  <2>1. HaveLeast(DOMAIN memory \cup {h})
    BY OneMore, FilterConstants DEF PairsInv
  <2>2. QED
    BY <1>3, <2>1 DEF PairsInv
<1>7. Homes \subseteq Homes' /\ (origin \in {"new"} => h \in Homes')
  BY <1>3 DEF Homes
<1>8. PICK l \in Nat : l = Len(row[p])
  BY <1>1
<1>9. \A n : n \in 1 .. l + 1 <=> (n \in 1 .. l \/ n = l + 1)
  BY OneLonger, Zenon
<1>10. ASSUME NEW q \in Producers, NEW n \in 1 .. Len(row'[q]), row'[q][n] = row[q][n], n \in 1 .. Len(row[q])
       PROVE  /\ \/ row'[q][n].origin = "past end"
                 \/ \E k \in Keys, i \in MixinIds :
                       row'[q][n].id = i /\ row'[q][n].key = k /\ IsIdOf(i, k)'
              /\ row'[q][n].origin = "new" => row'[q][n].key \in Homes'
  <2>1. /\ \/ row[q][n].origin = "past end"
           \/ \E k \in Keys, i \in MixinIds : row[q][n].id = i /\ row[q][n].key = k /\ IsIdOf(i, k)
        /\ row[q][n].origin = "new" => row[q][n].key \in Homes
    BY <1>10 DEF PairsInv
  <2>2. QED
    BY <1>2, <1>7, <1>10, <2>1
<1>11. LET r == row'[p][l + 1] IN
          /\ \/ r.origin = "past end"
             \/ \E k \in Keys, i \in MixinIds : r.id = i /\ r.key = k /\ IsIdOf(i, k)'
          /\ r.origin = "new" => r.key \in Homes'
  <2>1. row'[p][l + 1].key = h /\ row'[p][l + 1].id = id /\ row'[p][l + 1].origin = origin
    BY <1>1, <1>8
  <2>2. origin = "past end" \/ IsIdOf(id, h)'
    BY <1>2
  <2>3. QED
    BY <1>7, <2>1, <2>2
<1>12. \A q \in Producers : \A n \in 1 .. Len(row'[q]) :
          /\ \/ row'[q][n].origin = "past end"
             \/ \E k \in Keys, i \in MixinIds :
                   row'[q][n].id = i /\ row'[q][n].key = k /\ IsIdOf(i, k)'
          /\ row'[q][n].origin = "new" => row'[q][n].key \in Homes'
  <2> SUFFICES ASSUME NEW q \in Producers, NEW n \in 1 .. Len(row'[q])
               PROVE  /\ \/ row'[q][n].origin = "past end"
                         \/ \E k \in Keys, i \in MixinIds :
                               row'[q][n].id = i /\ row'[q][n].key = k /\ IsIdOf(i, k)'
                      /\ row'[q][n].origin = "new" => row'[q][n].key \in Homes'
    OBVIOUS
  <2>1. CASE q = p /\ n = l + 1
    BY <1>11, <2>1
  <2>2. CASE q = p /\ n # l + 1
    <3>1. n \in 1 .. l + 1
      BY <1>1, <1>8, <2>2, Zenon
    <3>2. n \in 1 .. l
      BY <1>9, <2>2, <3>1, Zenon
    <3>3. QED
      BY <1>1, <1>8, <1>10, <2>2, <3>2
  <2>3. CASE q # p
    BY <1>1, <1>10, <2>3
  <2>4. QED
    BY <2>1, <2>2, <2>3
<1>13. QED
  BY <1>4, <1>5, <1>6, <1>12 DEF PairsInv

LEMMA NothingMoves ==
    ASSUME PairsInv, UNCHANGED <<row, memory, storing, stored>>
    PROVE  PairsInv'
<1>1. \A i, k : IsIdOf(i, k)' <=> IsIdOf(i, k)
  BY DEF IsIdOf
<1>2. Homes' = Homes
  BY DEF Homes
<1>3. /\ \A k \in DOMAIN memory' : \E id \in MixinIds : memory'[k] = id /\ IsIdOf(id, k)'
      /\ \A k \in DOMAIN stored' : \E id \in MixinIds : stored'[k] = id /\ IsIdOf(id, k)'
      /\ storing' = <<>> \/ \E k \in Keys, id \in MixinIds : storing' = <<k, id>> /\ IsIdOf(id, k)'
      /\ DOMAIN memory' \subseteq Keys /\ HaveLeast(DOMAIN memory')
  BY <1>1 DEF PairsInv
<1>4. \A p \in Producers : \A n \in 1 .. Len(row'[p]) :
          /\ \/ row'[p][n].origin = "past end"
             \/ \E j \in Keys, i \in MixinIds :
                   row'[p][n].id = i /\ row'[p][n].key = j /\ IsIdOf(i, j)'
          /\ row'[p][n].origin = "new" => row'[p][n].key \in Homes'
  BY <1>1, <1>2 DEF PairsInv
<1>5. QED
  BY <1>3, <1>4 DEF PairsInv

LEMMA RecordKeepsPairs ==
    ASSUME FilterInv, PairsInv, NEW p \in Producers, Record(p)
    PROVE  FilterInv' /\ PairsInv'
<1>1. Working(p) /\ FilterTypes /\ UNCHANGED <<met, died, buffer, storing, stored>>
  BY DEF Record, From, FilterInv
<1>2. key(p) \in Keys /\ Len(row[p]) + 1 \in Nat /\ currentRingMemberID(p) \in MixinIds
  <2>1. row[p] \in Seq(MixinRows)
    BY <1>1 DEF FilterTypes
  <2>2. Len(row[p]) \in Nat
    BY <2>1, LenProperties
  <2>3. QED
    BY <1>1, <2>2, KeyAtHand DEF currentRingMemberID, MixinIds
<1>3. PICK h \in Keys, m \in Nat, id \in MixinIds :
          h = key(p) /\ m = Len(row[p]) + 1 /\ id = <<p, m>>
  BY <1>2 DEF currentRingMemberID
<1>4. PICK origin \in Origins : origin = "new"
  BY DEF Origins
<1>5. PushRowOf(p, id, origin) /\ memory' = Put(memory, h, id)
  BY <1>3, <1>4 DEF Record, PushRowOf, currentRingMemberID
<1>6. h \in DOMAIN memory'
  BY <1>5 DEF Put
<1>7. PairsInv'
  BY <1>1, <1>3, <1>5, <1>6, PushKeepsPairs
<1>8. FilterTypes'
  BY <1>1, <1>5, Pushed
<1>9. QED
  BY <1>7, <1>8, RecordAdds DEF FilterInv

\* The ids in the map and in the store are ids of their keys.
LEMMA FindKeepsPairs ==
    ASSUME FilterInv, PairsInv, NEW p \in Producers, Find(p) \/ Get(p)
    PROVE  FilterInv' /\ PairsInv'
<1>1. Working(p) /\ FilterTypes /\ UNCHANGED <<met, buffer, memory, storing, stored, overlapped, unset>>
  BY DEF Find, Get, From, FilterInv
<1>2. key(p) \in Keys /\ Len(row[p]) + 1 \in Nat /\ currentRingMemberID(p) \in MixinIds
  <2>1. row[p] \in Seq(MixinRows)
    BY <1>1 DEF FilterTypes
  <2>2. Len(row[p]) \in Nat
    BY <2>1, LenProperties
  <2>3. QED
    BY <1>1, <2>2, KeyAtHand DEF currentRingMemberID, MixinIds
<1>3. PICK h \in Keys, m \in Nat : h = key(p) /\ m = Len(row[p]) + 1
  BY <1>2
<1>4. ASSUME NEW id \in MixinIds, NEW origin \in OldOrigins, PushRowOf(p, id, origin), UNCHANGED died,
             origin \in {"past end"} \/ id = <<p, m>> \/ IsIdOf(id, h)
      PROVE  FilterInv' /\ PairsInv'
  <2>1. origin \in Origins /\ origin \notin {"new"}
    BY DEF OldOrigins
  <2>2. PairsInv'
    BY <1>1, <1>3, <1>4, <2>1, PushKeepsPairs
  <2>3. FilterInv'
    BY <1>1, <1>4, PushOld
  <2>4. QED
    BY <2>2, <2>3
<1>5. /\ "memory" \in OldOrigins /\ "past end" \in OldOrigins /\ "store" \in OldOrigins /\ "not found" \in OldOrigins
      /\ Garbage \in MixinIds
  BY DEF OldOrigins, Origins, MixinIds
<1>6. CASE Find(p) /\ key(p) \in DOMAIN memory
  <2>1. PICK id \in MixinIds : memory[h] = id /\ IsIdOf(id, h)
    BY <1>3, <1>6 DEF PairsInv
  <2>2. PICK origin \in OldOrigins : origin = "memory"
    BY <1>5
  <2>3. PushRowOf(p, id, origin) /\ UNCHANGED died
    BY <1>3, <1>6, <2>1, <2>2 DEF Find
  <2>4. QED
    BY <1>4, <2>1, <2>3
<1>7. CASE Find(p) /\ key(p) \notin DOMAIN memory /\ UNCHANGED died
  <2>1. PICK id \in MixinIds, origin \in OldOrigins : id = Garbage /\ origin \in {"past end"}
    BY <1>5
  <2>2. CASE PushRowOf(p, id, origin)
    BY <1>4, <1>7, <2>1, <2>2
  <2>3. CASE died'
    <3>1. FALSE
      BY <1>1, <1>7, <2>3 DEF Working
    <3>2. QED
      BY <3>1
  <2>4. QED
    BY <1>7, <2>1, <2>2, <2>3 DEF Find
<1>8. CASE Find(p) /\ UNCHANGED <<row, doing, hash>> /\ died' = TRUE
  <2>1. FilterInv'
    BY <1>1, <1>8, OthersStep
  <2>2. PairsInv'
    BY <1>1, <1>8, NothingMoves
  <2>3. QED
    BY <2>1, <2>2
<1>9. CASE Get(p) /\ key(p) \in DOMAIN stored
  <2>1. PICK id \in MixinIds : stored[h] = id /\ IsIdOf(id, h)
    BY <1>3, <1>9 DEF PairsInv
  <2>2. PICK origin \in OldOrigins : origin = "store"
    BY <1>5
  <2>3. PushRowOf(p, id, origin) /\ UNCHANGED died
    BY <1>3, <1>9, <2>1, <2>2 DEF Get
  <2>4. QED
    BY <1>4, <2>1, <2>3
<1>10. CASE Get(p) /\ key(p) \notin DOMAIN stored
  <2>1. PICK id \in MixinIds : id = <<p, m>> /\ id = currentRingMemberID(p)
    BY <1>2, <1>3 DEF currentRingMemberID
  <2>2. PICK origin \in OldOrigins : origin = "not found"
    BY <1>5
  <2>3. PushRowOf(p, id, origin) /\ UNCHANGED died
    BY <1>10, <2>1, <2>2 DEF Get
  <2>4. QED
    BY <1>4, <2>1, <2>3
<1>11. Find(p) => \/ key(p) \in DOMAIN memory
                  \/ key(p) \notin DOMAIN memory /\ UNCHANGED died
                  \/ UNCHANGED <<row, doing, hash>> /\ died' = TRUE
  BY DEF Find
<1>12. QED
  BY <1>6, <1>7, <1>8, <1>9, <1>10, <1>11

\* The consumer takes a pair from the map, and puts it into the store.
LEMMA TakeKeepsPairs ==
    ASSUME FilterInv, PairsInv, TakePair
    PROVE  FilterInv' /\ PairsInv'
<1>1. /\ UNCHANGED <<met, row, doing, hash, loaded, buffer, stored, died, overlapped, unset>>
      /\ storing = <<>> /\ DOMAIN memory # {}
  BY DEF TakePair, producerVars
<1>2. FilterInv'
  BY <1>1, OthersStep DEF FilterInv, FilterTypes
<1>3. \A i, k : IsIdOf(i, k)' <=> IsIdOf(i, k)
  BY <1>1 DEF IsIdOf
<1>4. PICK k \in DOMAIN memory : k = Least(DOMAIN memory)
  BY <1>1, LeastIsThere DEF PairsInv
<1>5. PICK id \in MixinIds : memory[k] = id /\ IsIdOf(id, k)
  BY DEF PairsInv
<1>6. storing' = <<k, id>> /\ memory' = [j \in DOMAIN memory \ {k} |-> memory[j]]
  BY <1>4, <1>5 DEF TakePair, Restrict
<1>7. /\ DOMAIN memory' = DOMAIN memory \ {k}
      /\ \A j \in DOMAIN memory' : j \in DOMAIN memory /\ memory'[j] = memory[j]
  BY <1>6
<1>8. HaveLeast(DOMAIN memory')
  BY <1>7 DEF PairsInv, HaveLeast
<1>9. Homes \subseteq Homes'
  <2>1. storing' # <<>> /\ storing'[1] = k
    BY <1>6
  <2>2. QED
    BY <1>1, <1>7, <2>1 DEF Homes
<1>10. /\ \A j \in DOMAIN memory' : \E i \in MixinIds : memory'[j] = i /\ IsIdOf(i, j)'
       /\ \A j \in DOMAIN stored' : \E i \in MixinIds : stored'[j] = i /\ IsIdOf(i, j)'
  BY <1>1, <1>3, <1>7 DEF PairsInv
<1>11. \E j \in Keys, i \in MixinIds : storing' = <<j, i>> /\ IsIdOf(i, j)'
  BY <1>3, <1>5, <1>6 DEF PairsInv
<1>12. \A p \in Producers : \A n \in 1 .. Len(row'[p]) :
          /\ \/ row'[p][n].origin = "past end"
             \/ \E j \in Keys, i \in MixinIds :
                   row'[p][n].id = i /\ row'[p][n].key = j /\ IsIdOf(i, j)'
          /\ row'[p][n].origin = "new" => row'[p][n].key \in Homes'
  <2>1. row' = row
    BY <1>1
  <2>2. \A p \in Producers : \A n \in 1 .. Len(row[p]) :
          /\ \/ row[p][n].origin = "past end"
             \/ \E j \in Keys, i \in MixinIds :
                   row[p][n].id = i /\ row[p][n].key = j /\ IsIdOf(i, j)
          /\ row[p][n].origin = "new" => row[p][n].key \in Homes
    BY DEF PairsInv
  <2>3. QED
    BY <1>3, <1>9, <2>1, <2>2
<1>13. DOMAIN memory' \subseteq Keys
  BY <1>7 DEF PairsInv
<1>14. QED
  BY <1>2, <1>8, <1>10, <1>11, <1>12, <1>13 DEF PairsInv

LEMMA PutKeepsPairs ==
    ASSUME FilterInv, PairsInv, PutPair
    PROVE  FilterInv' /\ PairsInv'
<1>1. /\ UNCHANGED <<met, row, doing, hash, loaded, buffer, memory, died, overlapped, unset>>
      /\ storing # <<>> /\ storing' = <<>>
  BY DEF PutPair, producerVars
<1>2. FilterInv'
  BY <1>1, OthersStep DEF FilterInv, FilterTypes
<1>3. \A i, k : IsIdOf(i, k)' <=> IsIdOf(i, k)
  BY <1>1 DEF IsIdOf
<1>4. PICK k \in Keys, id \in MixinIds : storing = <<k, id>> /\ IsIdOf(id, k)
  BY <1>1 DEF PairsInv
<1>5. stored' = Put(stored, k, id)
  BY <1>4 DEF PutPair
<1>6. /\ DOMAIN stored' = DOMAIN stored \cup {k}
      /\ \A j \in DOMAIN stored' : (j = k /\ stored'[j] = id) \/ (j \in DOMAIN stored /\ stored'[j] = stored[j])
  BY <1>5 DEF Put
<1>7. Homes \subseteq Homes'
  BY <1>1, <1>4, <1>6 DEF Homes
<1>8. \A j \in DOMAIN stored' : \E i \in MixinIds : stored'[j] = i /\ IsIdOf(i, j)'
  BY <1>3, <1>4, <1>6 DEF PairsInv
<1>9. \A j \in DOMAIN memory' : \E i \in MixinIds : memory'[j] = i /\ IsIdOf(i, j)'
  BY <1>1, <1>3 DEF PairsInv
<1>10. \A p \in Producers : \A n \in 1 .. Len(row'[p]) :
          /\ \/ row'[p][n].origin = "past end"
             \/ \E j \in Keys, i \in MixinIds :
                   row'[p][n].id = i /\ row'[p][n].key = j /\ IsIdOf(i, j)'
          /\ row'[p][n].origin = "new" => row'[p][n].key \in Homes'
  <2>1. row' = row
    BY <1>1
  <2>2. \A p \in Producers : \A n \in 1 .. Len(row[p]) :
          /\ \/ row[p][n].origin = "past end"
             \/ \E j \in Keys, i \in MixinIds :
                   row[p][n].id = i /\ row[p][n].key = j /\ IsIdOf(i, j)
          /\ row[p][n].origin = "new" => row[p][n].key \in Homes
    BY DEF PairsInv
  <2>3. QED
    BY <1>3, <1>7, <2>1, <2>2
<1>11. DOMAIN memory' \subseteq Keys /\ HaveLeast(DOMAIN memory')
  BY <1>1 DEF PairsInv
<1>12. QED
  BY <1>1, <1>2, <1>8, <1>9, <1>10, <1>11 DEF PairsInv

LEMMA PairsStart == MembersInit => PairsInv
<1> SUFFICES ASSUME MembersInit PROVE PairsInv
  OBVIOUS
<1>1. /\ DOMAIN memory = {} /\ DOMAIN stored = {} /\ storing = <<>>
      /\ \A p \in Producers : row[p] = <<>>
  BY DEF MembersInit, NoPairs
<1>2. \A p \in Producers : \A n : n \notin 1 .. Len(row[p])
  BY <1>1
<1>3. HaveLeast(DOMAIN memory)
  BY <1>1 DEF HaveLeast
<1>4. QED
  BY <1>1, <1>2, <1>3 DEF PairsInv

LEMMA MembersGoOn ==
    ASSUME FilterInv, PairsInv, [MembersNext]_memberVars
    PROVE  FilterInv' /\ PairsInv'
<1>1. ASSUME NEW p \in Producers, Exists(p) \/ LoadByte(p) \/ Count(p)
      PROVE  FilterInv' /\ PairsInv'
  <2>1. UNCHANGED <<row, memory, storing, stored>>
    BY <1>1 DEF Exists, LoadByte, Count
  <2>2. QED
    BY <1>1, <2>1, ExistsTests, NothingMoves
<1>2. ASSUME NEW p \in Producers, StoreByte(p)
      PROVE  FilterInv' /\ PairsInv'
  <2>1. UNCHANGED <<row, memory, storing, stored>>
    BY <1>2 DEF StoreByte
  <2>2. QED
    BY <1>2, <2>1, StoreAdds, NothingMoves DEF FilterInv
<1>3. CASE MembersEnded \/ UNCHANGED memberVars
  <2>1. UNCHANGED memberVars
    BY <1>3 DEF MembersEnded
  <2>2. FilterInv'
    BY <2>1, OthersStep DEF memberVars, FilterInv, FilterTypes
  <2>3. PairsInv'
    BY <2>1, NothingMoves DEF memberVars
  <2>4. QED
    BY <2>2, <2>3
<1>4. QED
  BY <1>1, <1>2, <1>3, RecordKeepsPairs, FindKeepsPairs, TakeKeepsPairs, PutKeepsPairs
  DEF MembersNext, ProducerStep

\* The bits of a filter that no lock guards, and the pairs that move through the map to
\* the store, are what the invariants say after every step (parser-7thread.h:395-429,
\* bloomFilter.cpp:43).
THEOREM MembersInvariant == MembersSpec => [](FilterInv /\ PairsInv)
BY FilterStarts, PairsStart, MembersGoOn, PTL DEF MembersSpec

\* A key gets a second id through the filter only if two producers looked it up at a time
\* or a late store has cleared one of its bits (parser-7thread.h:402, bloomFilter.cpp:43).
THEOREM SecondIdsAreExplained == MembersSpec => []SecondIdExplained
<1>1. FilterInv => SecondIdExplained
  <2> SUFFICES ASSUME FilterInv, NEW r \in Rows, NEW s \in Rows, r # s, RowAt(r).origin = "new",
                      RowAt(s).origin = "new", RowAt(r).key = RowAt(s).key
               PROVE  RowAt(r).key \in overlapped \cup unset
    BY DEF SecondIdExplained
  <2>11. PICK p \in Producers : \E i \in DOMAIN row[p] : r = <<p, i>>
    BY DEF Rows
  <2>1. PICK m \in DOMAIN row[p] : r = <<p, m>>
    BY <2>11
  <2>12. PICK q \in Producers : \E i \in DOMAIN row[q] : s = <<q, i>>
    BY DEF Rows
  <2>2. PICK n \in DOMAIN row[q] : s = <<q, n>>
    BY <2>12
  <2>3. /\ m \in Nat /\ m \in 1 .. Len(row[p]) /\ row[p][m] \in MixinRows
        /\ n \in Nat /\ n \in 1 .. Len(row[q])
    BY DEF FilterInv, FilterTypes
  <2>4. RowAt(r) = row[p][m] /\ RowAt(s) = row[q][n]
    BY <2>1, <2>2 DEF RowAt
  <2>5. PICK k \in Keys : k = row[p][m].key
    BY <2>3 DEF MixinRows
  <2>6. IsNewRow(p, m, k) /\ IsNewRow(q, n, k)
    BY <2>3, <2>4, <2>5 DEF IsNewRow
  <2>7. k \in overlapped \cup unset
    BY <2>1, <2>2, <2>3, <2>6 DEF FilterInv, NewRowsAreOne
  <2>8. QED
    BY <2>4, <2>5, <2>7
<1>2. QED
  BY <1>1, MembersInvariant, PTL

\* Between the threads no key takes another one's id and none is dropped: the id of a row
\* was made for its key, and a new key is in the map, on its way, or in the store
\* (parser-7thread.h:395-429, 736-746).
THEOREM PairsStayWithTheirKeys == MembersSpec => []PairsKeepTheirKeys
<1>1. FilterInv /\ PairsInv => PairsKeepTheirKeys
  <2> SUFFICES ASSUME FilterInv, PairsInv, NEW r \in Rows
               PROVE  /\ RowAt(r).origin # "past end" =>
                            \E s \in Rows : RowAt(s).key = RowAt(r).key /\ RowAt(r).id = s
                      /\ RowAt(r).origin = "new" => RowAt(r).key \in Homes
    BY DEF PairsKeepTheirKeys, IdsOfTheSameKey, NewKeysHaveAHome
  <2>11. PICK p \in Producers : \E i \in DOMAIN row[p] : r = <<p, i>>
    BY DEF Rows
  <2>1. PICK m \in DOMAIN row[p] : r = <<p, m>>
    BY <2>11
  <2>2. m \in 1 .. Len(row[p]) /\ RowAt(r) = row[p][m]
    BY <2>1 DEF FilterInv, FilterTypes, RowAt
  <2>3. RowAt(r).origin = "new" => RowAt(r).key \in Homes
    BY <2>2 DEF PairsInv
  <2>4. ASSUME RowAt(r).origin # "past end"
        PROVE  \E s \in Rows : RowAt(s).key = RowAt(r).key /\ RowAt(r).id = s
    <3>1. PICK k \in Keys, id \in MixinIds : RowAt(r).id = id /\ RowAt(r).key = k /\ IsIdOf(id, k)
      <4>1. row[p][m].origin # "past end" =>
               \E k \in Keys, id \in MixinIds : row[p][m].id = id /\ row[p][m].key = k /\ IsIdOf(id, k)
        BY <2>2, Zenon DEF PairsInv
      <4>2. QED
        BY <2>2, <2>4, <4>1, Zenon
    <3>2. PICK q \in Producers, n \in Nat : id = <<q, n>> /\ n \in 1 .. Len(row[q]) /\ row[q][n].key = k
      BY <3>1 DEF IsIdOf
    <3>3. n \in DOMAIN row[q]
      BY <3>2 DEF FilterInv, FilterTypes
    <3>4. id \in Rows /\ RowAt(id).key = k
      BY <3>2, <3>3 DEF Rows, RowAt
    <3>5. QED
      BY <3>1, <3>4
  <2>5. QED
    BY <2>3, <2>4
<1>2. QED
  BY <1>1, MembersInvariant, PTL

-----------------------------------------------------------------------------
(* SharedFilter implements IdPromise.                                      *)

\* The pair that the consumer holds has left the map, so that it is stored once.
HeldHasLeft == storing # <<>> => \A k \in DOMAIN memory : storing # <<k, memory[k]>>

\* Row n of producer p gave the pair x.
GivenAt(p, n, x) ==
    /\ n \in 1 .. Len(row[p]) /\ row[p][n].origin = "new"
    /\ x = <<row[p][n].key, row[p][n].id>>

LEMMA PairsByPlace ==
    ASSUME FilterTypes, FilterTypes'
    PROVE  /\ \A x : x \in PairsGiven <=> \E p \in Producers : \E n \in Nat : GivenAt(p, n, x)
           /\ \A x : x \in PairsGiven' <=> \E p \in Producers : \E n \in Nat : GivenAt(p, n, x)'
<1>1. ASSUME NEW r, r \in [Producers -> Seq(MixinRows)], NEW p \in Producers, NEW n
      PROVE  n \in DOMAIN r[p] <=> n \in Nat /\ n \in 1 .. Len(r[p])
  <2>1. PICK s \in Seq(MixinRows) : s = r[p]
    BY <1>1
  <2>2. DOMAIN s = 1 .. Len(s) /\ Len(s) \in Nat
    BY LenProperties
  <2>3. QED
    BY <2>1, <2>2
<1>2. \A p \in Producers : \A n : n \in DOMAIN row[p] <=> n \in Nat /\ n \in 1 .. Len(row[p])
  BY <1>1 DEF FilterTypes
<1>3. \A p \in Producers : \A n : n \in DOMAIN row'[p] <=> n \in Nat /\ n \in 1 .. Len(row'[p])
  BY <1>1 DEF FilterTypes
<1>4. \A x : x \in PairsGiven <=> \E p \in Producers : \E n \in DOMAIN row[p] :
                 row[p][n].origin = "new" /\ x = <<row[p][n].key, row[p][n].id>>
  <2>1. \A x : x \in PairsGiven <=>
           \E r \in Rows : RowAt(r).origin = "new" /\ x = <<RowAt(r).key, RowAt(r).id>>
    BY DEF PairsGiven
  <2>2. \A r : r \in Rows <=> \E p \in Producers : \E n \in DOMAIN row[p] : r = <<p, n>>
    BY DEF Rows
  <2>3. \A p, n : RowAt(<<p, n>>) = row[p][n]
    BY DEF RowAt
  <2>4. ASSUME NEW x, x \in PairsGiven
        PROVE  \E p \in Producers : \E n \in DOMAIN row[p] :
                   row[p][n].origin = "new" /\ x = <<row[p][n].key, row[p][n].id>>
    <3>1. PICK r \in Rows : RowAt(r).origin = "new" /\ x = <<RowAt(r).key, RowAt(r).id>>
      BY <2>1, <2>4
    <3>2. PICK p \in Producers : \E n \in DOMAIN row[p] : r = <<p, n>>
      BY <2>2
    <3>3. PICK n \in DOMAIN row[p] : r = <<p, n>>
      BY <3>2
    <3>4. RowAt(r) = row[p][n]
      BY <2>3, <3>3
    <3>5. QED
      BY <3>1, <3>4
  <2>5. ASSUME NEW p \in Producers, NEW n \in DOMAIN row[p], row[p][n].origin = "new"
        PROVE  <<row[p][n].key, row[p][n].id>> \in PairsGiven
    <3>1. PICK r \in Rows : r = <<p, n>>
      BY <2>2
    <3>2. RowAt(r) = row[p][n]
      BY <2>3, <3>1
    <3>3. QED
      BY <2>1, <2>5, <3>2
  <2>6. QED
    BY <2>4, <2>5
<1>5. \A x : x \in PairsGiven' <=> \E p \in Producers : \E n \in DOMAIN row'[p] :
                 row'[p][n].origin = "new" /\ x = <<row'[p][n].key, row'[p][n].id>>
  <2>1. \A x : x \in PairsGiven' <=>
           \E r \in Rows' : RowAt(r)'.origin = "new" /\ x = <<RowAt(r)'.key, RowAt(r)'.id>>
    BY DEF PairsGiven
  <2>2. \A r : r \in Rows' <=> \E p \in Producers : \E n \in DOMAIN row'[p] : r = <<p, n>>
    BY DEF Rows
  <2>3. \A p, n : RowAt(<<p, n>>)' = row'[p][n]
    BY DEF RowAt
  <2>4. ASSUME NEW x, x \in PairsGiven'
        PROVE  \E p \in Producers : \E n \in DOMAIN row'[p] :
                   row'[p][n].origin = "new" /\ x = <<row'[p][n].key, row'[p][n].id>>
    <3>1. PICK r \in Rows' : RowAt(r)'.origin = "new" /\ x = <<RowAt(r)'.key, RowAt(r)'.id>>
      BY <2>1, <2>4
    <3>2. PICK p \in Producers : \E n \in DOMAIN row'[p] : r = <<p, n>>
      BY <2>2
    <3>3. PICK n \in DOMAIN row'[p] : r = <<p, n>>
      BY <3>2
    <3>4. RowAt(r)' = row'[p][n]
      BY <2>3, <3>3
    <3>5. QED
      BY <3>1, <3>4
  <2>5. ASSUME NEW p \in Producers, NEW n \in DOMAIN row'[p], row'[p][n].origin = "new"
        PROVE  <<row'[p][n].key, row'[p][n].id>> \in PairsGiven'
    <3>1. PICK r \in Rows' : r = <<p, n>>
      BY <2>2
    <3>2. RowAt(r)' = row'[p][n]
      BY <2>3, <3>1
    <3>3. QED
      BY <2>1, <2>5, <3>2
  <2>6. QED
    BY <2>4, <2>5
<1>6. QED
  BY <1>2, <1>3, <1>4, <1>5 DEF GivenAt

LEMMA PairsOnTheWay ==
    /\ \A x : x \in PairsWaiting <=>
          (\E k \in DOMAIN memory : x = <<k, memory[k]>>) \/ (storing # <<>> /\ x = storing)
    /\ \A x : x \in PairsWaiting' <=>
          (\E k \in DOMAIN memory' : x = <<k, memory'[k]>>) \/ (storing' # <<>> /\ x = storing')
BY DEF PairsWaiting

LEMMA PairsRest ==
    /\ row' = row => PairsGiven' = PairsGiven
    /\ UNCHANGED <<memory, storing>> => PairsWaiting' = PairsWaiting
<1>1. row' = row => PairsGiven' = PairsGiven
  BY DEF PairsGiven, Rows, RowAt
<1>2. UNCHANGED <<memory, storing>> => PairsWaiting' = PairsWaiting
  BY DEF PairsWaiting
<1>3. QED
  BY <1>1, <1>2

\* A pushed row gives its pair when it is a new one, and nothing otherwise.
LEMMA PushGives ==
    ASSUME FilterTypes, NEW p \in Producers, Working(p), UNCHANGED <<met, died, buffer>>,
           NEW id \in MixinIds, NEW origin \in Origins, PushRowOf(p, id, origin),
           NEW h \in Keys, h = key(p)
    PROVE  /\ origin = "new" => PairsGiven' = PairsGiven \cup {<<h, id>>}
           /\ origin # "new" => PairsGiven' = PairsGiven
<1>1. /\ FilterTypes'
      /\ Len(row[p]) \in Nat /\ Len(row'[p]) = Len(row[p]) + 1
      /\ row'[p][Len(row[p]) + 1].key = key(p) /\ row'[p][Len(row[p]) + 1].id = id
      /\ row'[p][Len(row[p]) + 1].origin = origin
      /\ \A n \in 1 .. Len(row[p]) : row'[p][n] = row[p][n]
      /\ \A q \in Producers \ {p} : row'[q] = row[q]
  BY Pushed
<1>2. PICK l \in Nat : l = Len(row[p])
  BY <1>1
<1>3. PICK m \in Nat : m = l + 1
  OBVIOUS
<1>4. /\ Len(row'[p]) = m
      /\ row'[p][m].key = h /\ row'[p][m].id = id /\ row'[p][m].origin = origin
      /\ \A n \in 1 .. l : row'[p][n] = row[p][n]
      /\ \A q \in Producers \ {p} : row'[q] = row[q]
  BY <1>1, <1>2, <1>3
<1>5. \A n : n \in 1 .. m <=> (n \in 1 .. l \/ n = m)
  BY <1>3, OneLonger, Zenon
<1>6. ASSUME NEW x, NEW q \in Producers, NEW n \in Nat
      PROVE  GivenAt(q, n, x)' <=>
                 GivenAt(q, n, x) \/ (q = p /\ n = m /\ origin = "new" /\ x = <<h, id>>)
  <2>1. CASE q # p
    BY <1>4, <2>1 DEF GivenAt
  <2>2. CASE q = p /\ n = m
    <3>1. m \notin 1 .. l
      BY <1>3
    <3>2. QED
      BY <1>2, <1>4, <1>5, <2>2, <3>1, Zenon DEF GivenAt
  <2>3. CASE q = p /\ n # m
    BY <1>2, <1>4, <1>5, <2>3, Zenon DEF GivenAt
  <2>4. QED
    BY <2>1, <2>2, <2>3
<1>7. \A x : x \in PairsGiven' <=> x \in PairsGiven \/ (origin = "new" /\ x = <<h, id>>)
  BY <1>1, <1>3, <1>6, PairsByPlace
<1>8. QED
  BY <1>7

\* What was given has the place of its row for its id.
LEMMA GivenIdsArePlaces ==
    ASSUME FilterInv, PairsInv, NEW x \in PairsGiven
    PROVE  \E k \in Keys, id \in MixinIds : x = <<k, id>> /\ IsIdOf(id, k)
<1>1. PICK r \in Rows : RowAt(r).origin = "new" /\ x = <<RowAt(r).key, RowAt(r).id>>
  BY DEF PairsGiven
<1>2. PICK p \in Producers : \E n \in DOMAIN row[p] : r = <<p, n>>
  BY DEF Rows
<1>3. PICK n \in DOMAIN row[p] : r = <<p, n>>
  BY <1>2
<1>4. n \in 1 .. Len(row[p]) /\ RowAt(r) = row[p][n]
  BY <1>3 DEF FilterInv, FilterTypes, RowAt
<1>5. row[p][n].origin # "past end"
  BY <1>1, <1>4
<1>6. \E k \in Keys, id \in MixinIds : row[p][n].id = id /\ row[p][n].key = k /\ IsIdOf(id, k)
  BY <1>4, <1>5, Zenon DEF PairsInv
<1>7. QED
  BY <1>1, <1>4, <1>6

\* The id of the next row is nobody's.
LEMMA NextIdIsFree ==
    ASSUME FilterTypes, NEW p \in Producers, NEW id, IsIdOf(id, key(p)) \/ \E k : IsIdOf(id, k)
    PROVE  id # currentRingMemberID(p)
<1>1. PICK k : IsIdOf(id, k)
  OBVIOUS
<1>2. PICK q \in Producers, n \in Nat : id = <<q, n>> /\ n \in 1 .. Len(row[q])
  BY <1>1 DEF IsIdOf
<1>3. Len(row[p]) \in Nat
  <2>1. row[p] \in Seq(MixinRows)
    BY DEF FilterTypes
  <2>2. QED
    BY <2>1, LenProperties
<1>4. q = p => n # Len(row[p]) + 1
  BY <1>2, <1>3
<1>5. QED
  BY <1>2, <1>4 DEF currentRingMemberID

LEMMA RecordGives ==
    ASSUME FilterInv, PairsInv, HeldHasLeft, NEW p \in Producers, Record(p)
    PROVE  Ids!Give /\ HeldHasLeft'
<1>1. Working(p) /\ FilterTypes /\ UNCHANGED <<met, died, buffer, storing, stored>>
  BY DEF Record, From, FilterInv
<1>2. key(p) \in Keys /\ currentRingMemberID(p) \in MixinIds
  <2>1. row[p] \in Seq(MixinRows)
    BY <1>1 DEF FilterTypes
  <2>2. Len(row[p]) \in Nat
    BY <2>1, LenProperties
  <2>3. QED
    BY <1>1, <2>2, KeyAtHand DEF currentRingMemberID, MixinIds
<1>3. PICK h \in Keys, id \in MixinIds : h = key(p) /\ id = currentRingMemberID(p)
  BY <1>2
<1>4. PICK origin \in Origins : origin = "new"
  BY DEF Origins
<1>5. PushRowOf(p, id, origin) /\ memory' = Put(memory, h, id)
  BY <1>3, <1>4 DEF Record
<1>6. PairsGiven' = PairsGiven \cup {<<h, id>>}
  BY <1>1, <1>3, <1>4, <1>5, PushGives
<1>7. /\ DOMAIN memory' = DOMAIN memory \cup {h} /\ memory'[h] = id
      /\ \A k \in DOMAIN memory : k # h => memory'[k] = memory[k]
  BY <1>5 DEF Put
<1>8. \A other \in PairsGiven : other[2] # id
  <2>1. \A other \in PairsGiven : \E k \in Keys, i \in MixinIds : other = <<k, i>> /\ IsIdOf(i, k)
    BY GivenIdsArePlaces
  <2>2. \A i, k : IsIdOf(i, k) => i # id
    BY <1>1, <1>3, NextIdIsFree
  <2>3. QED
    BY <2>1, <2>2
<1>9. storing # <<>> => storing # <<h, id>>
  <2>1. storing # <<>> => \E k \in Keys, i \in MixinIds : storing = <<k, i>> /\ IsIdOf(i, k)
    BY DEF PairsInv
  <2>2. \A i, k : IsIdOf(i, k) => i # id
    BY <1>1, <1>3, NextIdIsFree
  <2>3. QED
    BY <2>1, <2>2
<1>10. HeldHasLeft'
  BY <1>1, <1>7, <1>9 DEF HeldHasLeft
<1>11. PICK pair \in Keys \X MixinIds : pair = <<h, id>> /\ pair[1] = h /\ pair[2] = id
  <2>1. <<h, id>> \in Keys \X MixinIds /\ <<h, id>>[1] = h /\ <<h, id>>[2] = id
    OBVIOUS
  <2>2. QED
    BY <2>1
<1>12. pair \in PairsWaiting'
  BY <1>7, <1>11, PairsOnTheWay
<1>13. PairsWaiting' \subseteq PairsWaiting \cup {pair}
  <2>1. ASSUME NEW x \in PairsWaiting', x # pair PROVE x \in PairsWaiting
    BY <1>1, <1>7, <1>11, <2>1, PairsOnTheWay
  <2>2. QED
    BY <2>1
<1>14. \A replaced \in PairsWaiting \ PairsWaiting' : replaced[1] = pair[1]
  <2>1. ASSUME NEW x \in PairsWaiting, x \notin PairsWaiting' PROVE x[1] = h
    BY <1>1, <1>7, <2>1, PairsOnTheWay
  <2>2. QED
    BY <1>11, <2>1
<1>15. /\ pair \in PairsGiven' \ PairsGiven /\ PairsGiven' = PairsGiven \cup {pair}
       /\ \A other \in PairsGiven : other[2] # pair[2]
  BY <1>6, <1>8, <1>11
<1>16. Ids!Give
  BY <1>1, <1>12, <1>13, <1>14, <1>15 DEF Ids!Give
<1>17. QED
  BY <1>10, <1>16

promisedIds == <<PairsGiven, PairsWaiting, stored, FALSE>>

LEMMA FindGivesNothing ==
    ASSUME FilterInv, PairsInv, NEW p \in Producers, Find(p) \/ Get(p)
    PROVE  UNCHANGED promisedIds /\ UNCHANGED <<memory, storing>>
<1>1. Working(p) /\ FilterTypes /\ UNCHANGED <<met, buffer, memory, storing, stored>>
  BY DEF Find, Get, From, FilterInv
<1>2. PICK h \in Keys : h = key(p)
  BY <1>1, KeyAtHand
<1>3. ASSUME NEW id \in MixinIds, NEW origin \in Origins, origin # "new", PushRowOf(p, id, origin), UNCHANGED died
      PROVE  PairsGiven' = PairsGiven
  BY <1>1, <1>2, <1>3, PushGives
<1>4. /\ "memory" \in Origins /\ "past end" \in Origins /\ "store" \in Origins /\ "not found" \in Origins
      /\ Garbage \in MixinIds /\ currentRingMemberID(p) \in MixinIds
  <2>1. row[p] \in Seq(MixinRows)
    BY <1>1 DEF FilterTypes
  <2>2. Len(row[p]) \in Nat
    BY <2>1, LenProperties
  <2>3. QED
    BY <2>2 DEF Origins, MixinIds, currentRingMemberID
<1>5. /\ h \in DOMAIN memory => memory[h] \in MixinIds
      /\ h \in DOMAIN stored => stored[h] \in MixinIds
  BY DEF PairsInv
<1>6. \/ row' = row
      \/ \E id \in MixinIds, origin \in Origins : origin # "new" /\ PushRowOf(p, id, origin) /\ UNCHANGED died
  BY <1>2, <1>4, <1>5 DEF Find, Get
<1>7. PairsGiven' = PairsGiven
  BY <1>3, <1>6, PairsRest
<1>8. QED
  BY <1>1, <1>7, PairsRest DEF promisedIds

\* The pair changes its place and goes on waiting.
LEMMA TakePairWaits ==
    ASSUME PairsInv, TakePair
    PROVE  UNCHANGED promisedIds /\ HeldHasLeft'
<1>1. row' = row /\ stored' = stored /\ storing = <<>> /\ DOMAIN memory # {}
  BY DEF TakePair, producerVars
<1>2. PICK k \in DOMAIN memory : k = Least(DOMAIN memory)
  BY <1>1, LeastIsThere DEF PairsInv
<1>3. storing' = <<k, memory[k]>> /\ memory' = [j \in DOMAIN memory \ {k} |-> memory[j]]
  BY <1>2 DEF TakePair, Restrict
<1>4. /\ DOMAIN memory' = DOMAIN memory \ {k} /\ storing' # <<>> /\ storing'[1] = k
      /\ \A j \in DOMAIN memory' : memory'[j] = memory[j]
  BY <1>3
<1>5. \A x : x \in PairsWaiting' <=> x \in PairsWaiting
  BY <1>1, <1>2, <1>3, <1>4, PairsOnTheWay
<1>6. PairsWaiting' = PairsWaiting /\ PairsGiven' = PairsGiven
  BY <1>1, <1>5, PairsRest
<1>7. HeldHasLeft'
  BY <1>4 DEF HeldHasLeft
<1>8. QED
  BY <1>1, <1>6, <1>7 DEF promisedIds

LEMMA PutPairKeeps ==
    ASSUME PairsInv, HeldHasLeft, PutPair
    PROVE  Ids!Keep /\ HeldHasLeft'
<1>1. /\ row' = row /\ memory' = memory /\ storing # <<>> /\ storing' = <<>>
      /\ stored' = Put(stored, storing[1], storing[2])
  BY DEF PutPair, producerVars
<1>2. storing \in PairsWaiting
  BY <1>1, PairsOnTheWay
<1>3. \A x : x \in PairsWaiting' <=> x \in PairsWaiting /\ x # storing
  BY <1>1, PairsOnTheWay DEF HeldHasLeft
<1>4. PairsWaiting' = PairsWaiting \ {storing} /\ PairsGiven' = PairsGiven
  BY <1>1, <1>3, PairsRest
<1>5. HeldHasLeft'
  BY <1>1 DEF HeldHasLeft
<1>6. QED
  BY <1>1, <1>2, <1>4, <1>5 DEF Ids!Keep, Put

LEMMA IdPromiseStep ==
    ASSUME FilterInv, PairsInv, HeldHasLeft, [MembersNext]_memberVars
    PROVE  HeldHasLeft' /\ (Ids!PromiseNext \/ UNCHANGED promisedIds)
<1>1. CASE UNCHANGED <<row, memory, storing, stored>>
  BY <1>1, PairsRest DEF HeldHasLeft, promisedIds
<1>2. ASSUME NEW p \in Producers, Record(p)
      PROVE  HeldHasLeft' /\ (Ids!PromiseNext \/ UNCHANGED promisedIds)
  BY <1>2, RecordGives DEF Ids!PromiseNext
<1>3. ASSUME NEW p \in Producers, Find(p) \/ Get(p)
      PROVE  HeldHasLeft' /\ (Ids!PromiseNext \/ UNCHANGED promisedIds)
  BY <1>3, FindGivesNothing DEF HeldHasLeft
<1>4. ASSUME NEW p \in Producers, Exists(p) \/ LoadByte(p) \/ StoreByte(p) \/ Count(p)
      PROVE  UNCHANGED <<row, memory, storing, stored>>
  BY <1>4 DEF Exists, LoadByte, StoreByte, Count
<1>5. CASE TakePair
  BY <1>5, TakePairWaits
<1>6. CASE PutPair
  BY <1>6, PutPairKeeps DEF Ids!PromiseNext
<1>7. CASE MembersEnded \/ UNCHANGED memberVars
  BY <1>1, <1>7 DEF MembersEnded, memberVars
<1>8. QED
  BY <1>1, <1>2, <1>3, <1>4, <1>5, <1>6, <1>7 DEF MembersNext, ProducerStep

LEMMA IdPromiseStarts == MembersInit => HeldHasLeft /\ Ids!PromiseInit
<1> SUFFICES ASSUME MembersInit PROVE HeldHasLeft /\ Ids!PromiseInit
  OBVIOUS
<1>1. /\ DOMAIN memory = {} /\ DOMAIN stored = {} /\ storing = <<>>
      /\ \A p \in Producers : row[p] = <<>>
  BY DEF MembersInit, NoPairs
<1>2. \A p \in Producers : DOMAIN row[p] = {}
  BY <1>1
<1>3. Rows = {}
  BY <1>2 DEF Rows
<1>4. PairsGiven = {} /\ PairsWaiting = {}
  BY <1>1, <1>3 DEF PairsGiven, PairsWaiting
<1>5. QED
  BY <1>1, <1>4 DEF Ids!PromiseInit, HeldHasLeft

\* Producers that race over a filter without a lock keep the promise that the one parsing
\* thread keeps (parser-7thread.h:424-431, 736-746).
THEOREM ProducersKeepTheirPromise == MembersSpec => ProducersKeepIdPromise
<1>1. FilterInv /\ PairsInv /\ HeldHasLeft /\ [MembersNext]_memberVars
         => HeldHasLeft' /\ [Ids!PromiseNext]_promisedIds
  BY IdPromiseStep
<1>2. QED
  BY <1>1, IdPromiseStarts, MembersInvariant, PTL
  DEF MembersSpec, ProducersKeepIdPromise, Ids!PromiseSpec, promisedIds

-----------------------------------------------------------------------------
(* The rows of TableRows.  A path of places, and its beginnings.           *)

LEMMA AppendedPath ==
    ASSUME NEW a \in Nat, NEW b \in Nat, NEW c \in Nat
    PROVE  Append(<<a, b>>, c) = <<a, b, c>> /\ Len(<<a, b, c>>) = 3
<1>1. <<a, b>> \in Seq(Nat) /\ Len(<<a, b>>) = 2
  OBVIOUS
<1>2. <<a, b, c>> \in Seq(Nat) /\ Len(<<a, b, c>>) = 3
  OBVIOUS
<1>3. \A i \in 1 .. 3 : Append(<<a, b>>, c)[i] = <<a, b, c>>[i]
  BY <1>1, <1>2, AppendProperties
<1>4. Append(<<a, b>>, c) \in Seq(Nat) /\ Len(Append(<<a, b>>, c)) = 3
  BY <1>1, AppendProperties
<1>5. QED
  BY <1>2, <1>3, <1>4, SeqEqual

LEMMA JoinedPath ==
    ASSUME NEW a \in Nat, NEW b \in Nat, NEW c \in Nat, NEW d \in Nat
    PROVE  <<a, b>> \o <<c, d>> = <<a, b, c, d>>
<1>1. /\ <<a, b>> \in Seq(Nat) /\ Len(<<a, b>>) = 2
      /\ <<c, d>> \in Seq(Nat) /\ Len(<<c, d>>) = 2
  OBVIOUS
<1>2. <<a, b, c, d>> \in Seq(Nat) /\ Len(<<a, b, c, d>>) = 4
  OBVIOUS
<1>3. /\ <<a, b>> \o <<c, d>> \in Seq(Nat) /\ Len(<<a, b>> \o <<c, d>>) = 4
      /\ \A i \in 1 .. 4 : (<<a, b>> \o <<c, d>>)[i] = IF i <= 2 THEN <<a, b>>[i] ELSE <<c, d>>[i - 2]
  BY <1>1, ConcatProperties
<1>4. \A i \in 1 .. 4 : (<<a, b>> \o <<c, d>>)[i] = <<a, b, c, d>>[i]
  BY <1>3
<1>5. QED
  BY <1>2, <1>3, <1>4, SeqEqual

LEMMA PathStarts ==
    ASSUME NEW p, NEW q, NEW k \in Nat, p \in Seq(Nat), q \in Seq(Nat), Len(q) = k, k <= Len(p), k >= 1,
           \A i \in 1 .. k : q[i] = p[i]
    PROVE  SubSeq(p, 1, k) = q
<1>1. \A i \in 1 .. k : p[i] \in Nat
  BY ElementOfSeq
<1>2. /\ SubSeq(p, 1, k) \in Seq(Nat) /\ Len(SubSeq(p, 1, k)) = k
      /\ \A i \in 1 .. k : SubSeq(p, 1, k)[i] = p[i]
  BY <1>1, SubSeqProperties
<1>3. QED
  BY <1>2, SeqEqual

LEMMA PathsOfThree ==
    ASSUME NEW a \in Nat, NEW b \in Nat, NEW c \in Nat
    PROVE  BlockOf(<<a, b, c>>) = <<a>> /\ TxOf(<<a, b, c>>) = <<a, b>>
<1>1. BlockOf(<<a, b, c>>) = <<a>>
  <2>1. <<a, b, c>> \in Seq(Nat) /\ <<a>> \in Seq(Nat)
    OBVIOUS
  <2>2. Len(<<a>>) = 1 /\ 1 <= Len(<<a, b, c>>) /\ 1 \in Nat /\ 1 >= 1
    OBVIOUS
  <2>3. \A i \in 1 .. 1 : <<a>>[i] = <<a, b, c>>[i]
    OBVIOUS
  <2>4. SubSeq(<<a, b, c>>, 1, 1) = <<a>>
    BY <2>1, <2>2, <2>3, PathStarts, Zenon
  <2>5. QED
    BY <2>4, Zenon DEF BlockOf
<1>2. TxOf(<<a, b, c>>) = <<a, b>>
  <2>1. <<a, b, c>> \in Seq(Nat) /\ <<a, b>> \in Seq(Nat)
    OBVIOUS
  <2>2. Len(<<a, b>>) = 2 /\ 2 <= Len(<<a, b, c>>) /\ 2 \in Nat /\ 2 >= 1
    OBVIOUS
  <2>3. \A i \in 1 .. 2 : <<a, b>>[i] = <<a, b, c>>[i]
    OBVIOUS
  <2>4. SubSeq(<<a, b, c>>, 1, 2) = <<a, b>>
    BY <2>1, <2>2, <2>3, PathStarts, Zenon
  <2>5. QED
    BY <2>4, Zenon DEF TxOf
<1>3. QED
  BY <1>1, <1>2

LEMMA PathsOfFour ==
    ASSUME NEW a \in Nat, NEW b \in Nat, NEW c \in Nat, NEW d \in Nat
    PROVE  TxOf(<<a, b, c, d>>) = <<a, b>> /\ InputOf(<<a, b, c, d>>) = <<a, b, c>>
<1>1. TxOf(<<a, b, c, d>>) = <<a, b>>
  <2>1. <<a, b, c, d>> \in Seq(Nat) /\ <<a, b>> \in Seq(Nat)
    OBVIOUS
  <2>2. Len(<<a, b>>) = 2 /\ 2 <= Len(<<a, b, c, d>>) /\ 2 \in Nat /\ 2 >= 1
    OBVIOUS
  <2>3. \A i \in 1 .. 2 : <<a, b>>[i] = <<a, b, c, d>>[i]
    OBVIOUS
  <2>4. SubSeq(<<a, b, c, d>>, 1, 2) = <<a, b>>
    BY <2>1, <2>2, <2>3, PathStarts, Zenon
  <2>5. QED
    BY <2>4, Zenon DEF TxOf
<1>2. InputOf(<<a, b, c, d>>) = <<a, b, c>>
  <2>1. <<a, b, c, d>> \in Seq(Nat) /\ <<a, b, c>> \in Seq(Nat)
    OBVIOUS
  <2>2. Len(<<a, b, c>>) = 3 /\ 3 <= Len(<<a, b, c, d>>) /\ 3 \in Nat /\ 3 >= 1
    OBVIOUS
  <2>3. \A i \in 1 .. 3 : <<a, b, c>>[i] = <<a, b, c, d>>[i]
    OBVIOUS
  <2>4. SubSeq(<<a, b, c, d>>, 1, 3) = <<a, b, c>>
    BY <2>1, <2>2, <2>3, PathStarts, Zenon
  <2>5. QED
    BY <2>4, Zenon DEF InputOf
<1>3. QED
  BY <1>1, <1>2

\* A vector, and a vector with one more element.
IsSeq(s) == Len(s) \in Nat /\ s = [i \in 1 .. Len(s) |-> s[i]]
Extends(s, t, e) ==
    /\ IsSeq(t) /\ Len(t) = Len(s) + 1
    /\ \A i \in 1 .. Len(s) : t[i] = s[i]
    /\ t[Len(s) + 1] = e

LEMMA AppendExtends ==
    ASSUME NEW s, IsSeq(s), NEW e
    PROVE  Extends(s, Append(s, e), e)
<1> DEFINE S == {s[i] : i \in 1 .. Len(s)} \cup {e}
<1>1. s \in Seq(S) /\ e \in S
  <2>1. Len(s) \in Nat /\ s \in [1 .. Len(s) -> S]
    BY DEF IsSeq
  <2>2. QED
    BY <2>1, SeqDef
<1>2. /\ Append(s, e) \in Seq(S) /\ Len(Append(s, e)) = Len(s) + 1
      /\ \A i \in 1 .. Len(s) : Append(s, e)[i] = s[i]
      /\ Append(s, e)[Len(s) + 1] = e
  BY <1>1, AppendProperties
<1>3. IsSeq(Append(s, e))
  BY <1>2, LenProperties DEF IsSeq
<1>4. QED
  BY <1>2, <1>3 DEF Extends

\* The vectors: Hs hold pairs of hash and id, Is index rows, the others rows with details.
BlockHs == vectors["blockHashIdVector"]
Blocks  == vectors["outputOfBlock"]
BlockIs == vectors["outputIndexOfBlock"]
TxHs    == vectors["txHashIdVector"]
Txs     == vectors["outputOfTx"]
TxIs    == vectors["outputIndexOfTx"]
OutHs   == vectors["saHashIdVector"]
Outs    == vectors["outputOfStealthAddresses"]
OutIs   == vectors["outputIndexOfStealthAddresses"]
ImageHs == vectors["keyImageHashIdVector"]
Images  == vectors["outputOfKeyImages"]
Rings   == vectors["outputOfRingMembers"]
RingIs  == vectors["outputIndexOfRingMembers"]

VectorsTyped == vectors = [v \in VectorNames |-> vectors[v]] /\ \A v \in VectorNames : IsSeq(vectors[v])

blockRows == <<BlockHs, Blocks, BlockIs>>
txRows    == <<TxHs, Txs, TxIs>>
outRows   == <<OutHs, Outs, OutIs>>
imageRows == <<ImageHs, Images>>
ringRows  == <<Rings, RingIs>>

\* What each action pushes, and the vectors it leaves alone.
LEMMA PushBackPushes ==
    ASSUME VectorsTyped, NEW rows, PushBack(rows)
    PROVE  /\ VectorsTyped'
           /\ \A v \in VectorNames :
                 /\ v \in DOMAIN rows => Extends(vectors[v], vectors'[v], rows[v])
                 /\ v \notin DOMAIN rows => vectors'[v] = vectors[v]
<1>1. \A v \in VectorNames : vectors'[v] = IF v \in DOMAIN rows THEN Append(vectors[v], rows[v]) ELSE vectors[v]
  BY DEF PushBack
<1>2. \A v \in VectorNames : IsSeq(vectors[v])
  BY DEF VectorsTyped
<1>3. \A v \in VectorNames : v \in DOMAIN rows => Extends(vectors[v], vectors'[v], rows[v])
  BY <1>1, <1>2, AppendExtends
<1>4. \A v \in VectorNames : IsSeq(vectors'[v])
  BY <1>1, <1>2, <1>3 DEF Extends
<1>5. vectors' = [v \in VectorNames |-> vectors'[v]]
  BY <1>1 DEF PushBack
<1>6. QED
  BY <1>1, <1>3, <1>4, <1>5 DEF VectorsTyped

LEMMA BlockRowsPush ==
    ASSUME VectorsTyped, BlockRows
    PROVE  /\ VectorsTyped'
           /\ Extends(BlockHs, BlockHs', <<<<place.block + 1>>, last.block>>)
           /\ Extends(Blocks, Blocks', [lastBlockId |-> last.block, txCount |-> shape'.txs,
                                         of |-> <<place.block + 1>>])
           /\ Extends(BlockIs, BlockIs', <<last.block>>)
           /\ UNCHANGED <<txRows, outRows, imageRows, ringRows>>
<1> DEFINE rows == [blockHashIdVector  |-> <<<<place.block + 1>>, last.block>>,
                 outputOfBlock      |-> [lastBlockId |-> last.block, txCount |-> shape'.txs,
                                         of |-> <<place.block + 1>>],
                 outputIndexOfBlock |-> <<last.block>>]
<1>1. PushBack(rows)
  BY DEF BlockRows
<1> HIDE DEF rows
<1>2. /\ VectorsTyped'
      /\ \A v \in VectorNames :
                 /\ v \in DOMAIN rows => Extends(vectors[v], vectors'[v], rows[v])
                 /\ v \notin DOMAIN rows => vectors'[v] = vectors[v]
  BY <1>1, PushBackPushes
<1>3. /\ DOMAIN rows = {"blockHashIdVector", "outputOfBlock", "outputIndexOfBlock"}
      /\ rows.blockHashIdVector = <<<<place.block + 1>>, last.block>>
      /\ rows.outputOfBlock = [lastBlockId |-> last.block, txCount |-> shape'.txs,
                                         of |-> <<place.block + 1>>]
      /\ rows.outputIndexOfBlock = <<last.block>>
  BY DEF rows
<1>4. QED
  BY <1>2, <1>3 DEF VectorNames, BlockHs, Blocks, BlockIs, txRows, outRows, imageRows, ringRows,
     TxHs, Txs, TxIs, OutHs, Outs, OutIs, ImageHs, Images, Rings, RingIs

LEMMA TxHashPush ==
    ASSUME VectorsTyped, TxHash
    PROVE  /\ VectorsTyped'
           /\ Extends(TxHs, TxHs', <<<<place.block, place.tx + 1>>, last.transaction>>)
           /\ UNCHANGED <<Txs, TxIs, blockRows, outRows, imageRows, ringRows>>
<1> DEFINE rows == [txHashIdVector |-> <<<<place.block, place.tx + 1>>, last.transaction>>]
<1>1. PushBack(rows)
  BY DEF TxHash
<1> HIDE DEF rows
<1>2. /\ VectorsTyped'
      /\ \A v \in VectorNames :
                 /\ v \in DOMAIN rows => Extends(vectors[v], vectors'[v], rows[v])
                 /\ v \notin DOMAIN rows => vectors'[v] = vectors[v]
  BY <1>1, PushBackPushes
<1>3. /\ DOMAIN rows = {"txHashIdVector"}
      /\ rows.txHashIdVector = <<<<place.block, place.tx + 1>>, last.transaction>>
  BY DEF rows
<1>4. QED
  BY <1>2, <1>3 DEF VectorNames, BlockHs, Blocks, BlockIs, blockRows, outRows, imageRows, ringRows,
     TxHs, Txs, TxIs, OutHs, Outs, OutIs, ImageHs, Images, Rings, RingIs

LEMMA OutputRowsPush ==
    ASSUME VectorsTyped, NEW k, OutputRows(k)
    PROVE  /\ VectorsTyped'
           /\ Extends(OutHs, OutHs', <<k, last.stealthAddress>>)
           /\ Extends(Outs, Outs', [lastSAId |-> last.output, out_pub_key |-> k,
                                      of |-> Append(ThisTx, place.output + 1)])
           /\ Extends(OutIs, OutIs', <<last.transaction, last.stealthAddress, last.output, last.block>>)
           /\ UNCHANGED <<blockRows, txRows, imageRows, ringRows>>
<1> DEFINE rows == [saHashIdVector |-> <<k, last.stealthAddress>>,
                 outputOfStealthAddresses |-> [lastSAId |-> last.output, out_pub_key |-> k,
                                      of |-> Append(ThisTx, place.output + 1)],
                 outputIndexOfStealthAddresses |-> <<last.transaction, last.stealthAddress, last.output, last.block>>]
<1>1. PushBack(rows)
  BY DEF OutputRows
<1> HIDE DEF rows
<1>2. /\ VectorsTyped'
      /\ \A v \in VectorNames :
            /\ v \in DOMAIN rows => Extends(vectors[v], vectors'[v], rows[v])
            /\ v \notin DOMAIN rows => vectors'[v] = vectors[v]
  BY <1>1, PushBackPushes
<1>3. /\ DOMAIN rows = {"saHashIdVector", "outputOfStealthAddresses", "outputIndexOfStealthAddresses"}
      /\ rows.saHashIdVector = <<k, last.stealthAddress>>
      /\ rows.outputOfStealthAddresses = [lastSAId |-> last.output, out_pub_key |-> k,
                                      of |-> Append(ThisTx, place.output + 1)]
      /\ rows.outputIndexOfStealthAddresses = <<last.transaction, last.stealthAddress, last.output, last.block>>
  BY DEF rows
<1>4. QED
  BY <1>2, <1>3 DEF VectorNames, BlockHs, Blocks, BlockIs, TxHs, Txs, TxIs, OutHs, Outs, OutIs,
     ImageHs, Images, Rings, RingIs, blockRows, txRows, outRows, imageRows, ringRows

LEMMA KeyImageRowsPush ==
    ASSUME VectorsTyped, KeyImageRows
    PROVE  /\ VectorsTyped'
           /\ Extends(ImageHs, ImageHs', <<Append(ThisTx, place.input + 1), last.keyImage>>)
           /\ Extends(Images, Images', <<last.keyImage, Append(ThisTx, place.input + 1), last.block, last.transaction,
                                   Len(Append(ThisTx, place.input + 1)), place.input,
                                   shape.rings[place.input + 1]>>)
           /\ UNCHANGED <<blockRows, txRows, outRows, ringRows>>
<1> DEFINE rows == [keyImageHashIdVector |-> <<Append(ThisTx, place.input + 1), last.keyImage>>,
                 outputOfKeyImages |-> <<last.keyImage, Append(ThisTx, place.input + 1), last.block, last.transaction,
                                   Len(Append(ThisTx, place.input + 1)), place.input,
                                   shape.rings[place.input + 1]>>]
<1>1. PushBack(rows)
  BY DEF KeyImageRows
<1> HIDE DEF rows
<1>2. /\ VectorsTyped'
      /\ \A v \in VectorNames :
            /\ v \in DOMAIN rows => Extends(vectors[v], vectors'[v], rows[v])
            /\ v \notin DOMAIN rows => vectors'[v] = vectors[v]
  BY <1>1, PushBackPushes
<1>3. /\ DOMAIN rows = {"keyImageHashIdVector", "outputOfKeyImages"}
      /\ rows.keyImageHashIdVector = <<Append(ThisTx, place.input + 1), last.keyImage>>
      /\ rows.outputOfKeyImages = <<last.keyImage, Append(ThisTx, place.input + 1), last.block, last.transaction,
                                   Len(Append(ThisTx, place.input + 1)), place.input,
                                   shape.rings[place.input + 1]>>
  BY DEF rows
<1>4. QED
  BY <1>2, <1>3 DEF VectorNames, BlockHs, Blocks, BlockIs, TxHs, Txs, TxIs, OutHs, Outs, OutIs,
     ImageHs, Images, Rings, RingIs, blockRows, txRows, outRows, imageRows, ringRows

IdOfMember(k, missed) == IF k \in DOMAIN ringIds /\ ~missed THEN ringIds[k] ELSE last.ringMember

LEMMA RingMemberRowsPush ==
    ASSUME VectorsTyped, NEW k, NEW missed, RingMemberRows(k, missed)
    PROVE  /\ VectorsTyped'
           /\ Extends(Rings, Rings', [lastRingId |-> last.input, mix_pub_key |-> k, missed |-> missed,
                                   of |-> ThisTx \o <<place.input, place.mixin + 1>>])
           /\ Extends(RingIs, RingIs', <<last.input, last.transaction, last.keyImage,
                                    IdOfMember(k, missed), last.block>>)
           /\ UNCHANGED <<blockRows, txRows, outRows, imageRows>>
<1> DEFINE rows == [outputOfRingMembers |-> [lastRingId |-> last.input, mix_pub_key |-> k, missed |-> missed,
                                   of |-> ThisTx \o <<place.input, place.mixin + 1>>],
                 outputIndexOfRingMembers |-> <<last.input, last.transaction, last.keyImage,
                                    IdOfMember(k, missed), last.block>>]
<1>1. PushBack(rows)
  BY DEF RingMemberRows, IdOfMember
<1> HIDE DEF rows
<1>2. /\ VectorsTyped'
      /\ \A v \in VectorNames :
            /\ v \in DOMAIN rows => Extends(vectors[v], vectors'[v], rows[v])
            /\ v \notin DOMAIN rows => vectors'[v] = vectors[v]
  BY <1>1, PushBackPushes
<1>3. /\ DOMAIN rows = {"outputOfRingMembers", "outputIndexOfRingMembers"}
      /\ rows.outputOfRingMembers = [lastRingId |-> last.input, mix_pub_key |-> k, missed |-> missed,
                                   of |-> ThisTx \o <<place.input, place.mixin + 1>>]
      /\ rows.outputIndexOfRingMembers = <<last.input, last.transaction, last.keyImage,
                                    IdOfMember(k, missed), last.block>>
  BY DEF rows
<1>4. QED
  BY <1>2, <1>3 DEF VectorNames, BlockHs, Blocks, BlockIs, TxHs, Txs, TxIs, OutHs, Outs, OutIs,
     ImageHs, Images, Rings, RingIs, blockRows, txRows, outRows, imageRows, ringRows

LEMMA TxRowsPush ==
    ASSUME VectorsTyped, TxRows
    PROVE  /\ VectorsTyped'
           /\ Extends(Txs, Txs', [lastTxId |-> last.transaction, inputs_no |-> Len(shape.rings),
                               outputs_no |-> shape.outputs, of |-> ThisTx])
           /\ Extends(TxIs, TxIs', <<last.transaction, last.block, last.transaction>>)
           /\ UNCHANGED <<TxHs, blockRows, outRows, imageRows, ringRows>>
<1> DEFINE rows == [outputOfTx |-> [lastTxId |-> last.transaction, inputs_no |-> Len(shape.rings),
                               outputs_no |-> shape.outputs, of |-> ThisTx],
                 outputIndexOfTx |-> <<last.transaction, last.block, last.transaction>>]
<1>1. PushBack(rows)
  BY DEF TxRows
<1> HIDE DEF rows
<1>2. /\ VectorsTyped'
      /\ \A v \in VectorNames :
            /\ v \in DOMAIN rows => Extends(vectors[v], vectors'[v], rows[v])
            /\ v \notin DOMAIN rows => vectors'[v] = vectors[v]
  BY <1>1, PushBackPushes
<1>3. /\ DOMAIN rows = {"outputOfTx", "outputIndexOfTx"}
      /\ rows.outputOfTx = [lastTxId |-> last.transaction, inputs_no |-> Len(shape.rings),
                               outputs_no |-> shape.outputs, of |-> ThisTx]
      /\ rows.outputIndexOfTx = <<last.transaction, last.block, last.transaction>>
  BY DEF rows
<1>4. QED
  BY <1>2, <1>3 DEF VectorNames, BlockHs, Blocks, BlockIs, TxHs, Txs, TxIs, OutHs, Outs, OutIs,
     ImageHs, Images, Rings, RingIs, blockRows, txRows, outRows, imageRows, ringRows

-----------------------------------------------------------------------------
(* Rows of a vector are as many as the counter says, and each has its own place in the
   chain. *)
InTx == loop \in {"outputs", "mixins"}
LastIds == [block : Nat, transaction : Nat, stealthAddress : Nat, output : Nat, keyImage : Nat,
            input : Nat, ringMember : Nat]
Places  == [block : Nat, tx : Nat, output : Nat, input : Nat, mixin : Nat]
Shapes  == [txs : Nat, outputs : Nat, rings : Seq(Nat)]
RowTypes ==
    /\ loop \in {"blocks", "txs", "outputs", "mixins"}
    /\ last \in LastIds /\ place \in Places /\ shape \in Shapes
    /\ VectorsTyped

BlocksCounted ==
    /\ Len(BlockHs) = place.block /\ Len(Blocks) = place.block /\ Len(BlockIs) = place.block
    /\ last.block = IF loop = "blocks" THEN place.block + 1 ELSE place.block
    /\ loop # "blocks" => place.block >= 1
TxsCounted ==
    /\ last.transaction >= 1
    /\ Len(Txs) = last.transaction - 1 /\ Len(TxIs) = last.transaction - 1
    /\ Len(TxHs) = IF InTx THEN last.transaction ELSE last.transaction - 1
OutsCounted ==
    /\ last.output >= 1 /\ last.stealthAddress = last.output
    /\ Len(OutHs) = last.output - 1 /\ Len(Outs) = last.output - 1 /\ Len(OutIs) = last.output - 1
ImagesCounted ==
    /\ last.keyImage >= 1 /\ Len(ImageHs) = Len(Images)
    /\ Len(Images) = IF loop = "mixins" THEN last.keyImage ELSE last.keyImage - 1
RingsCounted ==
    /\ last.input >= 1 /\ Len(Rings) = last.input - 1 /\ Len(RingIs) = last.input - 1

TxAt(n)    == TxHs[n][1]
OutTx(n)   == OutIs[n][1]
ImageTx(n) == Images[n][4]
ImageAt(n) == Images[n][2]
ImageOf(n) == RingIs[n][3]

BlockRowsRight ==
    \A n \in 1 .. Len(Blocks) :
        /\ BlockHs[n] = <<<<n>>, n>> /\ BlockIs[n] = <<n>>
        /\ Blocks[n].lastBlockId = n /\ Blocks[n].of = <<n>>
TxHashesRight ==
    /\ \A n \in 1 .. Len(TxHs) :
          /\ TxHs[n] = <<TxAt(n), n>> /\ TxAt(n) \in Nat \X Nat
          /\ TxAt(n)[1] \in 1 .. place.block
          /\ TxAt(n)[1] = place.block => TxAt(n)[2] <= place.tx
    /\ \A m, n \in 1 .. Len(TxHs) : TxAt(m) = TxAt(n) => m = n
    /\ InTx => TxAt(last.transaction) = ThisTx
TxRowsRight ==
    \A n \in 1 .. Len(Txs) :
        /\ Txs[n].lastTxId = n /\ Txs[n].of = TxAt(n)
        /\ TxIs[n] = <<n, TxAt(n)[1], n>>
OutRowsRight ==
    \A n \in 1 .. Len(Outs) :
        /\ OutTx(n) \in 1 .. Len(TxHs)
        /\ OutIs[n] = <<OutTx(n), n, n, TxAt(OutTx(n))[1]>>
        /\ OutHs[n] = <<Outs[n].out_pub_key, n>> /\ Outs[n].lastSAId = n
        /\ Outs[n].of[3] \in Nat
        /\ Outs[n].of = <<TxAt(OutTx(n))[1], TxAt(OutTx(n))[2], Outs[n].of[3]>>
ImageRowsRight ==
    /\ \A n \in 1 .. Len(Images) :
          /\ ImageTx(n) \in 1 .. Len(TxHs)
          /\ ImageHs[n] = <<ImageAt(n), n>> /\ Images[n][1] = n
          /\ Images[n][3] = TxAt(ImageTx(n))[1]
          /\ ImageAt(n)[3] \in Nat
          /\ ImageAt(n) = <<TxAt(ImageTx(n))[1], TxAt(ImageTx(n))[2], ImageAt(n)[3]>>
          /\ InTx /\ ImageTx(n) = last.transaction => ImageAt(n)[3] <= place.input
    /\ \A m, n \in 1 .. Len(Images) : ImageAt(m) = ImageAt(n) => m = n
    /\ loop = "mixins" => /\ ImageAt(last.keyImage)[3] = place.input
                          /\ ImageTx(last.keyImage) = last.transaction
RingRowsRight ==
    \A n \in 1 .. Len(Rings) :
        LET k == ImageOf(n)
        IN  /\ k \in 1 .. Len(Images)
            /\ Rings[n].lastRingId = n
            /\ RingIs[n] = <<n, ImageTx(k), k, RingIs[n][4], Images[k][3]>>
            /\ Rings[n].of[4] \in Nat
            /\ Rings[n].of = <<ImageAt(k)[1], ImageAt(k)[2], ImageAt(k)[3], Rings[n].of[4]>>
            /\ ~Rings[n].missed => /\ Rings[n].mix_pub_key \in DOMAIN ringIds
                                   /\ RingIs[n][4] = ringIds[Rings[n].mix_pub_key]

Counted == BlocksCounted /\ TxsCounted /\ OutsCounted /\ ImagesCounted /\ RingsCounted
RowsInv ==
    /\ RowTypes /\ Counted
    /\ BlockRowsRight /\ TxHashesRight /\ TxRowsRight /\ OutRowsRight /\ ImageRowsRight /\ RingRowsRight

(* The numbers of rows that join: what is counted so far of the block, transaction and
   input at hand, and the numbers in the rows of those before. *)
OutsOf(t)   == {r \in SA_INDEX : r.TX_ID = t}
ImagesOf(t) == {k \in KI_DATA : k.TX_ID = t}
RingsOf(k)  == {r \in RM_INDEX : r.KEY_IMAGE = k}
TxsOf(b)    == {r \in TX_INDEX : r.BLOCK_ID = b}
TablesFinite == IsFiniteSet(SA_INDEX) /\ IsFiniteSet(KI_DATA) /\ IsFiniteSet(RM_INDEX) /\ IsFiniteSet(TX_INDEX)
TxNumbers ==
    /\ \A n \in 1 .. Len(Txs) : /\ Txs[n].outputs_no = Cardinality(OutsOf(n))
                                /\ Txs[n].inputs_no = Cardinality(ImagesOf(n))
    /\ InTx => /\ Cardinality(OutsOf(last.transaction)) = place.output
               /\ Cardinality(ImagesOf(last.transaction)) = place.input
ImageNumbers ==
    /\ \A n \in 1 .. Len(Images) : n < last.keyImage => Images[n][7] = Cardinality(RingsOf(n))
    /\ loop = "mixins" => /\ Images[last.keyImage][7] = shape.rings[place.input]
                          /\ Cardinality(RingsOf(last.keyImage)) = place.mixin
BlockNumbers ==
    /\ \A n \in 1 .. Len(Blocks) : n < last.block => Blocks[n].txCount = Cardinality(TxsOf(n))
    /\ loop # "blocks" => /\ Blocks[place.block].txCount = shape.txs
                          /\ Cardinality(TxsOf(place.block)) = IF InTx THEN place.tx - 1 ELSE place.tx
    /\ InTx => place.tx >= 1
NumbersInv == TablesFinite /\ TxNumbers /\ ImageNumbers /\ BlockNumbers

-----------------------------------------------------------------------------
\* What a step that pushes no row of a kind leaves alone.
LEMMA BlocksStay ==
    ASSUME RowsInv, UNCHANGED blockRows, place'.block = place.block
    PROVE  BlockRowsRight'
BY DEF RowsInv, BlockRowsRight, blockRows

LEMMA TxHashesStay ==
    ASSUME RowsInv, UNCHANGED TxHs, place'.block = place.block, place'.tx = place.tx,
           last'.transaction = last.transaction, InTx' => InTx
    PROVE  TxHashesRight'
BY DEF RowsInv, TxHashesRight, TxAt, ThisTx

LEMMA TxRowsStay ==
    ASSUME RowsInv, UNCHANGED <<txRows>>
    PROVE  TxRowsRight'
BY DEF RowsInv, TxRowsRight, TxAt, txRows

LEMMA OutRowsStay ==
    ASSUME RowsInv, UNCHANGED outRows, Len(TxHs') >= Len(TxHs), Len(TxHs) \in Nat, Len(TxHs') \in Nat,
           \A n \in 1 .. Len(TxHs) : TxHs'[n] = TxHs[n]
    PROVE  OutRowsRight'
<1>1. Outs' = Outs /\ OutIs' = OutIs /\ OutHs' = OutHs
  BY DEF outRows
<1>2. ASSUME NEW n \in 1 .. Len(Outs)
      PROVE  OutTx(n)' = OutTx(n) /\ OutTx(n) \in 1 .. Len(TxHs')
             /\ TxAt(OutTx(n))' = TxAt(OutTx(n))
  <2>1. OutTx(n)' = OutTx(n) /\ OutTx(n) \in 1 .. Len(TxHs)
    BY <1>1 DEF RowsInv, OutRowsRight, OutTx
  <2>2. OutTx(n) \in 1 .. Len(TxHs')
    BY <2>1
  <2>3. QED
    BY <2>1, <2>2 DEF TxAt
<1>3. QED
  BY <1>1, <1>2 DEF RowsInv, OutRowsRight

LEMMA RingRowsStay ==
    ASSUME RowsInv, UNCHANGED <<ringRows, ringIds>>, Len(Images') >= Len(Images),
           Len(Images) \in Nat, Len(Images') \in Nat,
           \A n \in 1 .. Len(Images) : Images'[n] = Images[n]
    PROVE  RingRowsRight'
<1>1. Rings' = Rings /\ RingIs' = RingIs /\ ringIds' = ringIds
  BY DEF ringRows
<1>2. ASSUME NEW n \in 1 .. Len(Rings)
      PROVE  /\ ImageOf(n)' = ImageOf(n) /\ ImageOf(n) \in 1 .. Len(Images')
             /\ Images'[ImageOf(n)] = Images[ImageOf(n)]
  <2>1. ImageOf(n)' = ImageOf(n) /\ ImageOf(n) \in 1 .. Len(Images)
    BY <1>1 DEF RowsInv, RingRowsRight, ImageOf
  <2>2. ImageOf(n) \in 1 .. Len(Images')
    BY <2>1
  <2>3. QED
    BY <2>1, <2>2
<1>3. \A n \in 1 .. Len(Rings) :
          /\ ImageAt(ImageOf(n))' = ImageAt(ImageOf(n))
          /\ ImageTx(ImageOf(n))' = ImageTx(ImageOf(n))
  BY <1>2 DEF ImageAt, ImageTx
<1>4. ASSUME NEW n \in 1 .. Len(Rings')
      PROVE  LET k == RingIs'[n][3]
             IN  /\ k \in 1 .. Len(Images')
                 /\ Rings'[n].lastRingId = n
                 /\ RingIs'[n] = <<n, Images'[k][4], k, RingIs'[n][4], Images'[k][3]>>
                 /\ Rings'[n].of[4] \in Nat
                 /\ Rings'[n].of = <<Images'[k][2][1], Images'[k][2][2],
                                     Images'[k][2][3], Rings'[n].of[4]>>
                 /\ ~Rings'[n].missed => /\ Rings'[n].mix_pub_key \in DOMAIN ringIds'
                                         /\ RingIs'[n][4] = ringIds'[Rings'[n].mix_pub_key]
  <2>1. PICK k : k = ImageOf(n)
    OBVIOUS
  <2>2. n \in 1 .. Len(Rings)
    BY <1>1
  <2>3. /\ ImageOf(n)' = k /\ k \in 1 .. Len(Images') /\ Images'[k] = Images[k]
        /\ ImageAt(k)' = ImageAt(k) /\ ImageTx(k)' = ImageTx(k)
    BY <1>2, <1>3, <2>1, <2>2
  <2>4. /\ Rings[n].lastRingId = n
        /\ RingIs[n] = <<n, ImageTx(k), k, RingIs[n][4], Images[k][3]>>
        /\ Rings[n].of[4] \in Nat
        /\ Rings[n].of = <<ImageAt(k)[1], ImageAt(k)[2], ImageAt(k)[3], Rings[n].of[4]>>
        /\ ~Rings[n].missed => /\ Rings[n].mix_pub_key \in DOMAIN ringIds
                               /\ RingIs[n][4] = ringIds[Rings[n].mix_pub_key]
    BY <2>1, <2>2 DEF RowsInv, RingRowsRight
  <2>5. QED
    BY <1>1, <2>3, <2>4 DEF ImageOf, ImageAt, ImageTx
<1>5. QED
  BY <1>4 DEF RingRowsRight, ImageOf, ImageAt, ImageTx

LEMMA ImageRowsStay ==
    ASSUME RowsInv, UNCHANGED <<imageRows, TxHs>>, last'.transaction = last.transaction,
           last'.keyImage = last.keyImage, place'.input = place.input,
           InTx' => InTx, loop' = "mixins" => loop = "mixins"
    PROVE  ImageRowsRight'
BY DEF RowsInv, ImageRowsRight, ImageAt, ImageTx, TxAt, imageRows

LEMMA LengthsAreNumbers ==
    ASSUME RowTypes
    PROVE  \A v \in VectorNames : Len(vectors[v]) \in Nat
BY DEF RowTypes, VectorsTyped, IsSeq

\* RowsInv is inductive: a lemma for each action.
LEMMA OutputRowsKeeps ==
    ASSUME RowsInv, NEW k \in PublicKeys, OutputRows(k)
    PROVE  RowsInv'
<1>0. RowTypes /\ Counted
  BY DEF RowsInv
<1>1. /\ loop = "outputs" /\ loop' = "outputs" /\ shape' = shape /\ ringIds' = ringIds
      /\ place' = [place EXCEPT !.output = @ + 1]
      /\ last' = [last EXCEPT !.stealthAddress = @ + 1, !.output = @ + 1]
  BY DEF OutputRows
<1>2. /\ place.block \in Nat /\ place.tx \in Nat /\ place.output \in Nat /\ last.output \in Nat
      /\ last.transaction \in Nat
  BY <1>0 DEF RowTypes, Places, LastIds
<1>3. /\ place' \in Places /\ place'.block = place.block /\ place'.tx = place.tx
      /\ place'.input = place.input /\ place'.mixin = place.mixin
  BY <1>0, <1>1 DEF RowTypes, Places
<1>4. /\ last' \in LastIds /\ last'.block = last.block /\ last'.transaction = last.transaction
      /\ last'.keyImage = last.keyImage /\ last'.input = last.input
      /\ last'.output = last.output + 1 /\ last'.stealthAddress = last.stealthAddress + 1
  <2>1. last \in LastIds
    BY <1>0 DEF RowTypes
  <2>2. last.output + 1 \in Nat /\ last.stealthAddress + 1 \in Nat
    BY <2>1 DEF LastIds
  <2>3. last' \in LastIds
    BY <1>1, <2>1, <2>2 DEF LastIds
  <2>4. /\ last'.block = last.block /\ last'.transaction = last.transaction
        /\ last'.keyImage = last.keyImage /\ last'.input = last.input
    BY <1>1, <2>1 DEF LastIds
  <2>5. last'.output = last.output + 1 /\ last'.stealthAddress = last.stealthAddress + 1
    BY <1>1, <2>1 DEF LastIds
  <2>6. QED
    BY <2>3, <2>4, <2>5
<1>5. /\ VectorsTyped'
      /\ Extends(OutHs, OutHs', <<k, last.stealthAddress>>)
      /\ Extends(Outs, Outs', [lastSAId |-> last.output, out_pub_key |-> k,
                               of |-> Append(ThisTx, place.output + 1)])
      /\ Extends(OutIs, OutIs', <<last.transaction, last.stealthAddress, last.output, last.block>>)
      /\ UNCHANGED <<blockRows, txRows, imageRows, ringRows>>
  BY <1>0, OutputRowsPush DEF RowTypes
<1>6. RowTypes'
  BY <1>0, <1>1, <1>3, <1>4, <1>5 DEF RowTypes
<1>7. Counted'
  <2>1. BlocksCounted' /\ TxsCounted'
    BY <1>0, <1>1, <1>3, <1>4, <1>5 DEF Counted, BlocksCounted, TxsCounted, InTx, blockRows, txRows
  <2>2. OutsCounted'
    <3>1. PICK n \in Nat : /\ n >= 1 /\ last.output = n /\ last.stealthAddress = n
                           /\ Len(OutHs) = n - 1 /\ Len(Outs) = n - 1 /\ Len(OutIs) = n - 1
      BY <1>0, <1>2 DEF Counted, OutsCounted
    <3>2. Len(OutHs') = n /\ Len(Outs') = n /\ Len(OutIs') = n
      BY <1>5, <3>1 DEF Extends
    <3>3. last'.output = n + 1 /\ last'.stealthAddress = n + 1
      BY <1>4, <3>1
    <3>4. QED
      BY <3>1, <3>2, <3>3 DEF OutsCounted
  <2>3. ImagesCounted' /\ RingsCounted'
    BY <1>0, <1>1, <1>4, <1>5 DEF Counted, ImagesCounted, RingsCounted, imageRows, ringRows
  <2>4. QED
    BY <2>1, <2>2, <2>3 DEF Counted
<1>8. /\ InTx /\ InTx' /\ Len(TxHs) = last.transaction /\ last.transaction >= 1
      /\ TxAt(last.transaction) = <<place.block, place.tx>> /\ last.block = place.block
  BY <1>0, <1>1 DEF RowsInv, Counted, TxsCounted, BlocksCounted, TxHashesRight, InTx, ThisTx
<1>9. BlockRowsRight' /\ TxHashesRight' /\ TxRowsRight'
  BY <1>3, <1>4, <1>5, <1>8, BlocksStay, TxHashesStay, TxRowsStay DEF txRows
<1>10. ImageRowsRight' /\ RingRowsRight'
  <2>1. Len(Images) \in Nat
    BY <1>0, LengthsAreNumbers DEF VectorNames, Images
  <2>2. Images' = Images /\ TxHs' = TxHs
    BY <1>5 DEF imageRows, txRows
  <2>3. QED
    BY <1>1, <1>3, <1>4, <1>5, <1>8, <2>1, <2>2, ImageRowsStay, RingRowsStay
<1>11. OutRowsRight'
  <2>1. PICK n \in Nat : n = last.output /\ Len(Outs) = n - 1 /\ Len(OutHs) = n - 1 /\ Len(OutIs) = n - 1
                         /\ last.stealthAddress = n /\ n >= 1
    BY <1>0, <1>2 DEF Counted, OutsCounted
  <2>2. TxHs' = TxHs
    BY <1>5 DEF txRows
  <2>3. ASSUME NEW m \in 1 .. n - 1
        PROVE  Outs'[m] = Outs[m] /\ OutHs'[m] = OutHs[m] /\ OutIs'[m] = OutIs[m]
    BY <1>5, <2>1 DEF Extends
  <2>4. /\ OutHs'[n] = <<k, n>> /\ OutIs'[n] = <<last.transaction, n, n, place.block>>
        /\ Outs'[n] = [lastSAId |-> n, out_pub_key |-> k, of |-> <<place.block, place.tx, place.output + 1>>]
    <3>1. Append(ThisTx, place.output + 1) = <<place.block, place.tx, place.output + 1>>
      BY <1>2, AppendedPath DEF ThisTx
    <3>2. /\ OutHs'[Len(OutHs) + 1] = <<k, last.stealthAddress>>
          /\ OutIs'[Len(OutIs) + 1] = <<last.transaction, last.stealthAddress, last.output, last.block>>
          /\ Outs'[Len(Outs) + 1] = [lastSAId |-> last.output, out_pub_key |-> k,
                                     of |-> Append(ThisTx, place.output + 1)]
      BY <1>5 DEF Extends
    <3>3. Len(OutHs) + 1 = n /\ Len(OutIs) + 1 = n /\ Len(Outs) + 1 = n
      BY <2>1
    <3>4. QED
      BY <1>8, <2>1, <3>1, <3>2, <3>3
  <2>5. /\ OutIs'[n][1] = last.transaction /\ Outs'[n].lastSAId = n /\ Outs'[n].out_pub_key = k
        /\ Outs'[n].of = <<place.block, place.tx, place.output + 1>> /\ Outs'[n].of[3] = place.output + 1
    BY <2>4
  <2>6. Len(Outs') = n
    BY <1>5, <2>1 DEF Extends
  <2>7. ASSUME NEW m \in 1 .. n
        PROVE  /\ OutTx(m)' \in 1 .. Len(TxHs')
               /\ OutIs'[m] = <<OutTx(m)', m, m, (TxAt(OutTx(m))[1])'>>
               /\ OutHs'[m] = <<Outs'[m].out_pub_key, m>> /\ Outs'[m].lastSAId = m
               /\ Outs'[m].of[3] \in Nat
               /\ Outs'[m].of = <<(TxAt(OutTx(m))[1])', (TxAt(OutTx(m))[2])', Outs'[m].of[3]>>
    <3>1. CASE m = n
      <4>1. OutTx(m)' = last.transaction
        BY <2>5, <3>1 DEF OutTx
      <4>2. (TxAt(OutTx(m)))' = <<place.block, place.tx>>
        BY <1>8, <2>2, <4>1 DEF TxAt
      <4>3. (TxAt(OutTx(m))[1])' = place.block /\ (TxAt(OutTx(m))[2])' = place.tx
        BY <4>2
      <4>4. OutTx(m)' \in 1 .. Len(TxHs')
        BY <1>2, <1>8, <2>2, <4>1
      <4>5. /\ OutIs'[m] = <<OutTx(m)', m, m, (TxAt(OutTx(m))[1])'>>
            /\ OutHs'[m] = <<Outs'[m].out_pub_key, m>> /\ Outs'[m].lastSAId = m
        BY <2>4, <2>5, <3>1, <4>1, <4>3
      <4>6. /\ Outs'[m].of[3] \in Nat
            /\ Outs'[m].of = <<(TxAt(OutTx(m))[1])', (TxAt(OutTx(m))[2])', Outs'[m].of[3]>>
        BY <1>2, <2>5, <3>1, <4>3
      <4>7. QED
        BY <4>4, <4>5, <4>6
    <3>2. CASE m \in 1 .. n - 1
      BY <2>1, <2>2, <2>3, <3>2 DEF RowsInv, OutRowsRight, OutTx, TxAt
    <3>3. QED
      BY <3>1, <3>2
  <2>8. QED
    BY <2>6, <2>7 DEF OutRowsRight
<1>12. QED
  BY <1>6, <1>7, <1>9, <1>10, <1>11 DEF RowsInv

LEMMA BlockRowsKeeps ==
    ASSUME RowsInv, BlockRows
    PROVE  RowsInv'
<1>0. RowTypes /\ Counted
  BY DEF RowsInv
<1>1. PICK t \in 1 .. MaxTxs :
      /\ loop = "blocks" /\ loop' = "txs" /\ last' = last /\ ringIds' = ringIds
      /\ place' = [block |-> place.block + 1, tx |-> 0, output |-> 0, input |-> 0, mixin |-> 0]
      /\ shape' = [shape EXCEPT !.txs = t]
  BY DEF BlockRows
<1>2. place.block \in Nat /\ last.block = place.block + 1 /\ t \in Nat
  BY <1>0, <1>1, RowsOK DEF RowTypes, Places, Counted, BlocksCounted, RowsOK
<1>3. place' \in Places /\ place'.block = place.block + 1 /\ place'.tx = 0 /\ place'.input = 0
  BY <1>1, <1>2 DEF Places
<1>4. shape' \in Shapes
  BY <1>0, <1>1, <1>2 DEF RowTypes, Shapes
<1>5. /\ VectorsTyped'
      /\ Extends(BlockHs, BlockHs', <<<<place.block + 1>>, last.block>>)
      /\ Extends(Blocks, Blocks', [lastBlockId |-> last.block, txCount |-> shape'.txs,
                                   of |-> <<place.block + 1>>])
      /\ Extends(BlockIs, BlockIs', <<last.block>>)
      /\ UNCHANGED <<txRows, outRows, imageRows, ringRows>>
  BY <1>0, BlockRowsPush DEF RowTypes
<1>6. RowTypes'
  BY <1>0, <1>1, <1>3, <1>4, <1>5 DEF RowTypes
<1>7. Len(BlockHs) = place.block /\ Len(Blocks) = place.block /\ Len(BlockIs) = place.block
  BY <1>0 DEF Counted, BlocksCounted
<1>8. Len(BlockHs') = place.block + 1 /\ Len(Blocks') = place.block + 1 /\ Len(BlockIs') = place.block + 1
  BY <1>5, <1>7 DEF Extends
<1>9. Counted'
  <2>1. BlocksCounted'
    BY <1>1, <1>2, <1>3, <1>8 DEF BlocksCounted
  <2>2. TxsCounted' /\ OutsCounted' /\ ImagesCounted' /\ RingsCounted'
    BY <1>0, <1>1, <1>5 DEF Counted, TxsCounted, OutsCounted, ImagesCounted, RingsCounted, InTx,
       txRows, outRows, imageRows, ringRows
  <2>3. QED
    BY <2>1, <2>2 DEF Counted
<1>10. BlockRowsRight'
  <2>1. /\ BlockHs'[place.block + 1] = <<<<place.block + 1>>, place.block + 1>>
        /\ Blocks'[place.block + 1].lastBlockId = place.block + 1
        /\ Blocks'[place.block + 1].of = <<place.block + 1>>
        /\ BlockIs'[place.block + 1] = <<place.block + 1>>
    BY <1>2, <1>5, <1>7 DEF Extends
  <2>2. \A n \in 1 .. place.block : /\ BlockHs'[n] = BlockHs[n] /\ Blocks'[n] = Blocks[n]
                                   /\ BlockIs'[n] = BlockIs[n]
    BY <1>5, <1>7 DEF Extends
  <2>3. \A n \in 1 .. place.block + 1 : n = place.block + 1 \/ n \in 1 .. place.block
    BY <1>2
  <2>4. QED
    BY <1>7, <1>8, <2>1, <2>2, <2>3 DEF RowsInv, BlockRowsRight
<1>11. ~InTx /\ ~InTx'
  BY <1>1 DEF InTx
<1>12. TxHashesRight' /\ TxRowsRight'
  <2>1. TxHs' = TxHs
    BY <1>5 DEF txRows
  <2>2. ASSUME NEW n \in 1 .. Len(TxHs)
        PROVE  TxAt(n)[1] \in 1 .. place.block + 1 /\ TxAt(n)[1] # place.block + 1
    BY <1>2 DEF RowsInv, TxHashesRight
  <2>3. TxHashesRight'
    BY <1>3, <1>11, <2>1, <2>2 DEF RowsInv, TxHashesRight, TxAt
  <2>4. QED
    BY <1>5, <2>3, TxRowsStay
<1>13. ImageRowsRight'
  BY <1>1, <1>5, <1>11 DEF RowsInv, ImageRowsRight, ImageAt, ImageTx, TxAt, imageRows, txRows
<1>14. OutRowsRight' /\ RingRowsRight'
  <2>1. Len(Images) \in Nat /\ Len(TxHs) \in Nat
    BY <1>0, LengthsAreNumbers DEF VectorNames, Images, TxHs
  <2>2. Images' = Images /\ TxHs' = TxHs
    BY <1>5 DEF imageRows, txRows
  <2>3. QED
    BY <1>1, <1>5, <2>1, <2>2, OutRowsStay, RingRowsStay
<1>15. QED
  BY <1>6, <1>9, <1>10, <1>12, <1>13, <1>14 DEF RowsInv

LEMMA TxHashKeeps ==
    ASSUME RowsInv, TxHash
    PROVE  RowsInv'
<1>0. RowTypes /\ Counted
  BY DEF RowsInv
<1>1. /\ loop = "txs" /\ loop' = "outputs" /\ last' = last /\ ringIds' = ringIds
      /\ place' = [place EXCEPT !.tx = @ + 1, !.output = 0, !.input = 0, !.mixin = 0]
      /\ shape' \in Shapes /\ shape'.txs = shape.txs
  <2>1. /\ loop = "txs" /\ loop' = "outputs" /\ last' = last /\ ringIds' = ringIds
        /\ place' = [place EXCEPT !.tx = @ + 1, !.output = 0, !.input = 0, !.mixin = 0]
    BY DEF TxHash
  <2>2. PICK n \in 1 .. MaxOutputs - last.output + 1, i \in 0 .. MaxInputs :
            \E r \in [1 .. i -> 1 .. MaxMixins] : shape' = [shape EXCEPT !.outputs = n, !.rings = r]
    BY DEF TxHash
  <2>3. PICK r \in [1 .. i -> 1 .. MaxMixins] : shape' = [shape EXCEPT !.outputs = n, !.rings = r]
    BY <2>2
  <2>4. n \in Nat /\ i \in Nat
    BY <1>0, RowsOK DEF RowTypes, LastIds, RowsOK
  <2>5. r \in Seq(Nat)
    <3>1. r \in [1 .. i -> Nat]
      BY RowsOK DEF RowsOK
    <3>2. QED
      BY <2>4, <3>1, SeqDef
  <2>6. QED
    BY <1>0, <2>1, <2>3, <2>4, <2>5 DEF RowTypes, Shapes
<1>2. /\ place.block \in Nat /\ place.tx \in Nat /\ last.transaction \in Nat /\ last.transaction >= 1
      /\ place.block >= 1
  BY <1>0, <1>1 DEF RowTypes, Places, LastIds, Counted, TxsCounted, BlocksCounted
<1>3. /\ place' \in Places /\ place'.block = place.block /\ place'.tx = place.tx + 1
      /\ place'.input = 0
  <2>1. place \in Places
    BY <1>0 DEF RowTypes
  <2>2. place' \in Places
    <3>1. place' = [block |-> place.block, tx |-> place.tx + 1, output |-> 0, input |-> 0, mixin |-> 0]
      BY <1>1, <2>1 DEF Places
    <3>2. QED
      BY <1>2, <3>1 DEF Places
  <2>3. place'.block = place.block /\ place'.tx = place.tx + 1
    BY <1>1, <2>1 DEF Places
  <2>4. place'.input = 0
    BY <1>1, <2>1 DEF Places
  <2>5. QED
    BY <2>2, <2>3, <2>4
<1>4. /\ VectorsTyped'
      /\ Extends(TxHs, TxHs', <<<<place.block, place.tx + 1>>, last.transaction>>)
      /\ UNCHANGED <<Txs, TxIs, blockRows, outRows, imageRows, ringRows>>
  BY <1>0, TxHashPush DEF RowTypes
<1>5. RowTypes'
  BY <1>0, <1>1, <1>3, <1>4 DEF RowTypes
<1>6. ~InTx /\ InTx' /\ Len(TxHs) = last.transaction - 1
  BY <1>0, <1>1 DEF Counted, TxsCounted, InTx
<1>7. /\ Len(TxHs') = last.transaction
      /\ TxHs'[last.transaction] = <<<<place.block, place.tx + 1>>, last.transaction>>
      /\ \A n \in 1 .. last.transaction - 1 : TxHs'[n] = TxHs[n]
  BY <1>2, <1>4, <1>6 DEF Extends
<1>8. Counted'
  <2>1. BlocksCounted' /\ OutsCounted' /\ ImagesCounted' /\ RingsCounted'
    BY <1>0, <1>1, <1>3, <1>4 DEF Counted, BlocksCounted, OutsCounted, ImagesCounted, RingsCounted,
       blockRows, outRows, imageRows, ringRows
  <2>2. TxsCounted'
    BY <1>0, <1>1, <1>4, <1>6, <1>7 DEF Counted, TxsCounted
  <2>3. QED
    BY <2>1, <2>2 DEF Counted
<1>9. BlockRowsRight'
  BY <1>3, <1>4, BlocksStay
<1>10. TxHashesRight'
  <2>1. TxAt(last.transaction)' = <<place.block, place.tx + 1>>
    BY <1>1, <1>7 DEF TxAt
  <2>2. ASSUME NEW n \in 1 .. last.transaction - 1
        PROVE  /\ TxAt(n)' = TxAt(n) /\ TxHs'[n] = <<TxAt(n), n>> /\ TxAt(n) \in Nat \X Nat
               /\ TxAt(n)[1] \in 1 .. place.block
               /\ TxAt(n)[1] = place.block => TxAt(n)[2] <= place.tx
    BY <1>6, <1>7 DEF RowsInv, TxHashesRight, TxAt
  <2>3. ASSUME NEW n \in 1 .. last.transaction - 1
        PROVE  TxAt(n) # <<place.block, place.tx + 1>>
    BY <1>2, <2>2
  <2>4. \A n \in 1 .. last.transaction : n = last.transaction \/ n \in 1 .. last.transaction - 1
    BY <1>2
  <2>5. ASSUME NEW n \in 1 .. last.transaction
        PROVE  /\ TxHs'[n] = <<TxAt(n)', n>> /\ TxAt(n)' \in Nat \X Nat
               /\ TxAt(n)'[1] \in 1 .. place.block
               /\ TxAt(n)'[1] = place.block => TxAt(n)'[2] <= place.tx + 1
    <3>1. CASE n = last.transaction
      BY <1>1, <1>2, <1>7, <2>1, <3>1
    <3>2. CASE n \in 1 .. last.transaction - 1
      <4>1. TxAt(n)[2] \in Nat
        BY <2>2, <3>2
      <4>2. QED
        BY <1>2, <2>2, <3>2, <4>1
    <3>3. QED
      BY <2>4, <3>1, <3>2
  <2>6. ASSUME NEW m \in 1 .. last.transaction, NEW n \in 1 .. last.transaction, TxAt(m)' = TxAt(n)'
        PROVE  m = n
    <3>1. CASE m \in 1 .. last.transaction - 1 /\ n \in 1 .. last.transaction - 1
      BY <1>6, <2>2, <2>6, <3>1 DEF RowsInv, TxHashesRight
    <3>2. CASE m = last.transaction \/ n = last.transaction
      BY <1>1, <2>1, <2>2, <2>3, <2>4, <2>6, <3>2
    <3>3. QED
      BY <2>4, <3>1, <3>2
  <2>7. (InTx => TxAt(last.transaction) = ThisTx)'
    BY <1>1, <1>3, <2>1 DEF ThisTx
  <2>8. QED
    BY <1>3, <1>7, <2>5, <2>6, <2>7 DEF TxHashesRight
<1>11. TxRowsRight'
  <2>1. Len(Txs) = last.transaction - 1
    BY <1>0 DEF Counted, TxsCounted
  <2>2. \A n \in 1 .. Len(Txs) : TxAt(n)' = TxAt(n)
    BY <1>7, <2>1 DEF TxAt
  <2>3. QED
    BY <1>4, <2>2 DEF RowsInv, TxRowsRight
<1>12. \A n \in 1 .. Len(TxHs) : TxHs'[n] = TxHs[n] /\ n # last.transaction
  BY <1>2, <1>6, <1>7
<1>13. ImageRowsRight'
  <2>1. imageRows' = imageRows /\ loop' # "mixins"
    BY <1>1, <1>4
  <2>2. \A n \in 1 .. Len(TxHs) : n \in 1 .. Len(TxHs')
    BY <1>2, <1>6, <1>7
  <2>3. QED
    BY <1>1, <1>12, <2>1, <2>2, SMTT(30) DEF RowsInv, ImageRowsRight, ImageAt, ImageTx, TxAt,
       imageRows
<1>14. OutRowsRight' /\ RingRowsRight'
  <2>1. Len(Images) \in Nat /\ Len(TxHs) \in Nat /\ Len(TxHs') \in Nat /\ Len(TxHs') >= Len(TxHs)
    <3>1. Len(Images) \in Nat
      BY <1>0, LengthsAreNumbers DEF VectorNames, Images
    <3>2. QED
      BY <1>2, <1>6, <1>7, <3>1
  <2>2. Images' = Images
    BY <1>4 DEF imageRows
  <2>3. QED
    BY <1>1, <1>4, <1>12, <2>1, <2>2, OutRowsStay, RingRowsStay
<1>15. QED
  BY <1>5, <1>8, <1>9, <1>10, <1>11, <1>13, <1>14 DEF RowsInv

LEMMA TxRowsKeeps ==
    ASSUME RowsInv, TxRows
    PROVE  RowsInv'
<1>0. RowTypes /\ Counted
  BY DEF RowsInv
<1>1. /\ loop = "outputs" /\ loop' = "txs" /\ place' = place /\ shape' = shape /\ ringIds' = ringIds
      /\ last' = [last EXCEPT !.transaction = @ + 1]
  BY DEF TxRows
<1>2. last.transaction \in Nat /\ last.transaction >= 1
  BY <1>0 DEF RowTypes, LastIds, Counted, TxsCounted
<1>3. /\ last' \in LastIds /\ last'.transaction = last.transaction + 1
      /\ last'.block = last.block /\ last'.output = last.output /\ last'.keyImage = last.keyImage
      /\ last'.input = last.input /\ last'.stealthAddress = last.stealthAddress
  <2>1. last \in LastIds
    BY <1>0 DEF RowTypes
  <2>2. last' \in LastIds
    BY <1>1, <1>2, <2>1 DEF LastIds
  <2>3. last'.transaction = last.transaction + 1
    BY <1>1, <2>1 DEF LastIds
  <2>4. /\ last'.block = last.block /\ last'.output = last.output /\ last'.keyImage = last.keyImage
        /\ last'.input = last.input /\ last'.stealthAddress = last.stealthAddress
    BY <1>1, <2>1 DEF LastIds
  <2>5. QED
    BY <2>2, <2>3, <2>4
<1>4. /\ VectorsTyped'
      /\ Extends(Txs, Txs', [lastTxId |-> last.transaction, inputs_no |-> Len(shape.rings),
                             outputs_no |-> shape.outputs, of |-> ThisTx])
      /\ Extends(TxIs, TxIs', <<last.transaction, last.block, last.transaction>>)
      /\ UNCHANGED <<TxHs, blockRows, outRows, imageRows, ringRows>>
  BY <1>0, TxRowsPush DEF RowTypes
<1>5. RowTypes'
  BY <1>0, <1>1, <1>3, <1>4 DEF RowTypes
<1>6. /\ InTx /\ ~InTx' /\ Len(TxHs) = last.transaction /\ last.block = place.block
      /\ Len(Txs) = last.transaction - 1 /\ Len(TxIs) = last.transaction - 1
      /\ TxAt(last.transaction) = ThisTx
  BY <1>0, <1>1 DEF RowsInv, Counted, TxsCounted, BlocksCounted, InTx, TxHashesRight
<1>7. /\ Len(Txs') = last.transaction /\ Len(TxIs') = last.transaction
      /\ Txs'[last.transaction] = [lastTxId |-> last.transaction, inputs_no |-> Len(shape.rings),
                                   outputs_no |-> shape.outputs, of |-> ThisTx]
      /\ TxIs'[last.transaction] = <<last.transaction, last.block, last.transaction>>
      /\ \A n \in 1 .. last.transaction - 1 : Txs'[n] = Txs[n] /\ TxIs'[n] = TxIs[n]
  BY <1>2, <1>4, <1>6 DEF Extends
<1>8. Counted'
  <2>1. BlocksCounted' /\ OutsCounted' /\ ImagesCounted' /\ RingsCounted'
    BY <1>0, <1>1, <1>3, <1>4 DEF Counted, BlocksCounted, OutsCounted, ImagesCounted, RingsCounted,
       blockRows, outRows, imageRows, ringRows
  <2>2. TxsCounted'
    BY <1>2, <1>3, <1>4, <1>6, <1>7 DEF TxsCounted
  <2>3. QED
    BY <2>1, <2>2 DEF Counted
<1>9. TxHs' = TxHs /\ Images' = Images /\ Len(TxHs) \in Nat /\ Len(Images) \in Nat
  BY <1>0, <1>4, LengthsAreNumbers DEF VectorNames, TxHs, Images, imageRows
<1>10. BlockRowsRight'
  BY <1>1, <1>4, BlocksStay
<1>11. TxHashesRight'
  BY <1>1, <1>6, <1>9 DEF RowsInv, TxHashesRight, TxAt
<1>12. OutRowsRight' /\ RingRowsRight'
  <2>1. OutRowsRight'
    BY <1>4, <1>9, OutRowsStay
  <2>2. RingRowsRight'
    BY <1>1, <1>4, <1>9, RingRowsStay
  <2>3. QED
    BY <2>1, <2>2
<1>13. ImageRowsRight'
  BY <1>1, <1>4, <1>6, <1>9, SMTT(30) DEF RowsInv, ImageRowsRight, ImageAt, ImageTx, TxAt, imageRows
<1>14. TxRowsRight'
  <2>1. TxAt(last.transaction)[1] = place.block
    BY <1>6 DEF ThisTx
  <2>2. \A n \in 1 .. last.transaction : n = last.transaction \/ n \in 1 .. last.transaction - 1
    BY <1>2
  <2>3. \A n \in 1 .. last.transaction : TxAt(n)' = TxAt(n)
    BY <1>9 DEF TxAt
  <2>4. ASSUME NEW n \in 1 .. last.transaction
        PROVE  /\ Txs'[n].lastTxId = n /\ Txs'[n].of = TxAt(n)
               /\ TxIs'[n] = <<n, TxAt(n)[1], n>>
    <3>1. CASE n = last.transaction
      BY <1>6, <1>7, <2>1, <3>1
    <3>2. CASE n \in 1 .. last.transaction - 1
      BY <1>6, <1>7, <3>2 DEF RowsInv, TxRowsRight
    <3>3. QED
      BY <2>2, <3>1, <3>2
  <2>5. QED
    BY <1>7, <2>3, <2>4 DEF TxRowsRight
<1>15. QED
  BY <1>5, <1>8, <1>10, <1>11, <1>12, <1>13, <1>14 DEF RowsInv

LEMMA InputDoneKeeps ==
    ASSUME RowsInv, InputDone
    PROVE  RowsInv'
<1>0. RowTypes /\ Counted
  BY DEF RowsInv
<1>1. /\ loop = "mixins" /\ loop' = "outputs" /\ last' = [last EXCEPT !.keyImage = @ + 1]
      /\ place' = place /\ shape' = shape /\ vectors' = vectors /\ ringIds' = ringIds
  BY DEF InputDone
<1>2. /\ last' \in LastIds /\ last'.keyImage = last.keyImage + 1
      /\ last'.block = last.block /\ last'.output = last.output /\ last'.transaction = last.transaction
      /\ last'.input = last.input /\ last'.stealthAddress = last.stealthAddress
  <2>1. last \in LastIds /\ last.keyImage \in Nat
    BY <1>0 DEF RowTypes, LastIds
  <2>2. last' \in LastIds
    BY <1>1, <2>1 DEF LastIds
  <2>3. last'.keyImage = last.keyImage + 1
    BY <1>1, <2>1 DEF LastIds
  <2>4. /\ last'.block = last.block /\ last'.output = last.output /\ last'.transaction = last.transaction
        /\ last'.input = last.input /\ last'.stealthAddress = last.stealthAddress
    BY <1>1, <2>1 DEF LastIds
  <2>5. QED
    BY <2>2, <2>3, <2>4
<1>3. /\ UNCHANGED <<blockRows, txRows, outRows, imageRows, ringRows>> /\ VectorsTyped'
      /\ TxHs' = TxHs /\ Images' = Images
  BY <1>0, <1>1 DEF blockRows, txRows, outRows, imageRows, ringRows, BlockHs, Blocks, BlockIs,
     TxHs, Txs, TxIs, OutHs, Outs, OutIs, ImageHs, Images, Rings, RingIs, RowTypes, VectorsTyped
<1>4. Len(TxHs) \in Nat /\ Len(Images) \in Nat
  BY <1>0, LengthsAreNumbers DEF VectorNames, TxHs, Images
<1>5. RowTypes'
  BY <1>0, <1>1, <1>2, <1>3 DEF RowTypes
<1>6. Counted'
  <2>1. BlocksCounted' /\ TxsCounted' /\ OutsCounted' /\ RingsCounted'
    BY <1>0, <1>1, <1>2, <1>3 DEF Counted, BlocksCounted, TxsCounted, OutsCounted, RingsCounted, InTx,
       blockRows, txRows, outRows, ringRows
  <2>2. ImagesCounted'
    <3>1. last.keyImage \in Nat
      BY <1>0 DEF RowTypes, LastIds
    <3>2. QED
      BY <1>0, <1>1, <1>2, <1>3, <3>1 DEF Counted, ImagesCounted, imageRows
  <2>3. QED
    BY <2>1, <2>2 DEF Counted
<1>7. InTx /\ InTx' /\ loop' # "mixins"
  BY <1>1 DEF InTx
<1>8. ImageRowsRight'
  BY <1>1, <1>2, <1>3, <1>7 DEF RowsInv, ImageRowsRight, ImageAt, ImageTx, TxAt, imageRows
<1>9. BlockRowsRight' /\ TxHashesRight' /\ TxRowsRight' /\ OutRowsRight' /\ RingRowsRight'
  BY <1>1, <1>2, <1>3, <1>4, <1>7, BlocksStay, TxHashesStay, TxRowsStay, OutRowsStay, RingRowsStay
<1>10. QED
  BY <1>5, <1>6, <1>8, <1>9 DEF RowsInv

LEMMA BlockDoneKeeps ==
    ASSUME RowsInv, BlockDone
    PROVE  RowsInv'
<1>0. RowTypes /\ Counted
  BY DEF RowsInv
<1>1. /\ loop = "txs" /\ loop' = "blocks" /\ last' = [last EXCEPT !.block = @ + 1]
      /\ place' = place /\ shape' = shape /\ vectors' = vectors /\ ringIds' = ringIds
  BY DEF BlockDone
<1>2. /\ last' \in LastIds /\ last'.block = last.block + 1
      /\ last'.keyImage = last.keyImage /\ last'.output = last.output /\ last'.transaction = last.transaction
      /\ last'.input = last.input /\ last'.stealthAddress = last.stealthAddress
  <2>1. last \in LastIds /\ last.block \in Nat
    BY <1>0 DEF RowTypes, LastIds
  <2>2. last' \in LastIds
    BY <1>1, <2>1 DEF LastIds
  <2>3. last'.block = last.block + 1
    BY <1>1, <2>1 DEF LastIds
  <2>4. /\ last'.keyImage = last.keyImage /\ last'.output = last.output
        /\ last'.transaction = last.transaction
        /\ last'.input = last.input /\ last'.stealthAddress = last.stealthAddress
    BY <1>1, <2>1 DEF LastIds
  <2>5. QED
    BY <2>2, <2>3, <2>4
<1>3. /\ UNCHANGED <<blockRows, txRows, outRows, imageRows, ringRows>> /\ VectorsTyped'
      /\ TxHs' = TxHs /\ Images' = Images
  BY <1>0, <1>1 DEF blockRows, txRows, outRows, imageRows, ringRows, BlockHs, Blocks, BlockIs,
     TxHs, Txs, TxIs, OutHs, Outs, OutIs, ImageHs, Images, Rings, RingIs, RowTypes, VectorsTyped
<1>4. Len(TxHs) \in Nat /\ Len(Images) \in Nat
  BY <1>0, LengthsAreNumbers DEF VectorNames, TxHs, Images
<1>5. RowTypes'
  BY <1>0, <1>1, <1>2, <1>3 DEF RowTypes
<1>6. Counted'
  <2>1. TxsCounted' /\ OutsCounted' /\ ImagesCounted' /\ RingsCounted'
    BY <1>0, <1>1, <1>2, <1>3 DEF Counted, TxsCounted, OutsCounted, ImagesCounted, RingsCounted, InTx,
       txRows, outRows, imageRows, ringRows
  <2>2. BlocksCounted'
    <3>1. place.block \in Nat
      BY <1>0 DEF RowTypes, Places
    <3>2. QED
      BY <1>0, <1>1, <1>2, <1>3, <3>1 DEF Counted, BlocksCounted, blockRows
  <2>3. QED
    BY <2>1, <2>2 DEF Counted
<1>7. ~InTx /\ ~InTx' /\ loop' # "mixins"
  BY <1>1 DEF InTx
<1>8. /\ BlockRowsRight' /\ TxHashesRight' /\ TxRowsRight' /\ OutRowsRight' /\ RingRowsRight'
      /\ ImageRowsRight'
  BY <1>1, <1>2, <1>3, <1>4, <1>7, BlocksStay, TxHashesStay, TxRowsStay, OutRowsStay, RingRowsStay,
     ImageRowsStay
<1>9. QED
  BY <1>5, <1>6, <1>8 DEF RowsInv

LEMMA KeyImageRowsKeeps ==
    ASSUME RowsInv, KeyImageRows
    PROVE  RowsInv'
<1> DEFINE of == <<place.block, place.tx, place.input + 1>>
<1>0. RowTypes /\ Counted
  BY DEF RowsInv
<1>1. /\ loop = "outputs" /\ loop' = "mixins" /\ shape' = shape /\ ringIds' = ringIds /\ last' = last
      /\ place' = [place EXCEPT !.input = @ + 1, !.mixin = 0]
      /\ place.input < Len(shape.rings)
  BY DEF KeyImageRows
<1>2. /\ place.block \in Nat /\ place.tx \in Nat /\ place.input \in Nat
      /\ last.transaction \in Nat /\ last.transaction >= 1
  BY <1>0 DEF RowTypes, Places, LastIds, Counted, TxsCounted
<1>15. PICK new \in Nat : new = last.keyImage /\ new >= 1
  BY <1>0 DEF RowTypes, LastIds, Counted, ImagesCounted
<1>3. /\ place' \in Places /\ place'.block = place.block /\ place'.tx = place.tx
      /\ place'.input = place.input + 1 /\ place'.mixin = 0
  <2>1. place \in Places
    BY <1>0 DEF RowTypes
  <2>2. place' = [block |-> place.block, tx |-> place.tx, output |-> place.output,
                  input |-> place.input + 1, mixin |-> 0]
    BY <1>1, <2>1 DEF Places
  <2>3. QED
    BY <1>2, <2>1, <2>2 DEF Places
<1>4. Append(ThisTx, place.input + 1) = of
  BY <1>2, AppendedPath DEF ThisTx
<1>5. /\ VectorsTyped'
      /\ Extends(ImageHs, ImageHs', <<of, new>>)
      /\ Extends(Images, Images', <<new, of, last.block, last.transaction, Len(of), place.input,
                                    shape.rings[place.input + 1]>>)
      /\ UNCHANGED <<blockRows, txRows, outRows, ringRows>>
  BY <1>0, <1>4, <1>15, KeyImageRowsPush DEF RowTypes
<1>6. RowTypes'
  BY <1>0, <1>1, <1>3, <1>5 DEF RowTypes
<1>7. /\ InTx /\ InTx' /\ Len(TxHs) = last.transaction /\ last.block = place.block
      /\ TxAt(last.transaction) = ThisTx /\ Len(Images) = new - 1 /\ Len(ImageHs) = new - 1
  BY <1>0, <1>1, <1>15 DEF RowsInv, Counted, TxsCounted, BlocksCounted, ImagesCounted, InTx, TxHashesRight
<1>8. /\ Len(Images') = new /\ Len(ImageHs') = new /\ ImageHs'[new] = <<of, new>>
      /\ Images'[new] = <<new, of, last.block, last.transaction, Len(of), place.input,
                          shape.rings[place.input + 1]>>
      /\ \A n \in 1 .. new - 1 : Images'[n] = Images[n] /\ ImageHs'[n] = ImageHs[n]
  <2> DEFINE line == <<new, of, last.block, last.transaction, Len(of), place.input,
                       shape.rings[place.input + 1]>>
             pair == <<of, new>>
  <2>1. Extends(Images, Images', line) /\ Len(Images) = new - 1
    BY <1>5, <1>7
  <2>2. Extends(ImageHs, ImageHs', pair) /\ Len(ImageHs) = new - 1
    BY <1>5, <1>7
  <2> HIDE DEF line, pair
  <2>3. /\ Len(Images') = new /\ Images'[new] = line
        /\ \A m \in 1 .. new - 1 : Images'[m] = Images[m]
    BY <1>15, <2>1 DEF Extends
  <2>4. /\ Len(ImageHs') = new /\ ImageHs'[new] = pair
        /\ \A m \in 1 .. new - 1 : ImageHs'[m] = ImageHs[m]
    BY <1>15, <2>2 DEF Extends
  <2>5. QED
    BY <2>3, <2>4 DEF line, pair
<1>9. TxHs' = TxHs /\ Len(TxHs) \in Nat /\ Len(Images) \in Nat
  BY <1>0, <1>5, LengthsAreNumbers DEF VectorNames, TxHs, Images, txRows
<1>10. Counted'
  <2>1. BlocksCounted' /\ TxsCounted' /\ OutsCounted' /\ RingsCounted'
    BY <1>0, <1>1, <1>3, <1>5, <1>7 DEF Counted, BlocksCounted, TxsCounted, OutsCounted, RingsCounted,
       blockRows, txRows, outRows, ringRows
  <2>2. ImagesCounted'
    BY <1>1, <1>8, <1>15 DEF ImagesCounted
  <2>3. QED
    BY <2>1, <2>2 DEF Counted
<1>11. BlockRowsRight' /\ TxHashesRight' /\ TxRowsRight' /\ OutRowsRight'
  BY <1>1, <1>3, <1>5, <1>7, <1>9, BlocksStay, TxHashesStay, TxRowsStay, OutRowsStay
<1>12. RingRowsRight'
  <2>1. Len(Images') \in Nat /\ Len(Images') >= Len(Images)
        /\ \A n \in 1 .. Len(Images) : Images'[n] = Images[n]
    BY <1>7, <1>8, <1>15
  <2>2. QED
    BY <1>1, <1>5, <1>9, <2>1, RingRowsStay
<1>13. ImageRowsRight'
  <2>1. ImageTx(new)' = last.transaction /\ ImageAt(new)' = of /\ ImageAt(new)'[3] = place.input + 1
        /\ Images'[new][1] = new /\ Images'[new][3] = place.block
    BY <1>1, <1>7, <1>8 DEF ImageTx, ImageAt
  <2>2. TxAt(last.transaction)[1] = place.block /\ TxAt(last.transaction)[2] = place.tx
    BY <1>7 DEF ThisTx
  <2>3. ASSUME NEW m \in 1 .. new - 1
        PROVE  /\ ImageTx(m)' = ImageTx(m) /\ ImageAt(m)' = ImageAt(m)
               /\ ImageTx(m) \in 1 .. Len(TxHs)
               /\ ImageHs'[m] = <<ImageAt(m), m>> /\ Images'[m][1] = m
               /\ Images'[m][3] = TxAt(ImageTx(m))[1]
               /\ ImageAt(m)[3] \in Nat
               /\ ImageAt(m) = <<TxAt(ImageTx(m))[1], TxAt(ImageTx(m))[2], ImageAt(m)[3]>>
               /\ ImageTx(m) = last.transaction => ImageAt(m)[3] <= place.input
    <3>1. m \in 1 .. Len(Images) /\ Images'[m] = Images[m] /\ ImageHs'[m] = ImageHs[m]
      BY <1>7, <1>8
    <3>2. ImageTx(m)' = ImageTx(m) /\ ImageAt(m)' = ImageAt(m)
      BY <3>1 DEF ImageTx, ImageAt
    <3>3. QED
      BY <1>7, <3>1, <3>2 DEF RowsInv, ImageRowsRight
  <2>4. ASSUME NEW m \in 1 .. new - 1
        PROVE  ImageAt(m) # of
    <3>1. SUFFICES ASSUME ImageAt(m) = of
                   PROVE  FALSE
      OBVIOUS
    <3>2. TxAt(ImageTx(m))[1] = place.block /\ TxAt(ImageTx(m))[2] = place.tx
          /\ ImageAt(m)[3] = place.input + 1
      BY <2>3, <3>1
    <3>3. TxAt(ImageTx(m)) \in Nat \X Nat
      BY <2>3 DEF RowsInv, TxHashesRight
    <3>4. TxAt(ImageTx(m)) = TxAt(last.transaction)
      BY <1>7, <3>2, <3>3 DEF ThisTx
    <3>5. ImageTx(m) = last.transaction
      <4>1. last.transaction \in 1 .. Len(TxHs)
        BY <1>2, <1>7
      <4>2. QED
        BY <2>3, <3>4, <4>1 DEF RowsInv, TxHashesRight
    <3>6. QED
      BY <1>2, <2>3, <3>2, <3>5
  <2>5. \A n \in 1 .. new : n = new \/ n \in 1 .. new - 1
    BY <1>15
  <2>6. \A n : TxAt(n)' = TxAt(n)
    BY <1>9 DEF TxAt
  <2>7. ASSUME NEW n \in 1 .. new
        PROVE  /\ ImageTx(n)' \in 1 .. Len(TxHs)
               /\ ImageHs'[n] = <<ImageAt(n)', n>> /\ Images'[n][1] = n
               /\ Images'[n][3] = TxAt(ImageTx(n)')[1]
               /\ ImageAt(n)'[3] \in Nat
               /\ ImageAt(n)' = <<TxAt(ImageTx(n)')[1], TxAt(ImageTx(n)')[2], ImageAt(n)'[3]>>
               /\ ImageTx(n)' = last.transaction => ImageAt(n)'[3] <= place.input + 1
    <3>1. CASE n = new
      <4>1. /\ ImageTx(n)' = last.transaction /\ ImageAt(n)' = of /\ ImageAt(n)'[3] = place.input + 1
            /\ Images'[n][1] = n /\ Images'[n][3] = place.block /\ ImageHs'[n] = <<of, n>>
        BY <1>8, <2>1, <3>1
      <4>2. last.transaction \in 1 .. Len(TxHs)
        BY <1>2, <1>7
      <4>3. QED
        BY <1>2, <2>2, <4>1, <4>2
    <3>2. CASE n \in 1 .. new - 1
      BY <1>2, <2>3, <3>2
    <3>3. QED
      BY <2>5, <3>1, <3>2
  <2>8. ASSUME NEW m \in 1 .. new, NEW n \in 1 .. new, ImageAt(m)' = ImageAt(n)'
        PROVE  m = n
    <3>1. CASE m \in 1 .. new - 1 /\ n \in 1 .. new - 1
      BY <1>7, <2>3, <2>8, <3>1 DEF RowsInv, ImageRowsRight
    <3>2. CASE m = new \/ n = new
      BY <2>1, <2>3, <2>4, <2>5, <2>8, <3>2
    <3>3. QED
      BY <2>5, <3>1, <3>2
  <2>9. QED
    <3>1. \A n : TxAt(ImageTx(n))' = TxAt(ImageTx(n)')
      BY <1>9 DEF TxAt
    <3>2. last'.keyImage = new /\ last'.transaction = last.transaction /\ Len(TxHs') = Len(TxHs)
      BY <1>1, <1>9, <1>15
    <3>3. QED
      BY <1>3, <1>8, <2>1, <2>7, <2>8, <3>1, <3>2, SMTT(30) DEF ImageRowsRight
<1>14. QED
  BY <1>6, <1>10, <1>11, <1>12, <1>13 DEF RowsInv

LEMMA RingMemberRowsKeeps ==
    ASSUME RowsInv, NEW k \in PublicKeys, NEW missed \in BOOLEAN, RingMemberRows(k, missed)
    PROVE  RowsInv'
<1> DEFINE of == <<place.block, place.tx, place.input, place.mixin + 1>>
<1>15. PICK new \in Nat : new = last.input /\ new >= 1
  BY DEF RowsInv, RowTypes, LastIds, Counted, RingsCounted
<1>16. PICK top \in Nat : top = last.keyImage /\ top >= 1
  BY DEF RowsInv, RowTypes, LastIds, Counted, ImagesCounted
<1>17. PICK id : id = IdOfMember(k, missed)
  OBVIOUS
<1>0. RowTypes /\ Counted
  BY DEF RowsInv
<1>1. /\ loop = "mixins" /\ loop' = "mixins" /\ shape' = shape
      /\ place' = [place EXCEPT !.mixin = @ + 1]
      /\ ringIds' = IF k \in DOMAIN ringIds THEN ringIds
                    ELSE [j \in DOMAIN ringIds \cup {k} |-> IF j = k THEN id ELSE ringIds[j]]
      /\ last' = [last EXCEPT !.input = @ + 1,
                              !.ringMember = IF k \in DOMAIN ringIds THEN @ ELSE @ + 1]
      /\ missed => k \in DOMAIN ringIds
  BY <1>17 DEF RingMemberRows, IdOfMember
<1>2. /\ place.block \in Nat /\ place.tx \in Nat /\ place.input \in Nat /\ place.mixin \in Nat
      /\ last.ringMember \in Nat /\ last.transaction \in Nat
  BY <1>0 DEF RowTypes, Places, LastIds
<1>3. /\ place' \in Places /\ place'.block = place.block /\ place'.tx = place.tx
      /\ place'.input = place.input /\ place'.mixin = place.mixin + 1
  BY <1>0, <1>1 DEF RowTypes, Places
<1>4. /\ last' \in LastIds /\ last'.input = new + 1
      /\ last'.block = last.block /\ last'.output = last.output /\ last'.transaction = last.transaction
      /\ last'.keyImage = last.keyImage /\ last'.stealthAddress = last.stealthAddress
  <2>1. last \in LastIds
    BY <1>0 DEF RowTypes
  <2> DEFINE count == IF k \in DOMAIN ringIds THEN last.ringMember ELSE last.ringMember + 1
  <2>2. count \in Nat
    BY <1>2
  <2>3. last' = [block |-> last.block, transaction |-> last.transaction,
                 stealthAddress |-> last.stealthAddress, output |-> last.output,
                 keyImage |-> last.keyImage, input |-> last.input + 1, ringMember |-> count]
    BY <1>1, <2>1 DEF LastIds
  <2> HIDE DEF count
  <2>4. last' \in LastIds
    BY <1>15, <2>1, <2>2, <2>3 DEF LastIds
  <2>5. QED
    BY <1>15, <2>3, <2>4
<1>5. ThisTx \o <<place.input, place.mixin + 1>> = of
  BY <1>2, JoinedPath DEF ThisTx
<1>6. /\ VectorsTyped'
      /\ Extends(Rings, Rings', [lastRingId |-> new, mix_pub_key |-> k, missed |-> missed, of |-> of])
      /\ Extends(RingIs, RingIs', <<new, last.transaction, top, id, last.block>>)
      /\ UNCHANGED <<blockRows, txRows, outRows, imageRows>>
  BY <1>0, <1>5, <1>15, <1>16, <1>17, RingMemberRowsPush DEF RowTypes
<1>7. RowTypes'
  BY <1>0, <1>1, <1>3, <1>4, <1>6 DEF RowTypes
<1>8. /\ InTx /\ InTx' /\ Len(TxHs) = last.transaction /\ last.block = place.block
      /\ Len(Images) = top /\ Len(Rings) = new - 1 /\ Len(RingIs) = new - 1
      /\ TxAt(last.transaction) = ThisTx
      /\ ImageAt(top)[3] = place.input /\ ImageTx(top) = last.transaction
  BY <1>0, <1>1, <1>15, <1>16 DEF RowsInv, Counted, TxsCounted, BlocksCounted, ImagesCounted, RingsCounted, InTx,
     TxHashesRight, ImageRowsRight
<1>9. /\ Len(Rings') = new /\ Len(RingIs') = new
      /\ Rings'[new] = [lastRingId |-> new, mix_pub_key |-> k, missed |-> missed, of |-> of]
      /\ RingIs'[new] = <<new, last.transaction, top, id, last.block>>
      /\ \A n \in 1 .. new - 1 : Rings'[n] = Rings[n] /\ RingIs'[n] = RingIs[n]
  <2> DEFINE data == [lastRingId |-> new, mix_pub_key |-> k, missed |-> missed, of |-> of]
             index == <<new, last.transaction, top, id, last.block>>
  <2>1. Extends(Rings, Rings', data) /\ Len(Rings) = new - 1
    BY <1>6, <1>8
  <2>2. Extends(RingIs, RingIs', index) /\ Len(RingIs) = new - 1
    BY <1>6, <1>8
  <2> HIDE DEF data, index
  <2>3. /\ Len(Rings') = new /\ Rings'[new] = data
        /\ \A m \in 1 .. new - 1 : Rings'[m] = Rings[m]
    BY <1>15, <2>1 DEF Extends
  <2>4. /\ Len(RingIs') = new /\ RingIs'[new] = index
        /\ \A m \in 1 .. new - 1 : RingIs'[m] = RingIs[m]
    BY <1>15, <2>2 DEF Extends
  <2>5. QED
    BY <2>3, <2>4 DEF data, index
<1>10. /\ TxHs' = TxHs /\ Images' = Images /\ Len(TxHs) \in Nat /\ Len(Images) \in Nat
  BY <1>0, <1>6, LengthsAreNumbers DEF VectorNames, TxHs, Images, txRows, imageRows
<1>11. Counted'
  <2>1. BlocksCounted' /\ TxsCounted' /\ OutsCounted' /\ ImagesCounted'
    BY <1>0, <1>1, <1>3, <1>4, <1>6, <1>8 DEF Counted, BlocksCounted, TxsCounted, OutsCounted,
       ImagesCounted, blockRows, txRows, outRows, imageRows
  <2>2. RingsCounted'
    BY <1>4, <1>9, <1>15 DEF RingsCounted
  <2>3. QED
    BY <2>1, <2>2 DEF Counted
<1>12. BlockRowsRight' /\ TxHashesRight' /\ TxRowsRight' /\ OutRowsRight' /\ ImageRowsRight'
  BY <1>1, <1>3, <1>4, <1>6, <1>8, <1>10, BlocksStay, TxHashesStay, TxRowsStay, OutRowsStay,
     ImageRowsStay
<1>13. RingRowsRight'
  <2>1. \A j \in DOMAIN ringIds : j \in DOMAIN ringIds' /\ ringIds'[j] = ringIds[j]
    BY <1>1
  <2>2. ~missed => k \in DOMAIN ringIds' /\ id = ringIds'[k]
    <3>1. CASE k \in DOMAIN ringIds
      BY <1>1, <1>17, <3>1 DEF IdOfMember
    <3>2. CASE k \notin DOMAIN ringIds
      BY <1>1, <1>17, <3>2 DEF IdOfMember
    <3>3. QED
      BY <3>1, <3>2
  <2>3. /\ top \in 1 .. Len(Images) /\ Images[top][3] = place.block
        /\ ImageAt(top)[1] = place.block /\ ImageAt(top)[2] = place.tx
    <3>1. top \in 1 .. Len(Images)
      BY <1>8, <1>16
    <3>2. /\ Images[top][3] = TxAt(ImageTx(top))[1]
          /\ ImageAt(top) = <<TxAt(ImageTx(top))[1], TxAt(ImageTx(top))[2], ImageAt(top)[3]>>
      BY <3>1 DEF RowsInv, ImageRowsRight
    <3>3. TxAt(ImageTx(top)) = <<place.block, place.tx>>
      BY <1>8 DEF ThisTx
    <3>4. QED
      BY <3>1, <3>2, <3>3
  <2>4. /\ ImageOf(new)' = top /\ RingIs'[new][4] = id /\ Rings'[new].lastRingId = new
        /\ Rings'[new].mix_pub_key = k /\ Rings'[new].missed = missed /\ Rings'[new].of = of
        /\ Rings'[new].of[4] = place.mixin + 1
    BY <1>9 DEF ImageOf
  <2>5. ASSUME NEW m \in 1 .. new - 1
        PROVE  LET i == ImageOf(m)
               IN  /\ i \in 1 .. Len(Images) /\ ImageOf(m)' = i
                   /\ Rings'[m].lastRingId = m
                   /\ RingIs'[m] = <<m, ImageTx(i), i, RingIs'[m][4], Images[i][3]>>
                   /\ Rings'[m].of[4] \in Nat
                   /\ Rings'[m].of = <<ImageAt(i)[1], ImageAt(i)[2], ImageAt(i)[3], Rings'[m].of[4]>>
                   /\ ~Rings'[m].missed => /\ Rings'[m].mix_pub_key \in DOMAIN ringIds'
                                           /\ RingIs'[m][4] = ringIds'[Rings'[m].mix_pub_key]
    <3>1. /\ m \in 1 .. Len(Rings) /\ Rings'[m] = Rings[m] /\ RingIs'[m] = RingIs[m]
          /\ ImageOf(m)' = ImageOf(m)
      BY <1>8, <1>9 DEF ImageOf
    <3>2. QED
      BY <2>1, <3>1 DEF RowsInv, RingRowsRight
  <2>6. \A n \in 1 .. new : n = new \/ n \in 1 .. new - 1
    BY <1>15
  <2>7. ASSUME NEW n \in 1 .. new
        PROVE  LET i == ImageOf(n)'
               IN  /\ i \in 1 .. Len(Images)
                   /\ Rings'[n].lastRingId = n
                   /\ RingIs'[n] = <<n, ImageTx(i), i, RingIs'[n][4], Images[i][3]>>
                   /\ Rings'[n].of[4] \in Nat
                   /\ Rings'[n].of = <<ImageAt(i)[1], ImageAt(i)[2], ImageAt(i)[3], Rings'[n].of[4]>>
                   /\ ~Rings'[n].missed => /\ Rings'[n].mix_pub_key \in DOMAIN ringIds'
                                           /\ RingIs'[n][4] = ringIds'[Rings'[n].mix_pub_key]
    <3>1. CASE n = new
      <4>1. /\ ImageOf(n)' = top /\ Rings'[n].lastRingId = n
            /\ RingIs'[n] = <<n, last.transaction, top, id, place.block>>
            /\ RingIs'[n][4] = id /\ Rings'[n].of = of /\ Rings'[n].of[4] = place.mixin + 1
        BY <1>8, <1>9, <2>4, <3>1
      <4>2. ~Rings'[n].missed => /\ Rings'[n].mix_pub_key \in DOMAIN ringIds'
                                 /\ RingIs'[n][4] = ringIds'[Rings'[n].mix_pub_key]
        BY <2>2, <2>4, <3>1
      <4>3. Rings'[n].of = <<ImageAt(top)[1], ImageAt(top)[2], ImageAt(top)[3], Rings'[n].of[4]>>
        BY <1>8, <2>3, <4>1
      <4>4. RingIs'[n] = <<n, ImageTx(top), top, RingIs'[n][4], Images[top][3]>>
        BY <1>8, <2>3, <4>1
      <4>5. Rings'[n].of[4] \in Nat
        BY <1>2, <4>1
      <4>6. top \in 1 .. Len(Images)
        BY <2>3
      <4>7. QED
        BY <4>1, <4>2, <4>3, <4>4, <4>5, <4>6
    <3>2. CASE n \in 1 .. new - 1
      BY <2>5, <3>2
    <3>3. QED
      BY <2>6, <3>1, <3>2
  <2>8. \A i : ImageTx(i)' = ImageTx(i) /\ ImageAt(i)' = ImageAt(i)
    BY <1>10 DEF ImageTx, ImageAt
  <2>9. QED
    BY <1>9, <1>10, <2>7, <2>8 DEF RingRowsRight, ImageOf, ImageTx, ImageAt
<1>14. QED
  BY <1>7, <1>11, <1>12, <1>13 DEF RowsInv

LEMMA RowsStart ==
    ASSUME RowsInit
    PROVE  RowsInv
<1>1. vectors = [v \in VectorNames |-> <<>>]
  BY DEF RowsInit
<1>2. \A v \in VectorNames : vectors[v] = <<>> /\ Len(vectors[v]) = 0
  BY <1>1
<1>3. VectorsTyped
  <2>1. \A v \in VectorNames : IsSeq(vectors[v])
    <3>1. << >> = [i \in 1 .. 0 |-> << >>[i]] /\ Len(<< >>) = 0
      OBVIOUS
    <3>2. QED
      BY <1>2, <3>1 DEF IsSeq
  <2>2. vectors = [v \in VectorNames |-> vectors[v]]
    BY <1>1
  <2>3. QED
    BY <2>1, <2>2 DEF VectorsTyped
<1>4. /\ Len(BlockHs) = 0 /\ Len(Blocks) = 0 /\ Len(BlockIs) = 0 /\ Len(TxHs) = 0 /\ Len(Txs) = 0
      /\ Len(TxIs) = 0 /\ Len(OutHs) = 0 /\ Len(Outs) = 0 /\ Len(OutIs) = 0 /\ Len(ImageHs) = 0
      /\ Len(Images) = 0 /\ Len(Rings) = 0 /\ Len(RingIs) = 0
  BY <1>2 DEF VectorNames, BlockHs, Blocks, BlockIs,
     TxHs, Txs, TxIs, OutHs, Outs, OutIs, ImageHs, Images, Rings, RingIs
<1>5. RowTypes
  BY <1>3 DEF RowsInit, RowTypes, LastIds, Places, Shapes
<1>6. ~InTx /\ loop = "blocks"
  BY DEF RowsInit, InTx
<1>7. Counted
  BY <1>4, <1>6 DEF RowsInit, Counted, BlocksCounted, TxsCounted, OutsCounted, ImagesCounted, RingsCounted
<1>8. /\ BlockRowsRight /\ TxHashesRight /\ TxRowsRight /\ OutRowsRight /\ ImageRowsRight
      /\ RingRowsRight
  BY <1>4, <1>6 DEF BlockRowsRight, TxHashesRight, TxRowsRight, OutRowsRight, ImageRowsRight, RingRowsRight
<1>9. QED
  BY <1>5, <1>7, <1>8 DEF RowsInv
-----------------------------------------------------------------------------
(* The tables that the rows make, one row for each number. *)
blockData(n)  == [DATA_ID |-> n, TX_COUNT |-> Blocks[n].txCount, of |-> <<n>>]
blockIndex(n) == [ID |-> n, HASH_ID |-> n, DATA_ID |-> n]
txData(n)     == [DATA_ID |-> n, INPUT_COUNT |-> Txs[n].inputs_no, OUTPUT_COUNT |-> Txs[n].outputs_no,
                  of |-> TxAt(n)]
txIndex(n)    == [DATA_ID |-> n, BLOCK_ID |-> TxAt(n)[1], HASH_ID |-> n]
outData(n)    == [DATA_ID |-> n, P_KEY |-> Outs[n].out_pub_key, of |-> Outs[n].of]
outIndex(n)   == [DATA_ID |-> n, BLOCK_ID |-> TxAt(OutTx(n))[1], TX_ID |-> OutTx(n), HASH_ID |-> n]
imageData(n)  == [DATA_ID |-> n, BLOCK_ID |-> TxAt(ImageTx(n))[1], TX_ID |-> ImageTx(n),
                  MIXIN_COUNT |-> Images[n][7], of |-> ImageAt(n)]
ringData(n)   == [DATA_ID |-> n, P_KEY |-> Rings[n].mix_pub_key, missed |-> Rings[n].missed,
                  of |-> Rings[n].of]
ringIndex(n)  == [DATA_ID |-> n, BLOCK_ID |-> TxAt(ImageTx(ImageOf(n)))[1],
                  TX_ID |-> ImageTx(ImageOf(n)), KEY_IMAGE |-> ImageOf(n), HASH_ID |-> RingIs[n][4]]

LEMMA SetOfSeq ==
    ASSUME NEW s, IsSeq(s)
    PROVE  ToSet(s) = {s[n] : n \in 1 .. Len(s)}
<1>1. DOMAIN s = 1 .. Len(s)
  BY DEF IsSeq
<1>2. QED
  BY <1>1 DEF ToSet

LEMMA SetGrows ==
    ASSUME NEW s, NEW t, NEW e, IsSeq(s), Extends(s, t, e)
    PROVE  ToSet(t) = ToSet(s) \cup {e}
<1>1. ToSet(s) = {s[n] : n \in 1 .. Len(s)} /\ ToSet(t) = {t[n] : n \in 1 .. Len(t)}
  BY SetOfSeq DEF Extends
<1>2. \A n : n \in 1 .. Len(t) <=> n \in 1 .. Len(s) \/ n = Len(s) + 1
  BY DEF Extends, IsSeq
<1>3. QED
  BY <1>1, <1>2 DEF Extends

LEMMA BlockTables ==
    ASSUME RowsInv
    PROVE  /\ BLOCK_DATA = {blockData(n) : n \in 1 .. Len(Blocks)}
           /\ BLOCK_INDEX = {blockIndex(n) : n \in 1 .. Len(Blocks)}
<1>1. /\ ToSet(Blocks) = {Blocks[n] : n \in 1 .. Len(Blocks)}
      /\ ToSet(BlockIs) = {BlockIs[n] : n \in 1 .. Len(BlockIs)}
      /\ Len(BlockIs) = Len(Blocks)
  BY SetOfSeq DEF RowsInv, RowTypes, VectorsTyped, VectorNames, Blocks, BlockIs, Counted, BlocksCounted
<1>2. /\ BLOCK_DATA = {insertBlockData(v) : v \in ToSet(Blocks)}
      /\ BLOCK_INDEX = {insertBlockIndex(v) : v \in ToSet(BlockIs)}
  BY DEF BLOCK_DATA, BLOCK_INDEX, RowsIn, Blocks, BlockIs
<1>3. ASSUME NEW n \in 1 .. Len(Blocks)
      PROVE  insertBlockData(Blocks[n]) = blockData(n) /\ insertBlockIndex(BlockIs[n]) = blockIndex(n)
  <2>1. BlockIs[n] = <<n>> /\ Blocks[n].lastBlockId = n /\ Blocks[n].of = <<n>>
    BY DEF RowsInv, BlockRowsRight
  <2>2. QED
    BY <2>1 DEF insertBlockData, insertBlockIndex, blockData, blockIndex
<1>4. QED
  BY <1>1, <1>2, <1>3

LEMMA TxTables ==
    ASSUME RowsInv
    PROVE  /\ TX_DATA = {txData(n) : n \in 1 .. Len(Txs)}
           /\ TX_INDEX = {txIndex(n) : n \in 1 .. Len(Txs)}
<1>1. /\ ToSet(Txs) = {Txs[n] : n \in 1 .. Len(Txs)}
      /\ ToSet(TxIs) = {TxIs[n] : n \in 1 .. Len(TxIs)}
      /\ Len(TxIs) = Len(Txs)
  BY SetOfSeq DEF RowsInv, RowTypes, VectorsTyped, VectorNames, Txs, TxIs, Counted, TxsCounted
<1>2. /\ TX_DATA = {insertTxData(v) : v \in ToSet(Txs)}
      /\ TX_INDEX = {insertTxIndex(v) : v \in ToSet(TxIs)}
  BY DEF TX_DATA, TX_INDEX, RowsIn, Txs, TxIs
<1>3. ASSUME NEW n \in 1 .. Len(Txs)
      PROVE  insertTxData(Txs[n]) = txData(n) /\ insertTxIndex(TxIs[n]) = txIndex(n)
  BY DEF RowsInv, TxRowsRight, insertTxData, insertTxIndex, txData, txIndex
<1>4. QED
  BY <1>1, <1>2, <1>3

LEMMA OutTables ==
    ASSUME RowsInv
    PROVE  /\ SA_DATA = {outData(n) : n \in 1 .. Len(Outs)}
           /\ SA_INDEX = {outIndex(n) : n \in 1 .. Len(Outs)}
<1>1. /\ ToSet(Outs) = {Outs[n] : n \in 1 .. Len(Outs)}
      /\ ToSet(OutIs) = {OutIs[n] : n \in 1 .. Len(OutIs)}
      /\ Len(OutIs) = Len(Outs)
  BY SetOfSeq DEF RowsInv, RowTypes, VectorsTyped, VectorNames, Outs, OutIs, Counted, OutsCounted
<1>2. /\ SA_DATA = {insertSAData(v) : v \in ToSet(Outs)}
      /\ SA_INDEX = {insertSAIndex(v) : v \in ToSet(OutIs)}
  BY DEF SA_DATA, SA_INDEX, RowsIn, Outs, OutIs
<1>3. ASSUME NEW n \in 1 .. Len(Outs)
      PROVE  insertSAData(Outs[n]) = outData(n) /\ insertSAIndex(OutIs[n]) = outIndex(n)
  <2>1. /\ OutIs[n][1] = OutTx(n) /\ OutIs[n][2] = n /\ OutIs[n][3] = n
        /\ OutIs[n][4] = TxAt(OutTx(n))[1] /\ Outs[n].lastSAId = n
    BY DEF RowsInv, OutRowsRight
  <2>2. QED
    BY <2>1 DEF insertSAData, insertSAIndex, outData, outIndex
<1>4. QED
  BY <1>1, <1>2, <1>3

LEMMA ImageTables ==
    ASSUME RowsInv
    PROVE  KI_DATA = {imageData(n) : n \in 1 .. Len(Images)}
<1>1. ToSet(Images) = {Images[n] : n \in 1 .. Len(Images)}
  BY SetOfSeq DEF RowsInv, RowTypes, VectorsTyped, VectorNames, Images
<1>2. KI_DATA = {insertKIData(v) : v \in ToSet(Images)}
  BY DEF KI_DATA, RowsIn, Images
<1>3. ASSUME NEW n \in 1 .. Len(Images)
      PROVE  insertKIData(Images[n]) = imageData(n)
  BY DEF RowsInv, ImageRowsRight, insertKIData, imageData, ImageTx, ImageAt
<1>4. QED
  BY <1>1, <1>2, <1>3

LEMMA RingTables ==
    ASSUME RowsInv
    PROVE  /\ RM_DATA = {ringData(n) : n \in 1 .. Len(Rings)}
           /\ RM_INDEX = {ringIndex(n) : n \in 1 .. Len(Rings)}
<1>1. /\ ToSet(Rings) = {Rings[n] : n \in 1 .. Len(Rings)}
      /\ ToSet(RingIs) = {RingIs[n] : n \in 1 .. Len(RingIs)}
      /\ Len(RingIs) = Len(Rings)
  BY SetOfSeq DEF RowsInv, RowTypes, VectorsTyped, VectorNames, Rings, RingIs, Counted, RingsCounted
<1>2. /\ RM_DATA = {insertRMData(v) : v \in ToSet(Rings)}
      /\ RM_INDEX = {insertRMIndex(v) : v \in ToSet(RingIs)}
  BY DEF RM_DATA, RM_INDEX, RowsIn, Rings, RingIs
<1>3. ASSUME NEW n \in 1 .. Len(Rings)
      PROVE  insertRMData(Rings[n]) = ringData(n) /\ insertRMIndex(RingIs[n]) = ringIndex(n)
  <2>1. /\ ImageOf(n) \in 1 .. Len(Images) /\ Rings[n].lastRingId = n
        /\ RingIs[n] = <<n, ImageTx(ImageOf(n)), ImageOf(n), RingIs[n][4], Images[ImageOf(n)][3]>>
    BY DEF RowsInv, RingRowsRight
  <2>2. Images[ImageOf(n)][3] = TxAt(ImageTx(ImageOf(n)))[1]
    BY <2>1 DEF RowsInv, ImageRowsRight
  <2>3. /\ RingIs[n][1] = n /\ RingIs[n][2] = ImageTx(ImageOf(n)) /\ RingIs[n][3] = ImageOf(n)
        /\ RingIs[n][5] = TxAt(ImageTx(ImageOf(n)))[1]
    BY <2>1, <2>2
  <2>4. QED
    BY <2>1, <2>3 DEF insertRMData, insertRMIndex, ringData, ringIndex
<1>4. QED
  BY <1>1, <1>2, <1>3

LEMMA IndexesGrow ==
    ASSUME RowTypes, NEW e
    PROVE  /\ Extends(TxIs, TxIs', e) => TX_INDEX' = TX_INDEX \cup {insertTxIndex(e)}
           /\ Extends(OutIs, OutIs', e) => SA_INDEX' = SA_INDEX \cup {insertSAIndex(e)}
           /\ Extends(Images, Images', e) => KI_DATA' = KI_DATA \cup {insertKIData(e)}
           /\ Extends(RingIs, RingIs', e) => RM_INDEX' = RM_INDEX \cup {insertRMIndex(e)}
<1>1. IsSeq(TxIs) /\ IsSeq(OutIs) /\ IsSeq(Images) /\ IsSeq(RingIs)
  BY DEF RowTypes, VectorsTyped, VectorNames, TxIs, OutIs, Images, RingIs
<1>2. /\ Extends(TxIs, TxIs', e) => ToSet(TxIs') = ToSet(TxIs) \cup {e}
      /\ Extends(OutIs, OutIs', e) => ToSet(OutIs') = ToSet(OutIs) \cup {e}
      /\ Extends(Images, Images', e) => ToSet(Images') = ToSet(Images) \cup {e}
      /\ Extends(RingIs, RingIs', e) => ToSet(RingIs') = ToSet(RingIs) \cup {e}
  BY <1>1, SetGrows
<1>3. /\ TX_INDEX = {insertTxIndex(v) : v \in ToSet(TxIs)}
      /\ SA_INDEX = {insertSAIndex(v) : v \in ToSet(OutIs)}
      /\ KI_DATA = {insertKIData(v) : v \in ToSet(Images)}
      /\ RM_INDEX = {insertRMIndex(v) : v \in ToSet(RingIs)}
  BY DEF TX_INDEX, SA_INDEX, KI_DATA, RM_INDEX, RowsIn, TxIs, OutIs, Images, RingIs
<1>4. /\ TX_INDEX' = {insertTxIndex(v) : v \in ToSet(TxIs')}
      /\ SA_INDEX' = {insertSAIndex(v) : v \in ToSet(OutIs')}
      /\ KI_DATA' = {insertKIData(v) : v \in ToSet(Images')}
      /\ RM_INDEX' = {insertRMIndex(v) : v \in ToSet(RingIs')}
  BY DEF TX_INDEX, SA_INDEX, KI_DATA, RM_INDEX, RowsIn, TxIs, OutIs, Images, RingIs
<1>5. QED
  BY <1>2, <1>3, <1>4

LEMMA IndexesStay ==
    /\ UNCHANGED TxIs => UNCHANGED TX_INDEX
    /\ UNCHANGED OutIs => UNCHANGED SA_INDEX
    /\ UNCHANGED Images => UNCHANGED KI_DATA
    /\ UNCHANGED RingIs => UNCHANGED RM_INDEX
BY DEF TX_INDEX, SA_INDEX, KI_DATA, RM_INDEX, RowsIn, TxIs, OutIs, Images, RingIs

\* A set of rows with one more, and the set of those of them that have an id in common.
LEMMA OneJoins ==
    ASSUME NEW T, NEW A \in SUBSET T, NEW r, IsFiniteSet(T), r \notin T
    PROVE  /\ IsFiniteSet(T \cup {r})
           /\ Cardinality(A) \in Nat /\ Cardinality(A \cup {r}) = Cardinality(A) + 1
<1>1. IsFiniteSet(A) /\ r \notin A
  BY FS_Subset
<1>2. QED
  BY <1>1, FS_AddElement, FS_CardinalityType

LEMMA RowsAreBounded ==
    ASSUME RowsInv
    PROVE  /\ \A r \in SA_INDEX : r.DATA_ID \in 1 .. Len(Outs) /\ r.TX_ID \in 1 .. Len(TxHs)
           /\ \A r \in KI_DATA : r.DATA_ID \in 1 .. Len(Images) /\ r.TX_ID \in 1 .. Len(TxHs)
           /\ \A r \in RM_INDEX : r.DATA_ID \in 1 .. Len(Rings) /\ r.KEY_IMAGE \in 1 .. Len(Images)
           /\ \A r \in TX_INDEX : r.DATA_ID \in 1 .. Len(Txs) /\ r.BLOCK_ID \in 1 .. place.block
<1>1. \A n \in 1 .. Len(Outs) : outIndex(n).DATA_ID = n /\ outIndex(n).TX_ID \in 1 .. Len(TxHs)
  BY DEF RowsInv, OutRowsRight, outIndex
<1>2. \A n \in 1 .. Len(Images) : imageData(n).DATA_ID = n /\ imageData(n).TX_ID \in 1 .. Len(TxHs)
  BY DEF RowsInv, ImageRowsRight, imageData
<1>3. \A n \in 1 .. Len(Rings) : ringIndex(n).DATA_ID = n /\ ringIndex(n).KEY_IMAGE \in 1 .. Len(Images)
  BY DEF RowsInv, RingRowsRight, ringIndex
<1>4. \A n \in 1 .. Len(Txs) : txIndex(n).DATA_ID = n /\ txIndex(n).BLOCK_ID \in 1 .. place.block
  <2>1. \A n \in 1 .. Len(Txs) : n \in 1 .. Len(TxHs)
    BY DEF RowsInv, RowTypes, LastIds, Counted, TxsCounted
  <2>2. \A n \in 1 .. Len(Txs) : TxAt(n)[1] \in 1 .. place.block
    BY <2>1 DEF RowsInv, TxHashesRight
  <2>3. QED
    BY <2>2 DEF txIndex
<1>5. QED
  BY <1>1, <1>2, <1>3, <1>4, OutTables, ImageTables, RingTables, TxTables

\* Where no row of a kind is pushed, its numbers stay.
LEMMA NumbersStay ==
    /\ UNCHANGED TxIs => \A b : UNCHANGED TxsOf(b)
    /\ UNCHANGED OutIs => \A t : UNCHANGED OutsOf(t)
    /\ UNCHANGED Images => \A t : UNCHANGED ImagesOf(t)
    /\ UNCHANGED RingIs => \A k : UNCHANGED RingsOf(k)
BY IndexesStay DEF TxsOf, OutsOf, ImagesOf, RingsOf

\* No row has an id that is not given yet.
LEMMA NoneOf ==
    ASSUME RowsInv
    PROVE  /\ \A t \in Nat : t > Len(TxHs) => OutsOf(t) = {} /\ ImagesOf(t) = {}
           /\ \A k \in Nat : k > Len(Images) => RingsOf(k) = {}
           /\ \A b \in Nat : b > place.block => TxsOf(b) = {}
<1>1. Len(TxHs) \in Nat /\ Len(Images) \in Nat /\ place.block \in Nat
  BY LengthsAreNumbers DEF RowsInv, RowTypes, Places, VectorNames, TxHs, Images
<1>2. QED
  BY <1>1, RowsAreBounded DEF OutsOf, ImagesOf, RingsOf, TxsOf

\* NumbersInv is inductive relative to RowsInv: a lemma for each action.
LEMMA OutputRowsCounts ==
    ASSUME RowsInv, NumbersInv, NEW k \in PublicKeys, OutputRows(k)
    PROVE  NumbersInv'
<1> DEFINE r == insertSAIndex(<<last.transaction, last.stealthAddress, last.output, last.block>>)
<1>0. RowTypes /\ Counted
  BY DEF RowsInv
<1>1. /\ loop = "outputs" /\ loop' = "outputs" /\ shape' = shape
      /\ place' = [place EXCEPT !.output = @ + 1]
      /\ last' = [last EXCEPT !.stealthAddress = @ + 1, !.output = @ + 1]
  BY DEF OutputRows
<1>2. /\ place'.output = place.output + 1 /\ place'.block = place.block /\ place'.tx = place.tx
      /\ place'.input = place.input /\ place'.mixin = place.mixin
  BY <1>0, <1>1 DEF RowTypes, Places
<1>3. /\ last'.transaction = last.transaction /\ last'.keyImage = last.keyImage
      /\ last'.block = last.block
  BY <1>0, <1>1 DEF RowTypes, LastIds
<1>4. /\ Extends(OutIs, OutIs', <<last.transaction, last.stealthAddress, last.output, last.block>>)
      /\ UNCHANGED <<blockRows, txRows, imageRows, ringRows>>
  BY <1>0, OutputRowsPush DEF RowTypes
<1>5. Txs' = Txs /\ TxIs' = TxIs /\ Images' = Images /\ RingIs' = RingIs /\ Blocks' = Blocks
  BY <1>4 DEF blockRows, txRows, imageRows, ringRows
<1>6. SA_INDEX' = SA_INDEX \cup {r} /\ IsFiniteSet(SA_INDEX)
  BY <1>0, <1>4, IndexesGrow DEF NumbersInv, TablesFinite
<1>7. r.DATA_ID = last.output /\ r.TX_ID = last.transaction
  BY DEF insertSAIndex
<1>8. r \notin SA_INDEX
  <2>1. last.output \in Nat /\ Len(Outs) = last.output - 1
    BY <1>0 DEF RowTypes, LastIds, Counted, OutsCounted
  <2>2. last.output \notin 1 .. Len(Outs)
    BY <2>1
  <2>3. QED
    BY <1>7, <2>2, RowsAreBounded
<1> HIDE DEF r
<1>17. PICK tx \in Nat : tx = last.transaction
  BY <1>0 DEF RowTypes, LastIds
<1>9. OutsOf(tx)' = OutsOf(tx) \cup {r} /\ \A t : t # tx => OutsOf(t)' = OutsOf(t)
  BY <1>6, <1>7, <1>17 DEF OutsOf
<1>10. Cardinality(OutsOf(tx)') = Cardinality(OutsOf(tx)) + 1 /\ IsFiniteSet(SA_INDEX')
  <2>1. OutsOf(tx) \in SUBSET SA_INDEX
    BY DEF OutsOf
  <2>2. /\ IsFiniteSet(SA_INDEX \cup {r})
        /\ Cardinality(OutsOf(tx) \cup {r}) = Cardinality(OutsOf(tx)) + 1
    BY <1>6, <1>8, <2>1, OneJoins
  <2>3. QED
    BY <1>6, <1>9, <2>2
<1>11. TablesFinite'
  BY <1>5, <1>10, IndexesStay DEF NumbersInv, TablesFinite
<1>12. \A t : ImagesOf(t)' = ImagesOf(t) /\ RingsOf(t)' = RingsOf(t) /\ TxsOf(t)' = TxsOf(t)
  BY <1>5, NumbersStay
<1>13. TxNumbers'
  <2>1. InTx /\ \A n \in 1 .. Len(Txs) : n # tx
    BY <1>0, <1>1, <1>17 DEF InTx, Counted, TxsCounted
  <2>2. Cardinality(OutsOf(tx)') = place'.output /\ Cardinality(ImagesOf(tx)') = place'.input
    <3>1. Cardinality(OutsOf(tx)) = place.output /\ Cardinality(ImagesOf(tx)) = place.input
      BY <1>17, <2>1 DEF NumbersInv, TxNumbers
    <3>2. QED
      BY <1>2, <1>10, <1>12, <3>1
  <2>3. \A n \in 1 .. Len(Txs) : /\ Txs[n].outputs_no = Cardinality(OutsOf(n)')
                                 /\ Txs[n].inputs_no = Cardinality(ImagesOf(n)')
    BY <1>9, <1>12, <2>1 DEF NumbersInv, TxNumbers
  <2>4. last'.transaction = tx
    BY <1>3, <1>17
  <2>5. QED
    BY <1>5, <2>2, <2>3, <2>4 DEF TxNumbers
<1>14. ImageNumbers'
  BY <1>1, <1>2, <1>3, <1>5, <1>12 DEF NumbersInv, ImageNumbers
<1>15. BlockNumbers'
  BY <1>1, <1>2, <1>3, <1>5, <1>12 DEF NumbersInv, BlockNumbers, InTx
<1>16. QED
  BY <1>11, <1>13, <1>14, <1>15 DEF NumbersInv

LEMMA KeyImageRowsCounts ==
    ASSUME RowsInv, NumbersInv, KeyImageRows
    PROVE  NumbersInv'
<1>0. RowTypes /\ Counted
  BY DEF RowsInv
<1>1. /\ loop = "outputs" /\ loop' = "mixins" /\ shape' = shape /\ last' = last
      /\ place' = [place EXCEPT !.input = @ + 1, !.mixin = 0]
  BY DEF KeyImageRows
<1>2. /\ place.input \in Nat
      /\ place'.block = place.block /\ place'.tx = place.tx /\ place'.output = place.output
      /\ place'.input = place.input + 1 /\ place'.mixin = 0
  <2>1. place \in Places
    BY <1>0 DEF RowTypes
  <2>2. place' = [block |-> place.block, tx |-> place.tx, output |-> place.output,
                  input |-> place.input + 1, mixin |-> 0]
    BY <1>1, <2>1 DEF Places
  <2>3. QED
    BY <2>1, <2>2 DEF Places
<1>3. PICK tx \in Nat : tx = last.transaction
  BY <1>0 DEF RowTypes, LastIds
<1>4. PICK new \in Nat : new = last.keyImage /\ new >= 1 /\ Len(Images) = new - 1
  BY <1>0, <1>1 DEF RowTypes, LastIds, Counted, ImagesCounted
<1>5. PICK line : line = <<last.keyImage, Append(ThisTx, place.input + 1), last.block, last.transaction,
                          Len(Append(ThisTx, place.input + 1)), place.input, shape.rings[place.input + 1]>>
  OBVIOUS
<1>6. Extends(Images, Images', line) /\ UNCHANGED <<blockRows, txRows, outRows, ringRows>>
  BY <1>0, <1>5, KeyImageRowsPush DEF RowTypes
<1>7. Txs' = Txs /\ TxIs' = TxIs /\ OutIs' = OutIs /\ RingIs' = RingIs /\ Blocks' = Blocks
  BY <1>6 DEF blockRows, txRows, outRows, ringRows
<1>8. PICK r : r = insertKIData(line)
  OBVIOUS
<1>9. KI_DATA' = KI_DATA \cup {r} /\ IsFiniteSet(KI_DATA)
  BY <1>0, <1>6, <1>8, IndexesGrow DEF NumbersInv, TablesFinite
<1>10. r.DATA_ID = new /\ r.TX_ID = tx
  BY <1>3, <1>4, <1>5, <1>8 DEF insertKIData
<1>11. r \notin KI_DATA
  <2>1. new \notin 1 .. Len(Images)
    BY <1>4
  <2>2. QED
    BY <1>10, <2>1, RowsAreBounded
<1>12. ImagesOf(tx)' = ImagesOf(tx) \cup {r} /\ \A t : t # tx => ImagesOf(t)' = ImagesOf(t)
  BY <1>9, <1>10 DEF ImagesOf
<1>13. Cardinality(ImagesOf(tx)') = Cardinality(ImagesOf(tx)) + 1 /\ IsFiniteSet(KI_DATA')
  <2>1. ImagesOf(tx) \in SUBSET KI_DATA
    BY DEF ImagesOf
  <2>2. /\ IsFiniteSet(KI_DATA \cup {r})
        /\ Cardinality(ImagesOf(tx) \cup {r}) = Cardinality(ImagesOf(tx)) + 1
    BY <1>9, <1>11, <2>1, OneJoins
  <2>3. QED
    BY <1>9, <1>12, <2>2
<1>14. TablesFinite'
  BY <1>7, <1>13, IndexesStay DEF NumbersInv, TablesFinite
<1>15. \A t : OutsOf(t)' = OutsOf(t) /\ RingsOf(t)' = RingsOf(t) /\ TxsOf(t)' = TxsOf(t)
  BY <1>7, NumbersStay
<1>16. TxNumbers'
  <2>1. InTx /\ \A n \in 1 .. Len(Txs) : n # tx
    BY <1>0, <1>1, <1>3 DEF InTx, Counted, TxsCounted
  <2>2. Cardinality(OutsOf(tx)') = place'.output /\ Cardinality(ImagesOf(tx)') = place'.input
    <3>1. Cardinality(OutsOf(tx)) = place.output /\ Cardinality(ImagesOf(tx)) = place.input
      BY <1>3, <2>1 DEF NumbersInv, TxNumbers
    <3>2. QED
      BY <1>2, <1>13, <1>15, <3>1
  <2>3. \A n \in 1 .. Len(Txs) : /\ Txs[n].outputs_no = Cardinality(OutsOf(n)')
                                 /\ Txs[n].inputs_no = Cardinality(ImagesOf(n)')
    BY <1>12, <1>15, <2>1 DEF NumbersInv, TxNumbers
  <2>4. last'.transaction = tx
    BY <1>1, <1>3
  <2>5. QED
    BY <1>7, <2>2, <2>3, <2>4 DEF TxNumbers
<1>17. ImageNumbers'
  <2>1. /\ Len(Images') = new /\ Images'[new] = line
        /\ \A n \in 1 .. new - 1 : Images'[n] = Images[n]
    BY <1>4, <1>6 DEF Extends
  <2>2. line[7] = shape.rings[place.input + 1]
    BY <1>5
  <2>3. RingsOf(new) = {} /\ Cardinality(RingsOf(new)') = 0
    BY <1>4, <1>15, NoneOf, FS_EmptySet
  <2>4. \A n \in 1 .. new - 1 : Images'[n][7] = Cardinality(RingsOf(n)')
    BY <1>4, <1>15, <2>1 DEF NumbersInv, ImageNumbers
  <2>5. last'.keyImage = new /\ \A n \in 1 .. new : n < new => n \in 1 .. new - 1
    BY <1>1, <1>4
  <2>6. QED
    BY <1>1, <1>2, <2>1, <2>2, <2>3, <2>4, <2>5 DEF ImageNumbers
<1>18. BlockNumbers'
  BY <1>1, <1>2, <1>7, <1>15 DEF NumbersInv, BlockNumbers, InTx
<1>19. QED
  BY <1>14, <1>16, <1>17, <1>18 DEF NumbersInv

LEMMA RingMemberRowsCounts ==
    ASSUME RowsInv, NumbersInv, NEW k \in PublicKeys, NEW missed \in BOOLEAN, RingMemberRows(k, missed)
    PROVE  NumbersInv'
<1>0. RowTypes /\ Counted
  BY DEF RowsInv
<1>1. /\ loop = "mixins" /\ loop' = "mixins" /\ shape' = shape
      /\ place' = [place EXCEPT !.mixin = @ + 1]
      /\ last' = [last EXCEPT !.input = @ + 1,
                              !.ringMember = IF k \in DOMAIN ringIds THEN @ ELSE @ + 1]
  BY DEF RingMemberRows
<1>2. /\ place'.block = place.block /\ place'.tx = place.tx /\ place'.output = place.output
      /\ place'.input = place.input /\ place'.mixin = place.mixin + 1
  BY <1>0, <1>1 DEF RowTypes, Places
<1>3. /\ last'.transaction = last.transaction /\ last'.keyImage = last.keyImage
      /\ last'.block = last.block
  BY <1>0, <1>1 DEF RowTypes, LastIds
<1>4. PICK new \in Nat : new = last.input /\ Len(Rings) = new - 1
  BY <1>0 DEF RowTypes, LastIds, Counted, RingsCounted
<1>5. PICK top \in Nat : top = last.keyImage
  BY <1>0 DEF RowTypes, LastIds
<1>6. PICK line : line = <<last.input, last.transaction, last.keyImage, IdOfMember(k, missed), last.block>>
  OBVIOUS
<1>7. Extends(RingIs, RingIs', line) /\ UNCHANGED <<blockRows, txRows, outRows, imageRows>>
  BY <1>0, <1>6, RingMemberRowsPush DEF RowTypes
<1>8. Txs' = Txs /\ TxIs' = TxIs /\ OutIs' = OutIs /\ Images' = Images /\ Blocks' = Blocks
  BY <1>7 DEF blockRows, txRows, outRows, imageRows
<1>9. PICK r : r = insertRMIndex(line)
  OBVIOUS
<1>10. RM_INDEX' = RM_INDEX \cup {r} /\ IsFiniteSet(RM_INDEX)
  BY <1>0, <1>7, <1>9, IndexesGrow DEF NumbersInv, TablesFinite
<1>11. r.DATA_ID = new /\ r.KEY_IMAGE = top
  BY <1>4, <1>5, <1>6, <1>9 DEF insertRMIndex
<1>12. r \notin RM_INDEX
  <2>1. new \notin 1 .. Len(Rings)
    BY <1>4
  <2>2. QED
    BY <1>11, <2>1, RowsAreBounded
<1>13. RingsOf(top)' = RingsOf(top) \cup {r} /\ \A i : i # top => RingsOf(i)' = RingsOf(i)
  BY <1>10, <1>11 DEF RingsOf
<1>14. Cardinality(RingsOf(top)') = Cardinality(RingsOf(top)) + 1 /\ IsFiniteSet(RM_INDEX')
  <2>1. RingsOf(top) \in SUBSET RM_INDEX
    BY DEF RingsOf
  <2>2. /\ IsFiniteSet(RM_INDEX \cup {r})
        /\ Cardinality(RingsOf(top) \cup {r}) = Cardinality(RingsOf(top)) + 1
    BY <1>10, <1>12, <2>1, OneJoins
  <2>3. QED
    BY <1>10, <1>13, <2>2
<1>15. TablesFinite'
  BY <1>8, <1>14, IndexesStay DEF NumbersInv, TablesFinite
<1>16. \A t : OutsOf(t)' = OutsOf(t) /\ ImagesOf(t)' = ImagesOf(t) /\ TxsOf(t)' = TxsOf(t)
  BY <1>8, NumbersStay
<1>17. TxNumbers'
  <2>1. PICK tx : tx = last.transaction
    OBVIOUS
  <2>2. InTx
    BY <1>1 DEF InTx
  <2>3. /\ Cardinality(OutsOf(tx)') = place'.output /\ Cardinality(ImagesOf(tx)') = place'.input
    BY <1>2, <1>16, <2>1, <2>2 DEF NumbersInv, TxNumbers
  <2>4. \A n \in 1 .. Len(Txs) : /\ Txs[n].outputs_no = Cardinality(OutsOf(n)')
                                 /\ Txs[n].inputs_no = Cardinality(ImagesOf(n)')
    BY <1>16 DEF NumbersInv, TxNumbers
  <2>5. last'.transaction = tx
    BY <1>3, <2>1
  <2>6. QED
    BY <1>8, <2>3, <2>4, <2>5 DEF TxNumbers
<1>18. ImageNumbers'
  <2>1. Images[top][7] = shape.rings[place.input] /\ Cardinality(RingsOf(top)) = place.mixin
    BY <1>1, <1>5 DEF NumbersInv, ImageNumbers
  <2>2. \A n \in 1 .. Len(Images) : n < top => Images[n][7] = Cardinality(RingsOf(n)')
    BY <1>5, <1>13 DEF NumbersInv, ImageNumbers
  <2>3. last'.keyImage = top
    BY <1>3, <1>5
  <2>4. QED
    BY <1>1, <1>2, <1>8, <1>14, <2>1, <2>2, <2>3 DEF ImageNumbers
<1>19. BlockNumbers'
  BY <1>1, <1>2, <1>3, <1>8, <1>16 DEF NumbersInv, BlockNumbers, InTx
<1>20. QED
  BY <1>15, <1>17, <1>18, <1>19 DEF NumbersInv

LEMMA TxRowsCounts ==
    ASSUME RowsInv, NumbersInv, TxRows
    PROVE  NumbersInv'
<1>0. RowTypes /\ Counted
  BY DEF RowsInv
<1>1. /\ loop = "outputs" /\ loop' = "txs" /\ place' = place /\ shape' = shape
      /\ last' = [last EXCEPT !.transaction = @ + 1]
      /\ place.output = shape.outputs /\ place.input = Len(shape.rings)
  BY DEF TxRows
<1>2. last'.keyImage = last.keyImage /\ last'.block = last.block
  BY <1>0, <1>1 DEF RowTypes, LastIds
<1>3. PICK tx \in Nat : tx = last.transaction /\ tx >= 1 /\ Len(Txs) = tx - 1
  BY <1>0 DEF RowTypes, LastIds, Counted, TxsCounted
<1>4. PICK b \in Nat : b = place.block /\ b = last.block
  BY <1>0, <1>1 DEF RowTypes, Places, Counted, BlocksCounted
<1>5. PICK data, index : /\ data = [lastTxId |-> last.transaction, inputs_no |-> Len(shape.rings),
                                    outputs_no |-> shape.outputs, of |-> ThisTx]
                         /\ index = <<last.transaction, last.block, last.transaction>>
  OBVIOUS
<1>6. /\ Extends(Txs, Txs', data) /\ Extends(TxIs, TxIs', index)
      /\ UNCHANGED <<blockRows, outRows, imageRows, ringRows>>
  BY <1>0, <1>5, TxRowsPush DEF RowTypes
<1>7. OutIs' = OutIs /\ Images' = Images /\ RingIs' = RingIs /\ Blocks' = Blocks
  BY <1>6 DEF blockRows, outRows, imageRows, ringRows
<1>8. PICK r : r = insertTxIndex(index)
  OBVIOUS
<1>9. TX_INDEX' = TX_INDEX \cup {r} /\ IsFiniteSet(TX_INDEX)
  BY <1>0, <1>6, <1>8, IndexesGrow DEF NumbersInv, TablesFinite
<1>10. r.DATA_ID = tx /\ r.BLOCK_ID = b
  BY <1>3, <1>4, <1>5, <1>8 DEF insertTxIndex
<1>11. r \notin TX_INDEX
  <2>1. tx \notin 1 .. Len(Txs)
    BY <1>3
  <2>2. QED
    BY <1>10, <2>1, RowsAreBounded
<1>12. TxsOf(b)' = TxsOf(b) \cup {r} /\ \A i : i # b => TxsOf(i)' = TxsOf(i)
  BY <1>9, <1>10 DEF TxsOf
<1>13. Cardinality(TxsOf(b)') = Cardinality(TxsOf(b)) + 1 /\ IsFiniteSet(TX_INDEX')
  <2>1. TxsOf(b) \in SUBSET TX_INDEX
    BY DEF TxsOf
  <2>2. /\ IsFiniteSet(TX_INDEX \cup {r})
        /\ Cardinality(TxsOf(b) \cup {r}) = Cardinality(TxsOf(b)) + 1
    BY <1>9, <1>11, <2>1, OneJoins
  <2>3. QED
    BY <1>9, <1>12, <2>2
<1>14. TablesFinite'
  BY <1>7, <1>13, IndexesStay DEF NumbersInv, TablesFinite
<1>15. \A t : OutsOf(t)' = OutsOf(t) /\ ImagesOf(t)' = ImagesOf(t) /\ RingsOf(t)' = RingsOf(t)
  BY <1>7, NumbersStay
<1>16. TxNumbers'
  <2>1. InTx /\ ~InTx'
    BY <1>1 DEF InTx
  <2>2. /\ Len(Txs') = tx /\ Txs'[tx] = data /\ \A n \in 1 .. tx - 1 : Txs'[n] = Txs[n]
    BY <1>3, <1>6 DEF Extends
  <2>3. data.outputs_no = Cardinality(OutsOf(tx)') /\ data.inputs_no = Cardinality(ImagesOf(tx)')
    BY <1>1, <1>3, <1>5, <1>15, <2>1 DEF NumbersInv, TxNumbers
  <2>4. \A n \in 1 .. tx - 1 : /\ Txs'[n].outputs_no = Cardinality(OutsOf(n)')
                               /\ Txs'[n].inputs_no = Cardinality(ImagesOf(n)')
    BY <1>3, <1>15, <2>2 DEF NumbersInv, TxNumbers
  <2>5. \A n \in 1 .. tx : n = tx \/ n \in 1 .. tx - 1
    BY <1>3
  <2>6. QED
    BY <2>1, <2>2, <2>3, <2>4, <2>5 DEF TxNumbers
<1>17. ImageNumbers'
  BY <1>1, <1>2, <1>7, <1>15 DEF NumbersInv, ImageNumbers
<1>18. BlockNumbers'
  <2>1. InTx /\ ~InTx' /\ loop # "blocks" /\ loop' # "blocks"
    BY <1>1 DEF InTx
  <2>2. Blocks[b].txCount = shape.txs /\ Cardinality(TxsOf(b)) = place.tx - 1 /\ place.tx >= 1
    BY <1>4, <2>1 DEF NumbersInv, BlockNumbers
  <2>3. place.tx \in Nat
    BY <1>0 DEF RowTypes, Places
  <2>4. Cardinality(TxsOf(b)') = place.tx
    BY <1>13, <2>2, <2>3
  <2>5. \A n \in 1 .. Len(Blocks) : n < b => Blocks[n].txCount = Cardinality(TxsOf(n)')
    BY <1>4, <1>12 DEF NumbersInv, BlockNumbers
  <2>6. last'.block = b /\ place'.block = b /\ place'.tx = place.tx
    BY <1>1, <1>2, <1>4
  <2>7. QED
    BY <1>1, <1>7, <2>1, <2>2, <2>4, <2>5, <2>6 DEF BlockNumbers
<1>19. QED
  BY <1>14, <1>16, <1>17, <1>18 DEF NumbersInv

LEMMA TxHashCounts ==
    ASSUME RowsInv, NumbersInv, TxHash
    PROVE  NumbersInv'
<1>0. RowTypes /\ Counted
  BY DEF RowsInv
<1>1. /\ loop = "txs" /\ loop' = "outputs" /\ last' = last
      /\ place' = [place EXCEPT !.tx = @ + 1, !.output = 0, !.input = 0, !.mixin = 0]
  BY DEF TxHash
<1>2. shape'.txs = shape.txs
  <2>1. \E n, i : shape' = [shape EXCEPT !.outputs = n, !.rings = i]
    BY DEF TxHash
  <2>2. QED
    BY <1>0, <2>1 DEF RowTypes, Shapes
<1>3. /\ place'.block = place.block /\ place'.tx = place.tx + 1 /\ place'.output = 0
      /\ place'.input = 0 /\ place.tx \in Nat
  <2>1. place \in Places
    BY <1>0 DEF RowTypes
  <2>2. place' = [block |-> place.block, tx |-> place.tx + 1, output |-> 0, input |-> 0, mixin |-> 0]
    BY <1>1, <2>1 DEF Places
  <2>3. QED
    BY <2>1, <2>2 DEF Places
<1>4. PICK tx \in Nat : tx = last.transaction /\ tx >= 1 /\ Len(TxHs) = tx - 1
  BY <1>0, <1>1 DEF RowTypes, LastIds, Counted, TxsCounted, InTx
<1>5. UNCHANGED <<Txs, TxIs, blockRows, outRows, imageRows, ringRows>>
  BY <1>0, TxHashPush DEF RowTypes
<1>6. /\ Txs' = Txs /\ TxIs' = TxIs /\ OutIs' = OutIs /\ Images' = Images /\ RingIs' = RingIs
      /\ Blocks' = Blocks
  BY <1>5 DEF blockRows, outRows, imageRows, ringRows
<1>7. \A t : /\ OutsOf(t)' = OutsOf(t) /\ ImagesOf(t)' = ImagesOf(t) /\ RingsOf(t)' = RingsOf(t)
             /\ TxsOf(t)' = TxsOf(t)
  BY <1>6, NumbersStay
<1>8. TablesFinite'
  BY <1>6, IndexesStay DEF NumbersInv, TablesFinite
<1>9. TxNumbers'
  <2>1. Cardinality(OutsOf(tx)') = 0 /\ Cardinality(ImagesOf(tx)') = 0
    <3>1. tx > Len(TxHs)
      BY <1>4
    <3>2. OutsOf(tx) = {} /\ ImagesOf(tx) = {}
      BY <1>4, <3>1, NoneOf
    <3>3. QED
      BY <1>7, <3>2, FS_EmptySet
  <2>2. \A n \in 1 .. Len(Txs) : /\ Txs[n].outputs_no = Cardinality(OutsOf(n)')
                                 /\ Txs[n].inputs_no = Cardinality(ImagesOf(n)')
    BY <1>7 DEF NumbersInv, TxNumbers
  <2>3. last'.transaction = tx
    BY <1>1, <1>4
  <2>4. QED
    BY <1>3, <1>6, <2>1, <2>2, <2>3 DEF TxNumbers
<1>10. ImageNumbers'
  BY <1>1, <1>6, <1>7 DEF NumbersInv, ImageNumbers
<1>11. BlockNumbers'
  <2>1. PICK b : b = place.block
    OBVIOUS
  <2>2. ~InTx /\ InTx' /\ loop # "blocks" /\ loop' # "blocks"
    BY <1>1 DEF InTx
  <2>3. Blocks[b].txCount = shape.txs /\ Cardinality(TxsOf(b)') = place.tx
    BY <1>7, <2>1, <2>2 DEF NumbersInv, BlockNumbers
  <2>4. \A n \in 1 .. Len(Blocks) : n < last.block => Blocks[n].txCount = Cardinality(TxsOf(n)')
    BY <1>7 DEF NumbersInv, BlockNumbers
  <2>5. place.tx = place'.tx - 1 /\ place'.tx >= 1 /\ place'.block = b
    BY <1>3, <2>1
  <2>6. QED
    BY <1>1, <1>2, <1>6, <2>2, <2>3, <2>4, <2>5 DEF BlockNumbers
<1>12. QED
  BY <1>8, <1>9, <1>10, <1>11 DEF NumbersInv

LEMMA BlockRowsCounts ==
    ASSUME RowsInv, NumbersInv, BlockRows
    PROVE  NumbersInv'
<1>0. RowTypes /\ Counted
  BY DEF RowsInv
<1>1. /\ loop = "blocks" /\ loop' = "txs" /\ last' = last
      /\ place' = [block |-> place.block + 1, tx |-> 0, output |-> 0, input |-> 0, mixin |-> 0]
  BY DEF BlockRows
<1>2. PICK b \in Nat : b = last.block /\ b = place.block + 1 /\ Len(Blocks) = b - 1 /\ place.block \in Nat
  BY <1>0, <1>1 DEF RowTypes, Places, Counted, BlocksCounted
<1>3. PICK line : line = [lastBlockId |-> last.block, txCount |-> shape'.txs, of |-> <<place.block + 1>>]
  OBVIOUS
<1>4. Extends(Blocks, Blocks', line) /\ UNCHANGED <<txRows, outRows, imageRows, ringRows>>
  BY <1>0, <1>3, BlockRowsPush DEF RowTypes
<1>5. Txs' = Txs /\ TxIs' = TxIs /\ OutIs' = OutIs /\ Images' = Images /\ RingIs' = RingIs
  BY <1>4 DEF txRows, outRows, imageRows, ringRows
<1>6. \A t : /\ OutsOf(t)' = OutsOf(t) /\ ImagesOf(t)' = ImagesOf(t) /\ RingsOf(t)' = RingsOf(t)
             /\ TxsOf(t)' = TxsOf(t)
  BY <1>5, NumbersStay
<1>7. TablesFinite'
  BY <1>5, IndexesStay DEF NumbersInv, TablesFinite
<1>8. ~InTx /\ ~InTx' /\ loop' # "mixins" /\ loop' # "blocks"
  BY <1>1 DEF InTx
<1>9. TxNumbers'
  BY <1>5, <1>6, <1>8 DEF NumbersInv, TxNumbers
<1>10. ImageNumbers'
  BY <1>1, <1>5, <1>6, <1>8 DEF NumbersInv, ImageNumbers
<1>11. BlockNumbers'
  <2>1. /\ Len(Blocks') = b /\ Blocks'[b] = line /\ \A n \in 1 .. b - 1 : Blocks'[n] = Blocks[n]
    BY <1>2, <1>4 DEF Extends
  <2>2. line.txCount = shape'.txs
    BY <1>3
  <2>3. Cardinality(TxsOf(b)') = 0
    BY <1>2, <1>6, NoneOf, FS_EmptySet
  <2>4. \A n \in 1 .. b - 1 : Blocks'[n].txCount = Cardinality(TxsOf(n)')
    BY <1>2, <1>6, <2>1 DEF NumbersInv, BlockNumbers
  <2>5. \A n \in 1 .. b : n < b => n \in 1 .. b - 1
    BY <1>2
  <2>6. place'.block = b /\ place'.tx = 0 /\ last'.block = b
    BY <1>1, <1>2
  <2>7. QED
    BY <1>8, <2>1, <2>2, <2>3, <2>4, <2>5, <2>6 DEF BlockNumbers
<1>12. QED
  BY <1>7, <1>9, <1>10, <1>11 DEF NumbersInv

LEMMA TablesKept ==
    ASSUME NumbersInv, UNCHANGED vectors
    PROVE  /\ TablesFinite'
           /\ Txs' = Txs /\ Images' = Images /\ Blocks' = Blocks
           /\ \A t : /\ OutsOf(t)' = OutsOf(t) /\ ImagesOf(t)' = ImagesOf(t) /\ RingsOf(t)' = RingsOf(t)
                     /\ TxsOf(t)' = TxsOf(t)
<1>1. /\ Txs' = Txs /\ Images' = Images /\ Blocks' = Blocks
      /\ TxIs' = TxIs /\ OutIs' = OutIs /\ RingIs' = RingIs
  BY DEF Txs, Images, Blocks, TxIs, OutIs, RingIs
<1>2. QED
  BY <1>1, NumbersStay, IndexesStay DEF NumbersInv, TablesFinite

LEMMA InputDoneCounts ==
    ASSUME RowsInv, NumbersInv, InputDone
    PROVE  NumbersInv'
<1>0. RowTypes /\ Counted
  BY DEF RowsInv
<1>1. /\ loop = "mixins" /\ loop' = "outputs" /\ last' = [last EXCEPT !.keyImage = @ + 1]
      /\ place' = place /\ shape' = shape /\ vectors' = vectors
      /\ place.mixin = shape.rings[place.input]
  BY DEF InputDone
<1>2. last'.transaction = last.transaction /\ last'.block = last.block
  BY <1>0, <1>1 DEF RowTypes, LastIds
<1>3. PICK top \in Nat : top = last.keyImage /\ Len(Images) = top
  BY <1>0, <1>1 DEF RowTypes, LastIds, Counted, ImagesCounted
<1>4. last'.keyImage = top + 1
  BY <1>0, <1>1, <1>3 DEF RowTypes, LastIds
<1>5. /\ TablesFinite' /\ Txs' = Txs /\ Images' = Images /\ Blocks' = Blocks
      /\ \A t : /\ OutsOf(t)' = OutsOf(t) /\ ImagesOf(t)' = ImagesOf(t) /\ RingsOf(t)' = RingsOf(t)
                /\ TxsOf(t)' = TxsOf(t)
  BY <1>1, TablesKept
<1>6. InTx /\ InTx' /\ loop' # "mixins"
  BY <1>1 DEF InTx
<1>7. TxNumbers'
  <2>1. PICK tx : tx = last.transaction /\ tx = last'.transaction
    BY <1>2
  <2>2. /\ Cardinality(OutsOf(tx)') = place.output /\ Cardinality(ImagesOf(tx)') = place.input
        /\ \A n \in 1 .. Len(Txs) : /\ Txs[n].outputs_no = Cardinality(OutsOf(n)')
                                    /\ Txs[n].inputs_no = Cardinality(ImagesOf(n)')
    BY <1>5, <1>6, <2>1 DEF NumbersInv, TxNumbers
  <2>3. QED
    BY <1>1, <1>5, <2>1, <2>2 DEF TxNumbers
<1>8. ImageNumbers'
  <2>1. Images[top][7] = Cardinality(RingsOf(top)')
    BY <1>1, <1>3, <1>5 DEF NumbersInv, ImageNumbers
  <2>2. \A n \in 1 .. top : n < top => Images[n][7] = Cardinality(RingsOf(n)')
    BY <1>3, <1>5 DEF NumbersInv, ImageNumbers
  <2>3. \A n \in 1 .. top : n = top \/ n < top
    BY <1>3
  <2>4. QED
    BY <1>3, <1>5, <1>6, <2>1, <2>2, <2>3 DEF ImageNumbers
<1>9. BlockNumbers'
  BY <1>1, <1>2, <1>5, <1>6 DEF NumbersInv, BlockNumbers
<1>10. QED
  BY <1>5, <1>7, <1>8, <1>9 DEF NumbersInv

LEMMA BlockDoneCounts ==
    ASSUME RowsInv, NumbersInv, BlockDone
    PROVE  NumbersInv'
<1>0. RowTypes /\ Counted
  BY DEF RowsInv
<1>1. /\ loop = "txs" /\ loop' = "blocks" /\ last' = [last EXCEPT !.block = @ + 1]
      /\ place' = place /\ shape' = shape /\ vectors' = vectors
      /\ place.tx = shape.txs
  BY DEF BlockDone
<1>2. last'.transaction = last.transaction /\ last'.keyImage = last.keyImage
  BY <1>0, <1>1 DEF RowTypes, LastIds
<1>3. PICK b \in Nat : b = last.block /\ b = place.block /\ Len(Blocks) = b
  BY <1>0, <1>1 DEF RowTypes, LastIds, Counted, BlocksCounted
<1>4. last'.block = b + 1
  BY <1>0, <1>1, <1>3 DEF RowTypes, LastIds
<1>5. /\ TablesFinite' /\ Txs' = Txs /\ Images' = Images /\ Blocks' = Blocks
      /\ \A t : /\ OutsOf(t)' = OutsOf(t) /\ ImagesOf(t)' = ImagesOf(t) /\ RingsOf(t)' = RingsOf(t)
                /\ TxsOf(t)' = TxsOf(t)
  BY <1>1, TablesKept
<1>6. ~InTx /\ ~InTx' /\ loop' # "mixins"
  BY <1>1 DEF InTx
<1>7. TxNumbers'
  BY <1>5, <1>6 DEF NumbersInv, TxNumbers
<1>8. ImageNumbers'
  BY <1>1, <1>2, <1>5, <1>6 DEF NumbersInv, ImageNumbers
<1>9. BlockNumbers'
  <2>1. Blocks[b].txCount = Cardinality(TxsOf(b)')
    BY <1>1, <1>3, <1>5, <1>6 DEF NumbersInv, BlockNumbers
  <2>2. \A n \in 1 .. b : n < b => Blocks[n].txCount = Cardinality(TxsOf(n)')
    BY <1>3, <1>5 DEF NumbersInv, BlockNumbers
  <2>3. \A n \in 1 .. b : n = b \/ n < b
    BY <1>3
  <2>4. QED
    BY <1>1, <1>3, <1>5, <1>6, <2>1, <2>2, <2>3 DEF BlockNumbers
<1>10. QED
  BY <1>5, <1>7, <1>8, <1>9 DEF NumbersInv

LEMMA NumbersStart ==
    ASSUME RowsInit
    PROVE  NumbersInv
<1>1. RowsInv /\ loop = "blocks" /\ ~InTx /\ loop # "mixins"
  BY RowsStart DEF RowsInit, InTx
<1>2. /\ Len(Blocks) = 0 /\ Len(Txs) = 0 /\ Len(Outs) = 0 /\ Len(Images) = 0 /\ Len(Rings) = 0
  BY <1>1 DEF RowsInit, RowsInv, Counted, BlocksCounted, TxsCounted, OutsCounted, ImagesCounted,
     RingsCounted
<1>3. SA_INDEX = {} /\ KI_DATA = {} /\ RM_INDEX = {} /\ TX_INDEX = {}
  BY <1>1, <1>2, OutTables, ImageTables, RingTables, TxTables
<1>4. TablesFinite
  BY <1>3, FS_EmptySet DEF TablesFinite
<1>5. TxNumbers /\ ImageNumbers /\ BlockNumbers
  BY <1>1, <1>2 DEF TxNumbers, ImageNumbers, BlockNumbers
<1>6. QED
  BY <1>4, <1>5 DEF NumbersInv

LEMMA RowsStep ==
    ASSUME RowsInv, NumbersInv, [RowsNext]_rowsVars
    PROVE  RowsInv' /\ NumbersInv'
<1>1. CASE BlockRows
  BY <1>1, BlockRowsKeeps, BlockRowsCounts
<1>2. CASE TxHash
  BY <1>2, TxHashKeeps, TxHashCounts
<1>3. CASE \E k \in PublicKeys : OutputRows(k)
  BY <1>3, OutputRowsKeeps, OutputRowsCounts
<1>4. CASE KeyImageRows
  BY <1>4, KeyImageRowsKeeps, KeyImageRowsCounts
<1>5. CASE \E k \in PublicKeys, missed \in BOOLEAN : RingMemberRows(k, missed)
  BY <1>5, RingMemberRowsKeeps, RingMemberRowsCounts
<1>6. CASE InputDone
  BY <1>6, InputDoneKeeps, InputDoneCounts
<1>7. CASE TxRows
  BY <1>7, TxRowsKeeps, TxRowsCounts
<1>8. CASE BlockDone
  BY <1>8, BlockDoneKeeps, BlockDoneCounts
<1>9. CASE UNCHANGED rowsVars
  <2>1. /\ last' = last /\ loop' = loop /\ place' = place /\ shape' = shape /\ vectors' = vectors
        /\ ringIds' = ringIds
    BY <1>9 DEF rowsVars
  <2>2. /\ UNCHANGED <<blockRows, txRows, outRows, imageRows, ringRows>>
        /\ TxHs' = TxHs /\ Images' = Images /\ VectorsTyped' = VectorsTyped /\ InTx' = InTx
    BY <2>1 DEF blockRows, txRows, outRows, imageRows, ringRows, BlockHs, Blocks, BlockIs,
       TxHs, Txs, TxIs, OutHs, Outs, OutIs, ImageHs, Images, Rings, RingIs, VectorsTyped, InTx
  <2>3. RowTypes' /\ Counted'
    BY <2>1, <2>2 DEF RowsInv, RowTypes, Counted, BlocksCounted, TxsCounted, OutsCounted,
       ImagesCounted, RingsCounted, blockRows, txRows, outRows, imageRows, ringRows
  <2>4. Len(TxHs) \in Nat /\ Len(Images) \in Nat
    BY LengthsAreNumbers DEF RowsInv, VectorNames, TxHs, Images
  <2>5. /\ BlockRowsRight' /\ TxHashesRight' /\ TxRowsRight' /\ OutRowsRight' /\ RingRowsRight'
        /\ ImageRowsRight'
    BY <2>1, <2>2, <2>4, BlocksStay, TxHashesStay, TxRowsStay, OutRowsStay, RingRowsStay,
       ImageRowsStay
  <2>6. /\ TablesFinite' /\ Txs' = Txs /\ Images' = Images /\ Blocks' = Blocks
        /\ \A t : /\ OutsOf(t)' = OutsOf(t) /\ ImagesOf(t)' = ImagesOf(t) /\ RingsOf(t)' = RingsOf(t)
                  /\ TxsOf(t)' = TxsOf(t)
    BY <2>1, TablesKept
  <2>7. TxNumbers' /\ ImageNumbers' /\ BlockNumbers'
    <3>1. TxNumbers'
      BY <2>1, <2>2, <2>6 DEF NumbersInv, TxNumbers
    <3>2. ImageNumbers'
      BY <2>1, <2>2, <2>6 DEF NumbersInv, ImageNumbers
    <3>3. BlockNumbers'
      BY <2>1, <2>2, <2>6 DEF NumbersInv, BlockNumbers
    <3>4. QED
      BY <3>1, <3>2, <3>3
  <2>8. QED
    BY <2>3, <2>5, <2>6, <2>7 DEF RowsInv, NumbersInv
<1>10. QED
  BY <1>1, <1>2, <1>3, <1>4, <1>5, <1>6, <1>7, <1>8, <1>9 DEF RowsNext, RowsEnded
-----------------------------------------------------------------------------
(* What the rows of RowsInv say of the joins. *)
\* A transaction has its row when it is not the one at hand.
LEMMA FinishedTxs ==
    ASSUME RowsInv, NEW n \in 1 .. Len(TxHs)
    PROVE  TxAt(n) \in Finished <=> n \in 1 .. Len(Txs)
<1>1. Finished = {TxAt(m) : m \in 1 .. Len(Txs)}
  <2>1. \A m : txData(m).of = TxAt(m)
    BY DEF txData
  <2>2. QED
    BY <2>1, TxTables DEF Finished
<1>2. \A m \in 1 .. Len(Txs) : m \in 1 .. Len(TxHs)
  BY DEF RowsInv, RowTypes, LastIds, Counted, TxsCounted
<1>3. \A m \in 1 .. Len(TxHs) : TxAt(m) = TxAt(n) => m = n
  BY DEF RowsInv, TxHashesRight
<1>4. QED
  BY <1>1, <1>2, <1>3

LEMMA TxPlaces ==
    ASSUME RowsInv, NEW n \in 1 .. Len(TxHs)
    PROVE  /\ TxAt(n)[1] \in Nat /\ TxAt(n)[2] \in Nat
           /\ TxAt(n) = <<TxAt(n)[1], TxAt(n)[2]>>
           /\ TxAt(n)[1] \in 1 .. Len(Blocks)
  BY DEF RowsInv, TxHashesRight, Counted, BlocksCounted

LEMMA OutPlaces ==
    ASSUME RowsInv, NEW n \in 1 .. Len(Outs)
    PROVE  /\ OutTx(n) \in 1 .. Len(TxHs)
           /\ TxOf(Outs[n].of) = TxAt(OutTx(n)) /\ BlockOf(Outs[n].of) = <<TxAt(OutTx(n))[1]>>
<1>1. /\ OutTx(n) \in 1 .. Len(TxHs) /\ Outs[n].of[3] \in Nat
      /\ Outs[n].of = <<TxAt(OutTx(n))[1], TxAt(OutTx(n))[2], Outs[n].of[3]>>
  BY DEF RowsInv, OutRowsRight
<1>2. PICK a \in Nat, b \in Nat, c \in Nat :
          a = TxAt(OutTx(n))[1] /\ b = TxAt(OutTx(n))[2] /\ c = Outs[n].of[3]
  BY <1>1, TxPlaces
<1>3. BlockOf(<<a, b, c>>) = <<a>> /\ TxOf(<<a, b, c>>) = <<a, b>>
  <2>1. a \in Nat /\ b \in Nat /\ c \in Nat
    BY <1>2
  <2>2. QED
    BY <2>1, PathsOfThree, Zenon
<1>4. QED
  BY <1>1, <1>2, <1>3, TxPlaces

LEMMA ImagePlaces ==
    ASSUME RowsInv, NEW n \in 1 .. Len(Images)
    PROVE  /\ ImageTx(n) \in 1 .. Len(TxHs)
           /\ TxOf(ImageAt(n)) = TxAt(ImageTx(n))
           /\ ImageAt(n)[1] = TxAt(ImageTx(n))[1] /\ ImageAt(n)[2] = TxAt(ImageTx(n))[2]
           /\ ImageAt(n)[3] \in Nat
           /\ ImageAt(n) = <<ImageAt(n)[1], ImageAt(n)[2], ImageAt(n)[3]>>
<1>1. /\ ImageTx(n) \in 1 .. Len(TxHs) /\ ImageAt(n)[3] \in Nat
      /\ ImageAt(n) = <<TxAt(ImageTx(n))[1], TxAt(ImageTx(n))[2], ImageAt(n)[3]>>
  BY DEF RowsInv, ImageRowsRight
<1>2. PICK a \in Nat, b \in Nat, c \in Nat :
          a = TxAt(ImageTx(n))[1] /\ b = TxAt(ImageTx(n))[2] /\ c = ImageAt(n)[3]
  BY <1>1, TxPlaces
<1>3. TxOf(<<a, b, c>>) = <<a, b>>
  <2>1. a \in Nat /\ b \in Nat /\ c \in Nat
    BY <1>2
  <2>2. QED
    BY <2>1, PathsOfThree, Zenon
<1>4. ImageAt(n)[1] = a /\ ImageAt(n)[2] = b /\ ImageAt(n)[3] = c
  BY <1>1, <1>2
<1>5. QED
  BY <1>1, <1>2, <1>3, <1>4, TxPlaces

LEMMA RingPlaces ==
    ASSUME RowsInv, NEW n \in 1 .. Len(Rings)
    PROVE  /\ ImageOf(n) \in 1 .. Len(Images)
           /\ TxOf(Rings[n].of) = TxAt(ImageTx(ImageOf(n))) /\ InputOf(Rings[n].of) = ImageAt(ImageOf(n))
<1>1. PICK k : k = ImageOf(n) /\ k \in 1 .. Len(Images)
  BY DEF RowsInv, RingRowsRight
<1>2. /\ Rings[n].of[4] \in Nat
      /\ Rings[n].of = <<ImageAt(k)[1], ImageAt(k)[2], ImageAt(k)[3], Rings[n].of[4]>>
  BY <1>1 DEF RowsInv, RingRowsRight
<1>3. PICK a \in Nat, b \in Nat, c \in Nat, d \in Nat :
          a = ImageAt(k)[1] /\ b = ImageAt(k)[2] /\ c = ImageAt(k)[3] /\ d = Rings[n].of[4]
  BY <1>1, <1>2, ImagePlaces, TxPlaces
<1>4. TxOf(<<a, b, c, d>>) = <<a, b>> /\ InputOf(<<a, b, c, d>>) = <<a, b, c>>
  <2>1. a \in Nat /\ b \in Nat /\ c \in Nat /\ d \in Nat
    BY <1>3
  <2>2. TxOf(<<a, b, c, d>>) = <<a, b>>
    BY <2>1, PathsOfFour, SMTT(30)
  <2>3. InputOf(<<a, b, c, d>>) = <<a, b, c>>
    BY <2>1, PathsOfFour, SMTT(30)
  <2>4. QED
    BY <2>2, <2>3
<1>5. ImageAt(k) = <<a, b, c>> /\ TxAt(ImageTx(k)) = <<a, b>>
  BY <1>1, <1>3, ImagePlaces, TxPlaces
<1>6. QED
  BY <1>1, <1>2, <1>3, <1>4, <1>5

LEMMA OutputsDoJoin ==
    ASSUME RowsInv
    PROVE  OutputsJoin
<1> DEFINE joins == {i \in SA_DATA \X TX_DATA \X BLOCK_DATA :
                        \E r \in SA_INDEX : r.DATA_ID = i[1].DATA_ID /\ r.TX_ID = i[2].DATA_ID
                                            /\ r.BLOCK_ID = i[3].DATA_ID}
           outs  == {e \in SA_DATA : TxOf(e.of) \in Finished}
           found == {<<j[1].of, j[2].of, j[3].of>> : j \in joins}
           meant == {<<d.of, TxOf(d.of), BlockOf(d.of)>> : d \in outs}
<1>1. \A n : /\ outData(n).DATA_ID = n /\ outData(n).of = Outs[n].of
             /\ outIndex(n).DATA_ID = n /\ outIndex(n).TX_ID = OutTx(n)
             /\ outIndex(n).BLOCK_ID = TxAt(OutTx(n))[1]
             /\ txData(n).DATA_ID = n /\ txData(n).of = TxAt(n)
             /\ blockData(n).DATA_ID = n /\ blockData(n).of = <<n>>
  BY DEF outData, outIndex, txData, blockData
<1>2. ASSUME NEW n \in 1 .. Len(Outs)
      PROVE  /\ OutTx(n) \in 1 .. Len(TxHs) /\ TxAt(OutTx(n))[1] \in 1 .. Len(Blocks)
             /\ TxOf(Outs[n].of) = TxAt(OutTx(n)) /\ BlockOf(Outs[n].of) = <<TxAt(OutTx(n))[1]>>
             /\ TxAt(OutTx(n)) \in Finished <=> OutTx(n) \in 1 .. Len(Txs)
  BY OutPlaces, TxPlaces, FinishedTxs
<1>3. ASSUME NEW j \in joins
      PROVE  <<j[1].of, j[2].of, j[3].of>> \in meant
  <2>1. PICK r \in SA_INDEX : r.DATA_ID = j[1].DATA_ID /\ r.TX_ID = j[2].DATA_ID
                              /\ r.BLOCK_ID = j[3].DATA_ID
    OBVIOUS
  <2>2. j[1] \in SA_DATA /\ j[2] \in TX_DATA /\ j[3] \in BLOCK_DATA
    OBVIOUS
  <2>3. PICK n \in 1 .. Len(Outs) : j[1] = outData(n)
    BY <2>2, OutTables
  <2>4. PICK m \in 1 .. Len(Txs) : j[2] = txData(m)
    BY <2>2, TxTables
  <2>5. PICK b \in 1 .. Len(Blocks) : j[3] = blockData(b)
    BY <2>2, BlockTables
  <2>6. PICK q \in 1 .. Len(Outs) : r = outIndex(q)
    BY <2>1, OutTables
  <2>7. q = n /\ OutTx(n) = m /\ TxAt(OutTx(n))[1] = b
    BY <1>1, <2>1, <2>3, <2>4, <2>5, <2>6
  <2>8. j[1].of = Outs[n].of /\ j[2].of = TxOf(Outs[n].of) /\ j[3].of = BlockOf(Outs[n].of)
    <3>1. j[1].of = Outs[n].of /\ j[2].of = TxAt(m) /\ j[3].of = <<b>>
      BY <1>1, <2>3, <2>4, <2>5
    <3>2. TxOf(Outs[n].of) = TxAt(m) /\ BlockOf(Outs[n].of) = <<b>>
      BY <1>2, <2>7
    <3>3. QED
      BY <3>1, <3>2
  <2>9. outData(n) \in outs /\ outData(n).of = Outs[n].of
    BY <1>1, <1>2, <2>2, <2>3, <2>4, <2>7
  <2> HIDE DEF outs
  <2>10. QED
    BY <2>8, <2>9
<1>4. ASSUME NEW d \in outs
      PROVE  <<d.of, TxOf(d.of), BlockOf(d.of)>> \in found
  <2>1. PICK n \in 1 .. Len(Outs) : d = outData(n)
    <3>1. d \in SA_DATA
      OBVIOUS
    <3>2. QED
      BY <3>1, OutTables
  <2>2. PICK m \in 1 .. Len(Txs) : m = OutTx(n)
    <3>1. TxOf(d.of) \in Finished /\ d.of = Outs[n].of
      BY <1>1, <2>1
    <3>2. OutTx(n) \in 1 .. Len(Txs)
      BY <1>2, <3>1
    <3>3. QED
      BY <3>2
  <2>3. PICK b \in 1 .. Len(Blocks) : b = TxAt(m)[1]
    BY <1>2, <2>2
  <2>4. /\ outData(n) \in SA_DATA /\ txData(m) \in TX_DATA /\ blockData(b) \in BLOCK_DATA
        /\ outIndex(n) \in SA_INDEX
    BY OutTables, TxTables, BlockTables
  <2>5. PICK j : j = <<outData(n), txData(m), blockData(b)>>
    OBVIOUS
  <2>6. j[1] = outData(n) /\ j[2] = txData(m) /\ j[3] = blockData(b)
        /\ j \in SA_DATA \X TX_DATA \X BLOCK_DATA
    BY <2>4, <2>5
  <2>7. j \in joins
    BY <1>1, <2>2, <2>3, <2>4, <2>6
  <2>8. j[1].of = d.of /\ j[2].of = TxOf(d.of) /\ j[3].of = BlockOf(d.of)
    <3>1. d.of = Outs[n].of /\ j[1].of = d.of /\ j[2].of = TxAt(m) /\ j[3].of = <<b>>
      BY <1>1, <2>1, <2>6
    <3>2. TxOf(Outs[n].of) = TxAt(m) /\ BlockOf(Outs[n].of) = <<b>>
      BY <1>2, <2>2, <2>3
    <3>3. QED
      BY <3>1, <3>2
  <2> HIDE DEF joins
  <2>9. QED
    BY <2>7, <2>8
<1>5. found = meant
  <2> HIDE DEF joins, outs
  <2>1. QED
    BY <1>3, <1>4
<1>6. QED
  BY <1>5 DEF OutputsJoin

LEMMA RingMembersDoJoin ==
    ASSUME RowsInv
    PROVE  RingMembersJoin
<1> DEFINE joins == {i \in RM_DATA \X KI_DATA \X TX_DATA :
                        \E r \in RM_INDEX :
                           /\ r.DATA_ID = i[1].DATA_ID /\ r.KEY_IMAGE = i[2].DATA_ID
                           /\ r.TX_ID = i[3].DATA_ID /\ i[2].TX_ID = r.TX_ID /\ i[2].BLOCK_ID = r.BLOCK_ID}
           mems  == {e \in RM_DATA : TxOf(e.of) \in Finished}
           found == {<<j[1].of, j[2].of, j[3].of>> : j \in joins}
           meant == {<<d.of, InputOf(d.of), TxOf(d.of)>> : d \in mems}
<1>1. \A n : /\ ringData(n).DATA_ID = n /\ ringData(n).of = Rings[n].of
             /\ ringData(n).P_KEY = Rings[n].mix_pub_key /\ ringData(n).missed = Rings[n].missed
             /\ ringIndex(n).DATA_ID = n /\ ringIndex(n).TX_ID = ImageTx(ImageOf(n))
             /\ ringIndex(n).KEY_IMAGE = ImageOf(n) /\ ringIndex(n).HASH_ID = RingIs[n][4]
             /\ ringIndex(n).BLOCK_ID = TxAt(ImageTx(ImageOf(n)))[1]
             /\ imageData(n).DATA_ID = n /\ imageData(n).of = ImageAt(n)
             /\ imageData(n).TX_ID = ImageTx(n) /\ imageData(n).BLOCK_ID = TxAt(ImageTx(n))[1]
             /\ txData(n).DATA_ID = n /\ txData(n).of = TxAt(n)
  BY DEF ringData, ringIndex, imageData, txData
<1>2. ASSUME NEW n \in 1 .. Len(Rings)
      PROVE  /\ ImageOf(n) \in 1 .. Len(Images) /\ ImageTx(ImageOf(n)) \in 1 .. Len(TxHs)
             /\ TxOf(Rings[n].of) = TxAt(ImageTx(ImageOf(n)))
             /\ InputOf(Rings[n].of) = ImageAt(ImageOf(n))
             /\ TxAt(ImageTx(ImageOf(n))) \in Finished <=> ImageTx(ImageOf(n)) \in 1 .. Len(Txs)
  BY RingPlaces, ImagePlaces, FinishedTxs
<1>3. ASSUME NEW j \in joins
      PROVE  <<j[1].of, j[2].of, j[3].of>> \in meant
  <2>1. PICK r \in RM_INDEX : r.DATA_ID = j[1].DATA_ID /\ r.KEY_IMAGE = j[2].DATA_ID
                              /\ r.TX_ID = j[3].DATA_ID
    OBVIOUS
  <2>2. j[1] \in RM_DATA /\ j[2] \in KI_DATA /\ j[3] \in TX_DATA
    OBVIOUS
  <2>3. PICK n \in 1 .. Len(Rings) : j[1] = ringData(n)
    BY <2>2, RingTables
  <2>4. PICK k \in 1 .. Len(Images) : j[2] = imageData(k)
    BY <2>2, ImageTables
  <2>5. PICK m \in 1 .. Len(Txs) : j[3] = txData(m)
    BY <2>2, TxTables
  <2>6. PICK q \in 1 .. Len(Rings) : r = ringIndex(q)
    BY <2>1, RingTables
  <2>7. q = n /\ ImageOf(n) = k /\ ImageTx(k) = m
    BY <1>1, <2>1, <2>3, <2>4, <2>5, <2>6
  <2>8. j[1].of = Rings[n].of /\ j[2].of = InputOf(Rings[n].of) /\ j[3].of = TxOf(Rings[n].of)
    <3>1. j[1].of = Rings[n].of /\ j[2].of = ImageAt(k) /\ j[3].of = TxAt(m)
      BY <1>1, <2>3, <2>4, <2>5
    <3>2. InputOf(Rings[n].of) = ImageAt(k) /\ TxOf(Rings[n].of) = TxAt(m)
      BY <1>2, <2>7
    <3>3. QED
      BY <3>1, <3>2
  <2>9. ringData(n) \in mems /\ ringData(n).of = Rings[n].of
    BY <1>1, <1>2, <2>2, <2>3, <2>5, <2>7
  <2> HIDE DEF mems
  <2>10. QED
    BY <2>8, <2>9
<1>4. ASSUME NEW d \in mems
      PROVE  <<d.of, InputOf(d.of), TxOf(d.of)>> \in found
  <2>1. PICK n \in 1 .. Len(Rings) : d = ringData(n)
    <3>1. d \in RM_DATA
      OBVIOUS
    <3>2. QED
      BY <3>1, RingTables
  <2>2. PICK k \in 1 .. Len(Images) : k = ImageOf(n)
    BY <1>2
  <2>3. PICK m \in 1 .. Len(Txs) : m = ImageTx(k)
    <3>1. TxOf(d.of) \in Finished /\ d.of = Rings[n].of
      BY <1>1, <2>1
    <3>2. ImageTx(k) \in 1 .. Len(Txs)
      BY <1>2, <2>2, <3>1
    <3>3. QED
      BY <3>2
  <2>4. /\ ringData(n) \in RM_DATA /\ imageData(k) \in KI_DATA /\ txData(m) \in TX_DATA
        /\ ringIndex(n) \in RM_INDEX
    BY RingTables, ImageTables, TxTables
  <2>5. PICK j : j = <<ringData(n), imageData(k), txData(m)>>
    OBVIOUS
  <2>6. j[1] = ringData(n) /\ j[2] = imageData(k) /\ j[3] = txData(m)
        /\ j \in RM_DATA \X KI_DATA \X TX_DATA
    BY <2>4, <2>5
  <2>7. j \in joins
    BY <1>1, <2>2, <2>3, <2>4, <2>6
  <2>8. j[1].of = d.of /\ j[2].of = InputOf(d.of) /\ j[3].of = TxOf(d.of)
    <3>1. d.of = Rings[n].of /\ j[1].of = d.of /\ j[2].of = ImageAt(k) /\ j[3].of = TxAt(m)
      BY <1>1, <2>1, <2>6
    <3>2. InputOf(Rings[n].of) = ImageAt(k) /\ TxOf(Rings[n].of) = TxAt(m)
      BY <1>2, <2>2, <2>3
    <3>3. QED
      BY <3>1, <3>2
  <2> HIDE DEF joins
  <2>9. QED
    BY <2>7, <2>8
<1>5. found = meant
  <2> HIDE DEF joins, mems
  <2>1. QED
    BY <1>3, <1>4
<1>6. ASSUME NEW d \in RM_DATA, NEW r \in RM_INDEX, r.DATA_ID = d.DATA_ID, ~d.missed
      PROVE  r.HASH_ID = ringIds[d.P_KEY]
  <2>1. PICK n \in 1 .. Len(Rings) : d = ringData(n)
    BY RingTables
  <2>2. PICK q \in 1 .. Len(Rings) : r = ringIndex(q)
    BY RingTables
  <2>3. q = n /\ ~Rings[n].missed
    BY <1>1, <1>6, <2>1, <2>2
  <2>4. RingIs[n][4] = ringIds[Rings[n].mix_pub_key]
    BY <2>3 DEF RowsInv, RingRowsRight
  <2>5. QED
    BY <1>1, <2>1, <2>2, <2>3, <2>4
<1>7. QED
  BY <1>5, <1>6 DEF RingMembersJoin

LEMMA RowsAreCounted ==
    ASSUME RowsInv, NumbersInv
    PROVE  CountsAreRows
<1>1. ASSUME NEW t \in TX_DATA
      PROVE  /\ t.OUTPUT_COUNT = Cardinality({r \in SA_INDEX : r.TX_ID = t.DATA_ID})
             /\ t.INPUT_COUNT = Cardinality({k \in KI_DATA : k.TX_ID = t.DATA_ID})
  <2>1. PICK n \in 1 .. Len(Txs) : t = txData(n)
    BY TxTables
  <2>2. t.DATA_ID = n /\ t.OUTPUT_COUNT = Txs[n].outputs_no /\ t.INPUT_COUNT = Txs[n].inputs_no
    BY <2>1 DEF txData
  <2>3. Txs[n].outputs_no = Cardinality(OutsOf(n)) /\ Txs[n].inputs_no = Cardinality(ImagesOf(n))
    BY DEF NumbersInv, TxNumbers
  <2>4. QED
    BY <2>2, <2>3 DEF OutsOf, ImagesOf
<1>2. ASSUME NEW k \in KI_DATA, TxOf(k.of) \in Finished
      PROVE  k.MIXIN_COUNT = Cardinality({r \in RM_INDEX : r.KEY_IMAGE = k.DATA_ID})
  <2>1. PICK n \in 1 .. Len(Images) : k = imageData(n)
    BY ImageTables
  <2>2. k.DATA_ID = n /\ k.MIXIN_COUNT = Images[n][7] /\ k.of = ImageAt(n)
    BY <2>1 DEF imageData
  <2>3. ImageTx(n) \in 1 .. Len(Txs)
    BY <1>2, <2>2, ImagePlaces, FinishedTxs
  <2>4. n < last.keyImage
    <3>1. /\ last.keyImage \in Nat
          /\ Len(Images) = IF loop = "mixins" THEN last.keyImage ELSE last.keyImage - 1
          /\ last.transaction \in Nat /\ Len(Txs) = last.transaction - 1
      BY DEF RowsInv, RowTypes, LastIds, Counted, ImagesCounted, TxsCounted
    <3>2. loop = "mixins" => ImageTx(last.keyImage) = last.transaction
      BY DEF RowsInv, ImageRowsRight
    <3>3. last.transaction \notin 1 .. Len(Txs)
      BY <3>1
    <3>4. loop = "mixins" => n # last.keyImage
      BY <2>3, <3>2, <3>3
    <3>5. QED
      BY <3>1, <3>4
  <2>5. Images[n][7] = Cardinality(RingsOf(n))
    BY <2>4 DEF NumbersInv, ImageNumbers
  <2>6. QED
    BY <2>2, <2>5 DEF RingsOf
<1>3. ASSUME loop = "blocks", NEW b \in BLOCK_DATA
      PROVE  b.TX_COUNT = Cardinality({r \in TX_INDEX : r.BLOCK_ID = b.DATA_ID})
  <2>1. PICK n \in 1 .. Len(Blocks) : b = blockData(n)
    BY BlockTables
  <2>2. b.DATA_ID = n /\ b.TX_COUNT = Blocks[n].txCount
    BY <2>1 DEF blockData
  <2>3. n < last.block
    BY <1>3 DEF RowsInv, RowTypes, Places, Counted, BlocksCounted
  <2>4. Blocks[n].txCount = Cardinality(TxsOf(n))
    BY <2>3 DEF NumbersInv, BlockNumbers
  <2>5. QED
    BY <2>2, <2>4 DEF TxsOf
<1>4. QED
  BY <1>1, <1>2, <1>3 DEF CountsAreRows

-----------------------------------------------------------------------------
(* The pairs of hash and id. *)
LEMMA GreatestIsThere ==
    ASSUME NEW N \in Nat, NEW T \in SUBSET (1 .. N), T # {}
    PROVE  \E x \in T : \A y \in T : y <= x
<1> DEFINE gaps == {N - x : x \in T}
<1>1. gaps \subseteq Nat /\ gaps # {}
  <2>1. \A x \in T : N - x \in Nat
    <3>1. \A x \in 1 .. N : N - x \in Nat
      OBVIOUS
    <3>2. QED
      BY <3>1
  <2>2. PICK x : x \in T
    OBVIOUS
  <2>3. N - x \in gaps
    BY <2>2
  <2>4. QED
    BY <2>1, <2>3
<1>2. PICK g \in gaps : \A h \in gaps : ~(<<h, g>> \in OpToRel(<, Nat))
  BY <1>1, WFMin, NatLessThanWellFounded
<1>3. \A h \in gaps : ~(h < g)
  <2>1. \A h \in gaps : h < g => <<h, g>> \in OpToRel(<, Nat)
    BY <1>1 DEF OpToRel
  <2>2. QED
    BY <1>2, <2>1
<1>4. PICK x \in T : g = N - x
  OBVIOUS
<1>5. ASSUME NEW y \in T
      PROVE  y <= x
  <2>1. N - y \in gaps /\ y \in 1 .. N /\ x \in 1 .. N
    OBVIOUS
  <2>2. ~(N - y < N - x)
    BY <1>3, <1>4, <2>1
  <2>3. QED
    BY <2>1, <2>2
<1>6. QED
  BY <1>5

\* Of the pairs with a key the one with the greatest number is found.
LEMMA LastPairCounts ==
    ASSUME NEW v, NEW k, NEW N \in Nat, DOMAIN vectors[v] = 1 .. N,
           NEW n \in 1 .. N, vectors[v][n][1] = k,
           \A m \in 1 .. N : vectors[v][m][1] = k => m <= n
    PROVE  IdOfHash(v, k) = vectors[v][n][2]
<1> DEFINE IsLast(x) == /\ vectors[v][x][1] = k
                        /\ \A m \in DOMAIN vectors[v] : vectors[v][m][1] = k => m <= x
           chosen == CHOOSE x \in DOMAIN vectors[v] : IsLast(x)
<1>1. IsLast(n) /\ n \in DOMAIN vectors[v]
  OBVIOUS
<1>2. chosen \in DOMAIN vectors[v] /\ IsLast(chosen)
  <2> HIDE DEF IsLast
  <2>1. QED
    BY <1>1
<1>3. chosen = n
  <2> HIDE DEF chosen
  <2>1. chosen \in 1 .. N /\ chosen <= n /\ n <= chosen
    BY <1>1, <1>2
  <2>2. QED
    BY <2>1
<1>4. IdOfHash(v, k) = vectors[v][chosen][2]
  BY DEF IdOfHash
<1>5. QED
  <2> HIDE DEF chosen
  <2>1. QED
    BY <1>3, <1>4

LEMMA HashDomains ==
    ASSUME RowsInv
    PROVE  /\ DOMAIN vectors["blockHashIdVector"] = 1 .. Len(Blocks) /\ Len(Blocks) \in Nat
           /\ DOMAIN vectors["txHashIdVector"] = 1 .. Len(TxHs) /\ Len(TxHs) \in Nat
           /\ DOMAIN vectors["saHashIdVector"] = 1 .. Len(Outs) /\ Len(Outs) \in Nat
           /\ DOMAIN vectors["keyImageHashIdVector"] = 1 .. Len(Images) /\ Len(Images) \in Nat
           /\ Len(Txs) \in Nat /\ Len(Txs) <= Len(TxHs)
<1>1. \A v \in VectorNames : IsSeq(vectors[v])
  BY DEF RowsInv, RowTypes, VectorsTyped
<1>2. IsSeq(BlockHs) /\ IsSeq(TxHs) /\ IsSeq(OutHs) /\ IsSeq(ImageHs)
  BY <1>1 DEF VectorNames, BlockHs, TxHs, OutHs, ImageHs
<1>3. /\ DOMAIN BlockHs = 1 .. Len(BlockHs) /\ DOMAIN TxHs = 1 .. Len(TxHs)
      /\ DOMAIN OutHs = 1 .. Len(OutHs) /\ DOMAIN ImageHs = 1 .. Len(ImageHs)
      /\ Len(BlockHs) \in Nat /\ Len(TxHs) \in Nat /\ Len(OutHs) \in Nat /\ Len(ImageHs) \in Nat
  BY <1>2 DEF IsSeq
<1>4. /\ Len(BlockHs) = Len(Blocks) /\ Len(OutHs) = Len(Outs) /\ Len(ImageHs) = Len(Images)
      /\ Len(Txs) \in Nat /\ Len(Txs) <= Len(TxHs)
  BY DEF RowsInv, RowTypes, LastIds, Counted, BlocksCounted, OutsCounted, ImagesCounted, TxsCounted
<1>5. QED
  BY <1>3, <1>4 DEF BlockHs, TxHs, OutHs, ImageHs

LEMMA HashesDoLead ==
    ASSUME RowsInv
    PROVE  HashesLeadToRows
<1>1. ASSUME NEW b \in BLOCK_DATA
      PROVE  {r.DATA_ID : r \in {i \in BLOCK_INDEX : i.HASH_ID = IdOfHash("blockHashIdVector", b.of)}}
             = {b.DATA_ID}
  <2>1. PICK n \in 1 .. Len(Blocks) : b = blockData(n)
    BY BlockTables
  <2>2. b.DATA_ID = n /\ b.of = <<n>>
    BY <2>1 DEF blockData
  <2>3. ASSUME NEW m \in 1 .. Len(Blocks)
        PROVE  /\ vectors["blockHashIdVector"][m][1] = <<m>>
               /\ vectors["blockHashIdVector"][m][2] = m
    <3>1. BlockHs[m] = <<<<m>>, m>>
      BY DEF RowsInv, BlockRowsRight
    <3>2. QED
      BY <3>1 DEF BlockHs
  <2>4. \A m \in 1 .. Len(Blocks) : vectors["blockHashIdVector"][m][1] = <<n>> => m <= n
    BY <2>3
  <2>5. IdOfHash("blockHashIdVector", <<n>>) = n
    <3>1. PICK k : k = <<n>>
      OBVIOUS
    <3>2. /\ vectors["blockHashIdVector"][n][1] = k
          /\ \A m \in 1 .. Len(Blocks) : vectors["blockHashIdVector"][m][1] = k => m <= n
      BY <2>3, <2>4, <3>1
    <3>3. IdOfHash("blockHashIdVector", k) = vectors["blockHashIdVector"][n][2]
      <4>1. DOMAIN vectors["blockHashIdVector"] = 1 .. Len(Blocks) /\ Len(Blocks) \in Nat
        BY HashDomains
      <4>2. QED
        BY <3>2, <4>1, LastPairCounts, SMTT(30)
    <3>4. QED
      BY <2>3, <3>1, <3>3
  <2>6. \A m : blockIndex(m).HASH_ID = m /\ blockIndex(m).DATA_ID = m
    BY DEF blockIndex
  <2>7. QED
    BY <2>2, <2>5, <2>6, BlockTables
<1>2. ASSUME NEW t \in TX_DATA
      PROVE  {r.DATA_ID : r \in {i \in TX_INDEX : i.HASH_ID = IdOfHash("txHashIdVector", t.of)}}
             = {t.DATA_ID}
  <2>1. PICK n \in 1 .. Len(Txs) : t = txData(n)
    BY TxTables
  <2>2. t.DATA_ID = n /\ t.of = TxAt(n) /\ n \in 1 .. Len(TxHs)
    BY <2>1, HashDomains DEF txData
  <2>3. ASSUME NEW m \in 1 .. Len(TxHs)
        PROVE  /\ vectors["txHashIdVector"][m][1] = TxAt(m)
               /\ vectors["txHashIdVector"][m][2] = m
    <3>1. TxHs[m] = <<TxAt(m), m>>
      BY DEF RowsInv, TxHashesRight
    <3>2. TxHs[m][1] = TxAt(m) /\ TxHs[m][2] = m
      BY <3>1
    <3>3. QED
      BY <3>2 DEF TxHs
  <2>4. \A m \in 1 .. Len(TxHs) : vectors["txHashIdVector"][m][1] = TxAt(n) => m <= n
    BY <2>2, <2>3 DEF RowsInv, TxHashesRight
  <2>5. IdOfHash("txHashIdVector", TxAt(n)) = n
    <3>1. IdOfHash("txHashIdVector", TxAt(n)) = vectors["txHashIdVector"][n][2]
      BY <2>2, <2>3, <2>4, HashDomains, LastPairCounts
    <3>2. QED
      BY <2>2, <2>3, <3>1
  <2>6. \A m : txIndex(m).HASH_ID = m /\ txIndex(m).DATA_ID = m
    BY DEF txIndex
  <2>7. QED
    BY <2>2, <2>5, <2>6, TxTables
<1>3. ASSUME NEW d \in SA_DATA
      PROVE  {r.DATA_ID : r \in {i \in SA_INDEX : i.HASH_ID = IdOfHash("saHashIdVector", d.P_KEY)}}
             = {CHOOSE n \in {e.DATA_ID : e \in {f \in SA_DATA : f.P_KEY = d.P_KEY}} :
                   \A e \in SA_DATA : e.P_KEY = d.P_KEY => e.DATA_ID <= n}
  <2> DEFINE same == {n \in 1 .. Len(Outs) : Outs[n].out_pub_key = d.P_KEY}
  <2>1. \A n : /\ outData(n).DATA_ID = n /\ outData(n).P_KEY = Outs[n].out_pub_key
               /\ outIndex(n).DATA_ID = n /\ outIndex(n).HASH_ID = n
    BY DEF outData, outIndex
  <2>2. same # {} /\ same \in SUBSET (1 .. Len(Outs)) /\ Len(Outs) \in Nat
    BY <2>1, OutTables, HashDomains
  <2>3. PICK n \in same : \A m \in same : m <= n
    <3> HIDE DEF same
    <3>1. QED
      BY <2>2, GreatestIsThere
  <2>4. {e.DATA_ID : e \in {f \in SA_DATA : f.P_KEY = d.P_KEY}} = same
    BY <2>1, OutTables
  <2>5. \A m : (\A e \in SA_DATA : e.P_KEY = d.P_KEY => e.DATA_ID <= m) <=> (\A i \in same : i <= m)
    BY <2>1, OutTables
  <2>6. (CHOOSE x \in same : \A e \in SA_DATA : e.P_KEY = d.P_KEY => e.DATA_ID <= x) = n
    <3> DEFINE Greatest(x) == \A e \in SA_DATA : e.P_KEY = d.P_KEY => e.DATA_ID <= x
               chosen == CHOOSE x \in same : Greatest(x)
    <3>1. Greatest(n)
      BY <2>3, <2>5
    <3>2. chosen \in same /\ Greatest(chosen)
      <4> HIDE DEF Greatest, same
      <4>1. QED
        BY <2>3, <3>1
    <3>3. n <= chosen /\ chosen <= n
      <4> HIDE DEF chosen
      <4>1. \A i \in same : i <= chosen
        BY <2>5, <3>2
      <4>2. QED
        BY <2>3, <3>2, <4>1
    <3>4. chosen \in Int /\ n \in Int
      <4> HIDE DEF chosen
      <4>1. QED
        BY <2>2, <3>2
    <3>5. chosen = n
      <4> HIDE DEF chosen, same
      <4>1. QED
        BY <3>3, <3>4
    <3>6. QED
      BY <3>5
  <2>7. ASSUME NEW m \in 1 .. Len(Outs)
        PROVE  /\ vectors["saHashIdVector"][m][1] = Outs[m].out_pub_key
               /\ vectors["saHashIdVector"][m][2] = m
    <3>1. OutHs[m] = <<Outs[m].out_pub_key, m>>
      BY DEF RowsInv, OutRowsRight
    <3>2. OutHs[m][1] = Outs[m].out_pub_key /\ OutHs[m][2] = m
      BY <3>1
    <3>3. QED
      BY <3>2 DEF OutHs
  <2>8. IdOfHash("saHashIdVector", d.P_KEY) = n
    <3>1. \A m \in 1 .. Len(Outs) : vectors["saHashIdVector"][m][1] = d.P_KEY => m <= n
      BY <2>3, <2>7
    <3>2. n \in 1 .. Len(Outs) /\ vectors["saHashIdVector"][n][1] = d.P_KEY
      BY <2>7
    <3>3. IdOfHash("saHashIdVector", d.P_KEY) = vectors["saHashIdVector"][n][2]
      BY <3>1, <3>2, HashDomains, LastPairCounts
    <3>4. QED
      BY <2>7, <3>2, <3>3
  <2>9. {r.DATA_ID : r \in {i \in SA_INDEX : i.HASH_ID = n}} = {n}
    BY <2>1, OutTables
  <2>10. QED
    BY <2>4, <2>6, <2>8, <2>9
<1>4. ASSUME NEW k \in KI_DATA
      PROVE  IdOfHash("keyImageHashIdVector", k.of) = k.DATA_ID
  <2>1. PICK n \in 1 .. Len(Images) : k = imageData(n)
    BY ImageTables
  <2>2. k.DATA_ID = n /\ k.of = ImageAt(n)
    BY <2>1 DEF imageData
  <2>3. ASSUME NEW m \in 1 .. Len(Images)
        PROVE  /\ vectors["keyImageHashIdVector"][m][1] = ImageAt(m)
               /\ vectors["keyImageHashIdVector"][m][2] = m
    <3>1. ImageHs[m] = <<ImageAt(m), m>>
      BY DEF RowsInv, ImageRowsRight
    <3>2. ImageHs[m][1] = ImageAt(m) /\ ImageHs[m][2] = m
      BY <3>1
    <3>3. QED
      BY <3>2 DEF ImageHs
  <2>4. \A m \in 1 .. Len(Images) : vectors["keyImageHashIdVector"][m][1] = ImageAt(n) => m <= n
    BY <2>3 DEF RowsInv, ImageRowsRight
  <2>5. IdOfHash("keyImageHashIdVector", ImageAt(n)) = vectors["keyImageHashIdVector"][n][2]
    BY <2>3, <2>4, HashDomains, LastPairCounts
  <2>6. QED
    BY <2>2, <2>3, <2>5
<1>5. QED
  BY <1>1, <1>2, <1>3, <1>4 DEF HashesLeadToRows

\* Whatever the blocks hold, a row belongs to what it came from, nothing is left out of a
\* join or added to it, and the numbers in the rows are those of the rows that join
\* (parser.h:299-486, indexmapper.h:268-271).
THEOREM RowsJoinAlways == RowsSpec => []RowsJoin
<1>1. RowsInit => RowsInv /\ NumbersInv
  BY RowsStart, NumbersStart
<1>2. RowsInv /\ NumbersInv /\ [RowsNext]_rowsVars => (RowsInv /\ NumbersInv)'
  BY RowsStep
<1>3. RowsInv /\ NumbersInv => RowsJoin
  BY OutputsDoJoin, RingMembersDoJoin, RowsAreCounted DEF RowsJoin
<1>4. QED
  BY <1>1, <1>2, <1>3, PTL DEF RowsSpec

\* Every hash leads through its last id to the row it belongs to (parser.h:307-407).
THEOREM HashesAlwaysLead == RowsSpec => []HashesLeadToRows
<1>1. RowsInit => RowsInv /\ NumbersInv
  BY RowsStart, NumbersStart
<1>2. RowsInv /\ NumbersInv /\ [RowsNext]_rowsVars => (RowsInv /\ NumbersInv)'
  BY RowsStep
<1>3. RowsInv => HashesLeadToRows
  BY HashesDoLead
<1>4. QED
  BY <1>1, <1>2, <1>3, PTL DEF RowsSpec
=============================================================================
