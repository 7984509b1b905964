----------------------------- MODULE PoolTopology -----------------------------
(***************************************************************************)
(* The storing threads of multithreads.h: for each function, or for each   *)
(* set of ten copies of a function, the vector it empties, how many copies *)
(* there are, and whether it looks before it takes the lock.               *)
(***************************************************************************)
EXTENDS Integers

Single(vector) == [vector |-> vector, copies |-> 1,  looks |-> TRUE]
Ten(vector)    == [vector |-> vector, copies |-> 10, looks |-> FALSE]

runBlockIdHashMappingThread    == Single("blockHashIdVector")
runTxIdHashMappingThread       == Single("txHashIdVector")
runKeyImageIdHashMappingThread == Single("keyImageHashIdVector")
runSAIdHashMappingThread       == Single("saHashIdVector")
runBlockDataStoreThread        == Single("outputOfBlock")
runTxDataStoreThread           == Single("outputOfTx")
runKeyImageDataStoreThread     == Single("outputOfKeyImages")
runBlockIndexStoreThread       == Single("outputIndexOfBlock")
runTxIndexStoreThread          == Single("outputIndexOfTx")
runSaDataStoreThread           == Ten("outputOfStealthAddresses")
runRingMemberStoreThread       == Ten("outputOfRingMembers")
runSAIndexStoreThread          == Ten("outputIndexOfStealthAddresses")
runRMIndexStoreThread          == Ten("outputIndexOfRingMembers")

\* The threads of a group, not more than bound of them.
ThreadsOf(group, bound) ==
    {<<group.vector, i>> : i \in 1 .. (IF group.copies < bound THEN group.copies ELSE bound)}
=============================================================================
