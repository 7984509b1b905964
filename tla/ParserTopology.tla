--------------------------- MODULE ParserTopology ---------------------------
(***************************************************************************)
(* The vectors, the order of pushes and the storing threads of parser.h,   *)
(* of the older multithreads.h and of the variant parser-7thread.h, as     *)
(* values for the constants of StoreThreads.  A thread is the vectors its  *)
(* loop visits, what its exit test reads in order, and whether that test   *)
(* is in the else branch of the visit.                                     *)
(*                                                                         *)
(* rmHashIdVector, a map that the parsing thread also looks keys up in, is *)
(* the business of module RingMembers.                                     *)
(***************************************************************************)
EXTENDS Naturals, Sequences, FiniteSets

HashVectors ==
    {"blockHashIdVector", "txHashIdVector", "saHashIdVector", "keyImageHashIdVector"}

DataVectors ==
    {"outputOfBlock", "outputIndexOfBlock", "outputOfTx", "outputIndexOfTx",
     "outputOfStealthAddresses", "outputIndexOfStealthAddresses",
     "outputOfKeyImages", "outputOfRingMembers", "outputIndexOfRingMembers"}

\* xmrProcessor: after the push on the left, control may come to the one on
\* the right.  A block has at least its coinbase transaction; outputs, inputs
\* and mixins may be none.
xmrProcessor ==
    LET NextOutput == {"saHashIdVector"}
        NextInput  == {"keyImageHashIdVector"}
        NextMixin  == {"outputOfRingMembers"}
        EndOfTx    == {"outputOfTx"}
        From(a, S) == {a} \X S
    IN  From("start", {"blockHashIdVector"})
        \cup From("blockHashIdVector", {"outputOfBlock"})
        \cup From("outputOfBlock", {"outputIndexOfBlock"})
        \cup From("outputIndexOfBlock", {"txHashIdVector"})
        \cup From("txHashIdVector", NextOutput \cup NextInput \cup EndOfTx)
        \cup From("saHashIdVector", {"outputOfStealthAddresses"})
        \cup From("outputOfStealthAddresses", {"outputIndexOfStealthAddresses"})
        \cup From("outputIndexOfStealthAddresses",
                  NextOutput \cup NextInput \cup EndOfTx)
        \cup From("keyImageHashIdVector", {"outputOfKeyImages"})
        \cup From("outputOfKeyImages", NextMixin \cup NextInput \cup EndOfTx)
        \cup From("outputOfRingMembers", {"outputIndexOfRingMembers"})
        \cup From("outputIndexOfRingMembers", NextMixin \cup NextInput \cup EndOfTx)
        \cup From("outputOfTx", {"outputIndexOfTx"})
        \cup From("outputIndexOfTx", {"txHashIdVector", "blockHashIdVector", "stop"})

\* The order of the pushes onto the vectors of S alone: the other pushes are
\* steps of the parsing thread that nothing in S can see.
PushOrder(S) ==
    LET Seen == S \cup {"start", "stop"}
        \* An unseen push gives way to the next push, a seen one stays.
        Onward == {e \in xmrProcessor : e[1] \notin Seen} \cup {<<p, p>> : p \in Seen}
        Pass(R) ==
            {<<g[1][1], g[2][2]>> : g \in {h \in R \X Onward : h[1][2] = h[2][1]}}
        Reach[n \in Nat] == IF n = 0 THEN xmrProcessor ELSE Pass(Reach[n - 1])
    IN  {e \in Reach[Cardinality(HashVectors \cup DataVectors)] : e \in Seen \X Seen}

-----------------------------------------------------------------------------
Loop(visits, exit, elseExit) ==
    [body |-> visits, exit |-> exit, elseExit |-> elseExit]

\* One vector of hashes, the exit test in the else branch.
HashLoop(q) == Loop(<<q>>, <<q, "isAllBlockDone">>, TRUE)

\* One vector of rows, emptied in batches.
BatchLoop(q) == Loop(<<q>>, <<q, "isAllBlockDone">>, FALSE)

TxFlagLast ==
    Loop(<<"txHashIdVector", "outputOfTx", "outputIndexOfTx">>,
         <<"txHashIdVector", "outputOfTx", "outputIndexOfTx", "isAllBlockDone">>,
         FALSE)

runBlockMainThread ==
    Loop(<<"blockHashIdVector", "outputOfBlock", "outputIndexOfBlock">>,
         <<"isAllBlockDone", "blockHashIdVector", "outputOfBlock",
           "outputIndexOfBlock">>, FALSE)

runTxMainThread ==
    Loop(<<"txHashIdVector", "outputOfTx", "outputIndexOfTx">>,
         <<"txHashIdVector", "isAllBlockDone", "outputOfTx", "outputIndexOfTx">>,
         FALSE)

runKeyImageMainThread ==
    Loop(<<"keyImageHashIdVector", "outputOfKeyImages">>,
         <<"keyImageHashIdVector", "isAllBlockDone", "outputOfKeyImages">>, FALSE)

runSAIdHashMappingThread == HashLoop("saHashIdVector")
runSaDataStoreThread == BatchLoop("outputOfStealthAddresses")
runSAIndexStoreThread == BatchLoop("outputIndexOfStealthAddresses")
runRingMemberStoreThread == BatchLoop("outputOfRingMembers")
runRMIndexStoreThread == BatchLoop("outputIndexOfRingMembers")

\* parser-7thread.h: one thread for every vector.
ConsumerVisits ==
    <<"blockHashIdVector", "outputOfBlock", "outputIndexOfBlock",
      "txHashIdVector", "outputOfTx", "outputIndexOfTx",
      "keyImageHashIdVector", "outputOfKeyImages",
      "saHashIdVector", "outputOfStealthAddresses", "outputIndexOfStealthAddresses",
      "outputOfRingMembers", "outputIndexOfRingMembers">>

ConsumerReads ==
    <<"outputIndexOfRingMembers", "outputOfRingMembers",
      "outputIndexOfStealthAddresses", "outputOfStealthAddresses",
      "saHashIdVector", "keyImageHashIdVector", "outputOfKeyImages",
      "blockHashIdVector", "outputOfBlock", "outputIndexOfBlock", "txHashIdVector">>

\* Seeded fault: the flag is the last operand of the exit test.
ConsumerFlagLast ==
    ConsumerReads \o <<"outputOfTx", "outputIndexOfTx", "isAllBlockDone">>

ConsumerExitTest ==
    ConsumerReads \o <<"isAllBlockDone", "outputOfTx", "outputIndexOfTx">>

dataConsumerThread == Loop(ConsumerVisits, ConsumerExitTest, FALSE)
=============================================================================
