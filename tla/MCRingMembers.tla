--------------------------- MODULE MCRingMembers ---------------------------
(***************************************************************************)
(* RingMembers for TLC: two sets of Bloom filter bits.                     *)
(***************************************************************************)
EXTENDS RingMembers

\* No key is taken for another one.
Apart == [k \in Key |-> {2 * k, 2 * k + 1}]

\* The keys 1 and 3 together set all the bits of 2.
Covered == [k \in Key |-> CASE k = 1 -> {1, 2} [] k = 2 -> {2, 3} [] OTHER -> {3, 4}]
=============================================================================
