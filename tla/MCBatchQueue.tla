---------------------------- MODULE MCBatchQueue ----------------------------
(***************************************************************************)
(* TLC instances of BatchQueue.                                            *)
(***************************************************************************)
EXTENDS BatchQueue
CONSTANTS c1, c2, s1, s2, d1, d2, deb, srcdir

\* The dispatcher threads are interchangeable.
DispatcherSymmetry == {[d \in Dispatchers |-> d]} \cup
                      {[d \in Dispatchers |-> IF d = d1 THEN d2 ELSE d1]}
=============================================================================
