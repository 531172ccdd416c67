--------------------------- MODULE MCSantaPipeline ---------------------------
(* Instances of SantaPipeline for TLC.                                     *)
EXTENDS SantaPipeline, TLC

CONSTANTS p1, p2, p3, m1, m2, w1, l1, l2

OneOfThree == {<<p1, p2, p3>>}
\* A present given again, after and among fresh ones.
Overlapping == {<<p1, p2>>, <<p2, p3>>}
AnyOrder == {<<p1, p2, p3>>, <<p3, p1>>, <<p2>>, <<>>}

\* The workers of a stage are interchangeable.
WorkerSymmetry == Permutations({m1, m2}) \cup Permutations({l1, l2})
=============================================================================
