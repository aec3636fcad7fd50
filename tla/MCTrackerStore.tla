--------------------------- MODULE MCTrackerStore ---------------------------
(* Instances of TrackerStore for TLC: the two metadata of the file differ  *)
(* in their number of chunks.                                              *)
EXTENDS TrackerStore, TLC

CONSTANTS m1, m2

MCTotalChunks == [m \in Meta |-> IF m = m1 THEN 1 ELSE 2]

RequestSymmetry == Permutations(Request)
=============================================================================
