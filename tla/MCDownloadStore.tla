-------------------------- MODULE MCDownloadStore --------------------------
(* Instances of DownloadStore for TLC: a file of two chunks and one of one *)
(* chunk.  The second chunk of h1 is Zero, what truncate() leaves behind.  *)
EXTENDS DownloadStore, TLC

CONSTANTS h1, h2, a, b, zero

MCTotalChunks == [h \in InfoHash |-> IF h = h1 THEN 2 ELSE 1]

MCContent == [h \in InfoHash |-> IF h = h1 THEN (0 :> a) @@ (1 :> zero) ELSE (0 :> b)]

JobSymmetry == Permutations(Job)

MCLimit == {1, NoLimit}
=============================================================================
