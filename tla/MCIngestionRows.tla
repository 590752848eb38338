--------------------------- MODULE MCIngestionRows ---------------------------
(* Instance of IngestionRows: two rows in batches of one, two texts and two   *)
(* model digests, which are interchangeable.                                  *)
EXTENDS IngestionRows, TLC

CONSTANTS a, b, r1, r2

MCSymmetry == Permutations({a, b}) \cup Permutations({r1, r2})
=============================================================================
