--------------------------- MODULE MCFulfilmentTx ---------------------------
(* Small instances of FulfilmentTx for TLC. *)
EXTENDS FulfilmentTx, TLC

CONSTANTS s1, s2, s3, o1, o2, f1, f2

Symmetry == Permutations(FOs) \cup Permutations(Orders) \cup Permutations(Sessions)

=============================================================================
