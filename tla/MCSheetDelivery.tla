-------------------------- MODULE MCSheetDelivery --------------------------
(* Instances of SheetDelivery for TLC: lines are numbered. *)
EXTENDS SheetDelivery, TLC

SymmetricWorkers == Permutations(Workers)

=============================================================================
