---------------------------- MODULE MCFulfilment ----------------------------
(* Small instances of Fulfilment for TLC. *)
EXTENDS Fulfilment, TLC

CONSTANTS o1, o2, o3, f1, f2, f3, m1, p1

(* Every order asks for the same product. *)
SameProduct == [o \in Orders |-> p1]
OneUncoded  == [o \in Orders |-> IF o = o3 THEN None ELSE p1]
OneEach     == [o \in Orders |-> 1]
TwoEach     == [o \in Orders |-> 2]

OnePart  == [p \in Products |-> [m \in Materials |-> 1]]
OneLeft  == [m \in Materials |-> 1]
OneUnit  == [p \in Products |-> 1]
NoUnit   == [p \in Products |-> 0]

Symmetry == Permutations(FOs)

=============================================================================
