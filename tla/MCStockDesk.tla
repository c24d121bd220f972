---------------------------- MODULE MCStockDesk ----------------------------
(* Small instances of StockDesk for TLC. *)
EXTENDS StockDesk, TLC

CONSTANTS s1, s2, r1

Click(op, of, n) == [op |-> op, of |-> of, n |-> n]

TheCut == Click("cut", None, 1)

(* One click for every operation of the desk. *)
DeskRequests ==
    {Click(op, r1, 1) : op \in {"confirm", "damage"}} \cup {TheCut, Click("undo", TheCut, 1)}
    \cup {Click(op, None, 1) : op \in {"defect", "repair", "count"}}

ReturnRequests == {Click("confirm", r1, n) : n \in {1, 2}} \cup {Click("damage", r1, 1)}

PartRequests == {TheCut} \cup {Click("defect", None, n) : n \in {1, 2}}

Overlap == Permutations(Sessions)

=============================================================================
