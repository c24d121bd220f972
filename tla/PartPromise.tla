---------------------------- MODULE PartPromise ----------------------------
(***************************************************************************)
(* What inventory_lock_service promises about the parts of a factory       *)
(* order, as a caller sees it.  A factory order reserves its parts once,   *)
(* when it is created.  What it has reserved is used up by its delivery or *)
(* given back when it is voided, in one piece and only once, and a voided  *)
(* factory order is out of the game for good.                              *)
(***************************************************************************)
EXTENDS Integers

CONSTANTS FOs, Materials

VARIABLES
    phase,      \* "free" (no row yet), "open" or "closed" (voided)
    held,       \* parts the factory order reserves
    used        \* parts it has taken out of stock

vars == <<phase, held, used>>

Nothing == [m \in Materials |-> 0]

Init ==
    /\ phase = [f \in FOs |-> "free"]
    /\ held = [f \in FOs |-> Nothing]
    /\ used = [f \in FOs |-> Nothing]

Keep(f) == phase'[f] = phase[f] /\ held'[f] = held[f] /\ used'[f] = used[f]

(* Created, with or without its parts reserved. *)
Open(f) ==
    /\ phase[f] = "free" /\ phase'[f] = "open"
    /\ held'[f] \in [Materials -> Nat]
    /\ used'[f] = used[f]

Deliver(f) ==
    /\ phase[f] = "open" /\ phase'[f] = "open"
    /\ held'[f] = Nothing
    /\ used'[f] = [m \in Materials |-> used[f][m] + held[f][m]]

GiveBack(f) ==
    /\ phase[f] = "open" /\ phase'[f] = "closed"
    /\ held'[f] = Nothing
    /\ used'[f] = used[f]

(* One request may work for several factory orders. *)
Next == \A f \in FOs : Keep(f) \/ Open(f) \/ Deliver(f) \/ GiveBack(f)

Spec == Init /\ [][Next]_vars

=============================================================================
