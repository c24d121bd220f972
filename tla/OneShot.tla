------------------------------ MODULE OneShot ------------------------------
(***************************************************************************)
(* What the ERP promises about an action on somebody else's system that    *)
(* cannot be taken back or looked up: a picture sent to the factory's      *)
(* chat, a campaign registration on the shop platform.  Work on it may be  *)
(* tried and given up as often as needed while it is "open".  Before the   *)
(* outside world is touched it becomes "claimed", it never becomes open    *)
(* again, and the outside world sees it at most once, perhaps never.       *)
(***************************************************************************)
EXTENDS Integers

CONSTANT Things

VARIABLES
    phase,      \* "open" or "claimed"
    effects     \* how often the outside world has seen it

vars == <<phase, effects>>

Init ==
    /\ phase = [t \in Things |-> "open"]
    /\ effects = [t \in Things |-> 0]

Keep(t) == phase'[t] = phase[t] /\ effects'[t] = effects[t]

Claim(t) ==
    /\ phase[t] = "open" /\ phase'[t] = "claimed"
    /\ effects'[t] = effects[t]

Act(t) ==
    /\ phase[t] = "claimed" /\ phase'[t] = "claimed"
    /\ effects[t] = 0 /\ effects'[t] = 1

Next == \A t \in Things : Keep(t) \/ Claim(t) \/ Act(t)

Spec == Init /\ [][Next]_vars

=============================================================================
