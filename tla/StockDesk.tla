----------------------------- MODULE StockDesk -----------------------------
(***************************************************************************)
(* The desk of the warehouse: returned goods that come back into stock,    *)
(* products that are cut into parts and put together again, defective      *)
(* parts and stock counts.  One product, made of one part.                 *)
(*                                                                         *)
(* A request is a session of its own.  It reads rows, takes row locks and  *)
(* commits; requests overlap between the first and the last.  A row that a *)
(* session has read is not read again when the session locks it, so what   *)
(* a handler looked at before its lock is what it computes with.  Updates  *)
(* name only the columns whose value differs from the one that was read.   *)
(***************************************************************************)
EXTENDS Integers, FiniteSets

CONSTANTS
    Sessions,
    Returns,        \* after_sales rows of returned goods, one piece each
    Requests,       \* what the users ask for, each click once: [op, of, n]
    PerProduct,     \* parts of one product
    InitProduct, InitGood,
    MaxFaults,      \* bound: restarts, and errors after the commit of a request
    None

Ops == {"confirm", "damage", "cut", "undo", "defect", "repair", "scrap", "count"}

Buttons == {"defect", "repair", "scrap"}     \* for defective parts

Cuts == {q \in Requests : q.op = "cut"}

(* Requests whose handler loads its row again after the commit, for the    *)
(* answer; cut and undo answer with what they have at hand.                *)
Reloads == Ops \ {"cut", "undo"}

ASSUME DeskAssumption ==
    /\ Requests \subseteq [op : Ops, of : Returns \cup Cuts \cup {None}, n : Nat]
    /\ \A q \in Requests : /\ q.op \in {"confirm", "damage"} <=> q.of \in Returns
                           /\ q.op = "undo" <=> q.of \in Cuts
    /\ None \notin Requests /\ PerProduct \in Nat \ {0}
    /\ InitProduct \in Nat /\ InitGood \in Nat /\ MaxFaults \in Nat

VARIABLES
    verdict,    \* after_sales.second_inbound_confirmed
    tracked,    \* returns whose parcel is still polled
    product,    \* product_inventory.physical_qty
    part,       \* part_inventory: physical_qty (good) and defective_qty
    log,        \* disassembly_logs: the cuts, and those undone; counts approved
    books,      \* sums of inventory_lock_ledger: parts, returned products
    acted,      \* how often the work of a click was committed
    keys,       \* idempotency keys the process remembers, one per click
    forgot,     \* what acted was when the key of a click was last forgotten
    faults,     \* restarts and errors after a commit so far
    session

rows == <<verdict, tracked, product, part, log, books, acted>>
memory == <<keys, forgot, faults>>
vars == <<rows, memory, session>>

Free == [at |-> "free"]

(* What the handler of a click reads before it takes a lock, of the rows   *)
(* that it computes with: the return and the product, the part, or whether *)
(* the cut was undone or the count approved before.                        *)
Read(q) ==
    [verdict |-> IF q.of \in Returns THEN verdict[q.of] ELSE "open",
     product |-> IF q.op = "confirm" THEN product ELSE 0,
     part |-> IF q.op \in Buttons THEN part ELSE [good |-> 0, bad |-> 0],
     spent |-> q.of \in log.undone \/ q \in log.approved]

Init ==
    /\ verdict = [r \in Returns |-> "open"]
    /\ tracked = Returns
    /\ product = InitProduct
    /\ part = [good |-> InitGood, bad |-> 0]
    /\ log = [cut |-> {}, undone |-> {}, approved |-> {}]
    /\ books = [good |-> InitGood, bad |-> 0, returned |-> [r \in Returns |-> 0]]
    /\ acted = [q \in Requests |-> 0] /\ forgot = [q \in Requests |-> 0]
    /\ keys = {} /\ faults = 0
    /\ session = [s \in Sessions |-> Free]

-----------------------------------------------------------------------------
(* The middleware around every request *)

(* Mutant: the key is noted but not looked up. *)
ArriveMutant(s, q) ==
    /\ session[s] = Free
    /\ q.op = "undo" => q.of \in log.cut
    /\ keys' = keys \cup {q}
    /\ session' = [session EXCEPT ![s] = [at |-> "read", req |-> q, seen |-> Read(q)]]
    /\ UNCHANGED <<rows, forgot, faults>>

(* The second request of a double click has the key of the first and is    *)
(* refused; the first reads its rows.  An undo names the row of a cut.     *)
Arrive(s, q) ==
    /\ session[s] = Free /\ q \notin keys
    /\ q.op = "undo" => q.of \in log.cut
    /\ keys' = keys \cup {q}
    /\ session' = [session EXCEPT ![s] = [at |-> "read", req |-> q, seen |-> Read(q)]]
    /\ UNCHANGED <<rows, forgot, faults>>

(* Any answer but success forgets the key: the user may try again. *)
Fail(s) ==
    /\ session[s].at \in {"read", "locked"}
    /\ keys' = keys \ {session[s].req}
    /\ session' = [session EXCEPT ![s] = Free]
    /\ UNCHANGED <<rows, forgot, faults>>

At(s, op) == session[s].at = "read" /\ session[s].req.op = op

(* The handler commits its work; the answer is still to come. *)
Commit(s) ==
    /\ acted' = [acted EXCEPT ![session[s].req] = @ + 1]
    /\ session' = [session EXCEPT ![s] = [at |-> "done", req |-> session[s].req]]
    /\ UNCHANGED memory

Answer(s) ==
    /\ session[s].at = "done"
    /\ session' = [session EXCEPT ![s] = Free]
    /\ UNCHANGED <<rows, memory>>

(* The row cannot be loaded again for the answer: the work is committed,   *)
(* the user gets an error, and the key is forgotten like after any other.  *)
FailAfterCommit(s) ==
    /\ session[s].at = "done" /\ session[s].req.op \in Reloads
    /\ faults < MaxFaults
    /\ keys' = keys \ {session[s].req}
    /\ forgot' = [forgot EXCEPT ![session[s].req] = acted[session[s].req]]
    /\ faults' = faults + 1
    /\ session' = [session EXCEPT ![s] = Free]
    /\ UNCHANGED rows

(* The table of keys lives in the memory of the process. *)
Restart ==
    /\ faults < MaxFaults
    /\ keys' = {} /\ forgot' = acted /\ faults' = faults + 1
    /\ session' = [s \in Sessions |-> Free]
    /\ UNCHANGED rows

(* Nobody holds the row lock of the part. *)
PartFree == \A s \in Sessions : session[s].at # "locked"

Move(good, bad) ==
    books' = [books EXCEPT !.good = @ + good, !.bad = @ + bad]

-----------------------------------------------------------------------------
(* Returned goods *)

(* confirm_return_inbound: the flag and the product row as they were read. *)
Confirm(s) ==
    LET r == session[s].req.of
        seen == session[s].seen
    IN  /\ At(s, "confirm")
        /\ IF seen.verdict = "yes" THEN UNCHANGED <<verdict, product, books>>
           ELSE /\ verdict' = [verdict EXCEPT ![r] = "yes"]
                /\ product' = seen.product + 1
                /\ books' = [books EXCEPT !.returned[r] = @ + 1]
        /\ Commit(s)
        /\ UNCHANGED <<tracked, part, log>>

(* mark_return_damaged asks nothing about an earlier confirmation. *)
Damage(s) ==
    LET r == session[s].req.of
    IN  /\ At(s, "damage")
        /\ verdict' = IF session[s].seen.verdict = "no" THEN verdict
                      ELSE [verdict EXCEPT ![r] = "no"]
        /\ Commit(s)
        /\ UNCHANGED <<tracked, product, part, log, books>>

(* The poll of the courier reads the return, asks about other parcels and  *)
(* commits them all; a parcel that was signed for is not polled again.     *)
Poll(s, r) ==
    /\ session[s] = Free /\ r \in tracked
    /\ session' = [session EXCEPT ![s] = [at |-> "poll", of |-> r, seen |-> verdict[r]]]
    /\ UNCHANGED <<rows, memory>>

Signed(s) ==
    LET r == session[s].of
    IN  /\ session[s].at = "poll"
        /\ tracked' = tracked \ {r}
        /\ verdict' = IF session[s].seen = "yes" THEN verdict
                      ELSE [verdict EXCEPT ![r] = "yes"]
        /\ session' = [session EXCEPT ![s] = Free]
        /\ UNCHANGED <<product, part, log, books, acted, memory>>

-----------------------------------------------------------------------------
(* Products into parts and back *)

(* disassemble_product_to_parts: both rows are read under their locks. *)
Cut(s) ==
    /\ At(s, "cut") /\ PartFree /\ product >= 1
    /\ product' = product - 1
    /\ part' = [part EXCEPT !.good = @ + PerProduct]
    /\ Move(PerProduct, 0)
    /\ log' = [log EXCEPT !.cut = @ \cup {session[s].req}]
    /\ Commit(s)
    /\ UNCHANGED <<verdict, tracked>>

(* Mutant: the parts may have been used meanwhile. *)
LockUndoMutant(s) ==
    /\ At(s, "undo") /\ PartFree
    /\ ~session[s].seen.spent
    /\ session' = [session EXCEPT ![s] =
          [at |-> "locked", req |-> @.req,
           seen |-> [@.seen EXCEPT !.product = product, !.part = part]]]
    /\ UNCHANGED <<rows, memory>>

(* undo_disassembly: whether it was undone before is read without a lock,  *)
(* the part under its lock, then the product without; the quantities are   *)
(* those that the writes compute with.                                     *)
LockUndo(s) ==
    /\ At(s, "undo") /\ PartFree
    /\ ~session[s].seen.spent
    /\ part.good >= PerProduct
    /\ session' = [session EXCEPT ![s] =
          [at |-> "locked", req |-> @.req,
           seen |-> [@.seen EXCEPT !.product = product, !.part = part]]]
    /\ UNCHANGED <<rows, memory>>

Undo(s) ==
    /\ session[s].at = "locked"
    /\ product' = session[s].seen.product + 1
    /\ part' = [part EXCEPT !.good = session[s].seen.part.good - PerProduct]
    /\ Move(-PerProduct, 0)
    /\ log' = [log EXCEPT !.undone = @ \cup {session[s].req.of}]
    /\ Commit(s)
    /\ UNCHANGED <<verdict, tracked>>

-----------------------------------------------------------------------------
(* Parts *)

(* mark_part_defective and resolve_part_defective get the part row before  *)
(* the services lock it: the lock waits, the numbers are the old ones.     *)
Defect(s) ==
    LET old == session[s].seen.part
    IN  /\ At(s, "defect") /\ PartFree /\ old.good >= 1
        /\ part' = [good |-> old.good - 1, bad |-> old.bad + 1]
        /\ Move(-1, 1)
        /\ Commit(s)
        /\ UNCHANGED <<verdict, tracked, product, log>>

Resolve(s) ==
    LET old == session[s].seen.part
        back == IF session[s].req.op = "repair" THEN 1 ELSE 0
    IN  /\ At(s, "repair") \/ At(s, "scrap")
        /\ PartFree /\ old.bad >= 1
        /\ part' = [good |-> IF back = 1 THEN old.good + 1 ELSE part.good, bad |-> old.bad - 1]
        /\ Move(back, -1)
        /\ Commit(s)
        /\ UNCHANGED <<verdict, tracked, product, log>>

(* Mutant: the row is read without its lock. *)
CountMutant(s) ==
    LET to == session[s].req.n
    IN  /\ At(s, "count") /\ ~session[s].seen.spent
        /\ part' = [part EXCEPT !.good = to]
        /\ Move(to - part.good, 0)
        /\ log' = [log EXCEPT !.approved = @ \cup {session[s].req}]
        /\ Commit(s)
        /\ UNCHANGED <<verdict, tracked, product>>

(* A count, approved once, writes an absolute quantity and books the       *)
(* difference to the row it has locked.                                    *)
Count(s) ==
    LET to == session[s].req.n
    IN  /\ At(s, "count") /\ PartFree /\ ~session[s].seen.spent
        /\ part' = [part EXCEPT !.good = to]
        /\ Move(to - part.good, 0)
        /\ log' = [log EXCEPT !.approved = @ \cup {session[s].req}]
        /\ Commit(s)
        /\ UNCHANGED <<verdict, tracked, product>>

Next ==
    \/ Restart
    \/ \E s \in Sessions :
        \/ \E q \in Requests : Arrive(s, q)
        \/ \E r \in Returns : Poll(s, r)
        \/ Fail(s) \/ Answer(s) \/ FailAfterCommit(s) \/ Signed(s)
        \/ Confirm(s) \/ Damage(s) \/ Cut(s) \/ LockUndo(s)
        \/ Undo(s) \/ Defect(s) \/ Resolve(s) \/ Count(s)

Spec == Init /\ [][Next]_vars

-----------------------------------------------------------------------------
(* Properties *)

Verdicts == {"open", "yes", "no"}

Snapshots == [verdict : Verdicts, product : Nat, part : [good : Nat, bad : Nat], spent : BOOLEAN]

SessionStates ==
    [at : {"free"}] \cup [at : {"poll"}, of : Returns, seen : Verdicts]
    \cup [at : {"read", "locked"}, req : Requests, seen : Snapshots]
    \cup [at : {"done"}, req : Requests]

TypeOK ==
    /\ verdict \in [Returns -> Verdicts]
    /\ tracked \subseteq Returns
    /\ product \in Nat
    /\ part \in [good : Nat, bad : Nat]
    /\ log \in [cut : SUBSET Cuts, undone : SUBSET Cuts, approved : SUBSET Requests]
    /\ books \in [good : Int, bad : Int, returned : [Returns -> Nat]]
    /\ acted \in [Requests -> Nat] /\ forgot \in [Requests -> Nat]
    /\ keys \subseteq Requests
    /\ faults \in 0..MaxFaults
    /\ session \in [Sessions -> SessionStates]

(* However often a button is clicked, its work is committed once, and once *)
(* more for each time that the process has forgotten the key of a click    *)
(* whose work was committed: after a restart, or after an error between    *)
(* the commit and the answer.                                              *)
ClickActsOnce == \A q \in Requests : acted[q] <= forgot[q] + 1

(* Every movement of a part is in the ledger, and nothing else is. *)
PartsMatchLedger == part.good = books.good /\ part.bad = books.bad

(* Cuts, undos and counts take the row lock before they read the part: as  *)
(* long as nobody has used the buttons for defects, which do not, none of  *)
(* their updates is lost, whatever overlaps, fails or restarts.            *)
LockedWritersLoseNothing ==
    (\A q \in Requests : q.op \in Buttons => acted[q] = 0)
        => PartsMatchLedger

(* Goods that the desk has confirmed as intact are back in stock, once. *)
ConfirmedIsStockedOnce ==
    \A q \in Requests : q.op = "confirm" /\ acted[q] > 0 => books.returned[q.of] = 1

=============================================================================
