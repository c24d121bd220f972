----------------------------- MODULE Fulfilment -----------------------------
(***************************************************************************)
(* The order life cycle of the ERP and the stock it moves.                 *)
(*                                                                         *)
(* A platform order walks the status graph of models/order.py.  Its steps  *)
(* through order_service.transition create, void and ship factory orders;  *)
(* those lock, release and consume part stock and write the append-only    *)
(* lock ledger; shipping, restocking and reversals move finished-product   *)
(* stock and write the product movement table.  Imports, the courier poll  *)
(* and the return desk write the status column directly.                   *)
(*                                                                         *)
(* Every action is one API request or one row of a scheduled job, taken as *)
(* one committed transaction.  A request that ends in an HTTP error rolls  *)
(* back and is therefore not a step.  Interleaved transactions are the     *)
(* subject of module FulfilmentTx.                                         *)
(***************************************************************************)
EXTENDS Integers, FiniteSets, FiniteSetsExt

CONSTANTS
    Orders,         \* ids of rows of table orders
    FOs,            \* ids of rows of table factory_orders
    Materials,      \* part codes with a row in part_inventory
    Products,       \* product codes with a row in product_inventory
    None,           \* NULL
    ProductOf,      \* product_code of an order, or None when it is missing
    QtyOf,          \* quantity an order asks for
    Need,           \* BOM: quantity of a material per unit of a product
    Refill,         \* orders with is_refill = True
    InitPhysical,   \* part stock at the start
    InitStock,      \* finished-product stock at the start
    RestockQty,     \* quantities of factory orders in workbooks
    Forced,         \* orders an operator may drag to any kanban column
    Confirmable,    \* orders the two sign-off buttons are used on
    Imported,       \* orders that import files and the data baseline reach
    Tracked,        \* orders with a tracking number the courier poll follows
    BookNames       \* platform_order_no of factory orders in workbooks

ASSUME ConstantsAssumption ==
    /\ IsFiniteSet(Orders) /\ IsFiniteSet(FOs) /\ Orders \cap FOs = {}
    /\ None \notin Orders /\ None \notin FOs /\ None \notin Products
    /\ ProductOf \in [Orders -> Products \cup {None}]
    /\ QtyOf \in [Orders -> Nat \ {0}]
    /\ Need \in [Products -> [Materials -> Nat]]
    /\ InitPhysical \in [Materials -> Nat]
    /\ InitStock \in [Products -> Nat]
    /\ RestockQty \subseteq Nat \ {0}
    /\ Refill \subseteq Orders /\ Forced \subseteq Orders /\ Confirmable \subseteq Orders
    /\ Imported \subseteq Orders /\ Tracked \subseteq Orders
    /\ BookNames \subseteq Orders \cup {None}

VARIABLES
    order,      \* table orders: the row of each id
    fo,         \* table factory_orders: the row of each id
    ledger,     \* inventory_lock_ledger, summed per factory order, material and kind
    locked,     \* part_inventory.locked_qty
    physical,   \* part_inventory.physical_qty
    moves,      \* product_stock_movement
    stock,      \* product_inventory.physical_qty
    raised      \* data_exceptions recorded by the latest request

parts    == <<ledger, locked, physical>>
products == <<moves, stock>>
vars     == <<order, fo, ledger, locked, physical, moves, stock, raised>>

-----------------------------------------------------------------------------
(* Rows *)

Statuses ==
    {"pending_payment", "paid", "shipped", "signed", "aftersales", "cancelled"}

Transitions ==
    [pending_payment |-> {"paid", "cancelled"},
     paid            |-> {"shipped", "aftersales", "cancelled"},
     shipped         |-> {"signed", "aftersales"},
     signed          |-> {"aftersales"},
     aftersales      |-> {"signed"},
     cancelled       |-> {}]

(* "absent" is the status of an id that has no row yet.  activate tells    *)
(* whether activate_at is NULL, in the future, or already past.            *)
OrderRow ==
    [status     : Statuses \cup {"absent"},
     historical : BOOLEAN,
     activate   : {"none", "waiting", "due"},
     tracking   : BOOLEAN,
     manual     : BOOLEAN]

NewOrder(s, h, a) ==
    [status |-> s, historical |-> h, activate |-> a,
     tracking |-> FALSE, manual |-> FALSE]

(* source is source_order_id (None for a restock order), names is          *)
(* platform_order_no, delivered is actual_delivery IS NOT NULL.            *)
FORow ==
    [present   : BOOLEAN,
     source    : Orders \cup {None},
     names     : Orders \cup {None},
     product   : Products \cup {None},
     qty       : Nat,
     voided    : BOOLEAN,
     delivered : BOOLEAN]

NoFO ==
    [present |-> FALSE, source |-> None, names |-> None, product |-> None,
     qty |-> 0, voided |-> FALSE, delivered |-> FALSE]

FOFor(o) ==
    [present |-> TRUE, source |-> o, names |-> o, product |-> ProductOf[o],
     qty |-> QtyOf[o], voided |-> FALSE, delivered |-> FALSE]

LedgerKinds == {"lock", "release", "consume"}

LedgerRow == [LedgerKinds -> Nat]

NoLedger == [m \in Materials |-> [kind \in LedgerKinds |-> 0]]

Reasons == {"ship", "restock_receipt", "reversal"}

Movement == [reason : Reasons, entity : Orders \cup FOs, product : Products, qty : Int]

Exceptions ==
    {"forced_status_transition", "reopen_relock_needed", "status_side_effect_failed"}

Init ==
    /\ order = [o \in Orders |-> NewOrder("absent", FALSE, "none")]
    /\ fo = [f \in FOs |-> NoFO]
    /\ ledger = [f \in FOs |-> NoLedger]
    /\ locked = [m \in Materials |-> 0]
    /\ physical = InitPhysical
    /\ moves = {}
    /\ stock = InitStock
    /\ raised = {}

-----------------------------------------------------------------------------
(* Queries *)

Exists(o) == order[o].status # "absent"

Unused == {f \in FOs : ~fo[f].present}

Linked(o) == {f \in FOs : fo[f].present /\ fo[f].source = o}

Active(o) == {f \in Linked(o) : ~fo[f].voided}

(* Mutant: the shipment query forgets voided_at IS NULL. *)
UndeliveredAnyMutant(o) == {f \in Linked(o) : ~fo[f].delivered}

Undelivered(o) == {f \in Active(o) : ~fo[f].delivered}

(* max(x, 0) *)
Floor(x) == IF x \in Nat THEN x ELSE 0

Smaller(a, b) == IF a <= b THEN a ELSE b

HasMove(reason, e) == \E mv \in moves : mv.reason = reason /\ mv.entity = e

-----------------------------------------------------------------------------
(* inventory_lock_service *)

(* What a factory order still holds, as release_factory_order_lock sees it *)
Held(f, m) == ledger[f][m]["lock"] - ledger[f][m]["release"] - ledger[f][m]["consume"]

(* What it has not shipped, as consume_for_shipment sees it *)
Unshipped(f, m) == ledger[f][m]["lock"] - ledger[f][m]["consume"]

Requirement(product, qty) == [m \in Materials |-> Need[product][m] * qty]

WriteLedger(row, kind, qty) == [row EXCEPT ![kind] = @ + qty]

(* Every BOM line is locked whether or not the part is on hand. *)
Lock(f, need) ==
    /\ ledger' = [ledger EXCEPT ![f] =
                    [m \in Materials |-> WriteLedger(ledger[f][m], "lock", need[m])]]
    /\ locked' = [m \in Materials |-> locked[m] + need[m]]
    /\ UNCHANGED physical

Release(S) ==
    /\ ledger' = [f \in FOs |-> IF f \notin S THEN ledger[f] ELSE
                    [m \in Materials |->
                        WriteLedger(ledger[f][m], "release", Floor(Held(f, m)))]]
    /\ locked' = [m \in Materials |->
                    Floor(locked[m] - SumFunction([f \in S |-> Floor(Held(f, m))]))]
    /\ UNCHANGED physical

(* Mutant: shipping deducts the part but leaves it locked. *)
ConsumeKeepsLockMutant(S) ==
    /\ ledger' = [f \in FOs |-> IF f \notin S THEN ledger[f] ELSE
                    [m \in Materials |->
                        WriteLedger(ledger[f][m], "consume", Floor(Unshipped(f, m)))]]
    /\ physical' = [m \in Materials |->
                      Floor(physical[m] - SumFunction([f \in S |-> Floor(Unshipped(f, m))]))]
    /\ UNCHANGED locked

(* Mutant: the deductions are not clamped at zero. *)
ConsumeUnclampedMutant(S) ==
    LET taken(m) == SumFunction([f \in S |-> Floor(Unshipped(f, m))])
    IN  /\ ledger' = [f \in FOs |-> IF f \notin S THEN ledger[f] ELSE
                        [m \in Materials |->
                            WriteLedger(ledger[f][m], "consume", Floor(Unshipped(f, m)))]]
        /\ locked' = [m \in Materials |-> locked[m] - taken(m)]
        /\ physical' = [m \in Materials |-> physical[m] - taken(m)]

Consume(S) ==
    LET taken(m) == SumFunction([f \in S |-> Floor(Unshipped(f, m))])
    IN  /\ ledger' = [f \in FOs |-> IF f \notin S THEN ledger[f] ELSE
                        [m \in Materials |->
                            WriteLedger(ledger[f][m], "consume", Floor(Unshipped(f, m)))]]
        /\ locked' = [m \in Materials |-> Floor(locked[m] - taken(m))]
        /\ physical' = [m \in Materials |-> Floor(physical[m] - taken(m))]

-----------------------------------------------------------------------------
(* product_stock_ledger_service *)

Move(reason, e, p, q, newStock) ==
    /\ moves' = moves \cup {[reason |-> reason, entity |-> e, product |-> p, qty |-> q]}
    /\ stock' = [stock EXCEPT ![p] = newStock]

RecordShipment(o) ==
    LET p == ProductOf[o]
        blocked == p # None => HasMove("ship", o) \/ stock[p] = 0
    IN  \/ blocked /\ UNCHANGED products
        \/ /\ ~blocked
           /\ LET take == Smaller(QtyOf[o], stock[p])
              IN  Move("ship", o, p, -take, stock[p] - take)

RecordRestockReceipt(f) ==
    LET p == fo[f].product
        blocked == p # None => HasMove("restock_receipt", f)
    IN  \/ blocked /\ UNCHANGED products
        \/ ~blocked /\ Move("restock_receipt", f, p, fo[f].qty, stock[p] + fo[f].qty)

(* Mutants: the reversal logs what the clamp let it take; the reversal is  *)
(* logged although no stock row was found to put the quantity on.          *)
ReverseLogsClampMutant(reason, e) ==
    \/ /\ ~HasMove(reason, e) \/ HasMove("reversal", e)
       /\ UNCHANGED products
    \/ /\ ~HasMove("reversal", e)
       /\ \E mv \in moves :
            /\ mv.reason = reason /\ mv.entity = e
            /\ LET new == Floor(stock[mv.product] - mv.qty)
               IN  Move("reversal", e, mv.product, new - stock[mv.product], new)

ReverseNoRowMutant(reason, e) ==
    \/ /\ ~HasMove(reason, e) \/ HasMove("reversal", e)
       /\ UNCHANGED products
    \/ /\ ~HasMove("reversal", e)
       /\ \E mv \in moves :
            /\ mv.reason = reason /\ mv.entity = e
            /\ Move("reversal", e, mv.product, -mv.qty, stock[mv.product])

Reverse(reason, e) ==
    \/ /\ ~HasMove(reason, e) \/ HasMove("reversal", e)
       /\ UNCHANGED products
    \/ /\ ~HasMove("reversal", e)
       /\ \E mv \in moves :
            /\ mv.reason = reason /\ mv.entity = e
            /\ Move("reversal", e, mv.product, -mv.qty, Floor(stock[mv.product] - mv.qty))

-----------------------------------------------------------------------------
(* What a status change does beyond the status column.  flags are the      *)
(* exceptions the change has already recorded.                             *)

NoEffect(flags) == raised' = flags /\ UNCHANGED <<fo, parts, products>>

(* Mutant: a lock that fails is swallowed without an exception row. *)
FactoryOrderSilentMutant(o, flags) ==
    /\ UNCHANGED products
    /\ raised' = flags
    /\ \/ Linked(o) # {} /\ UNCHANGED <<fo, parts>>
       \/ /\ Linked(o) = {}
          /\ \E f \in Unused :
               /\ fo' = [fo EXCEPT ![f] = FOFor(o)]
               /\ IF ProductOf[o] = None THEN UNCHANGED parts
                  ELSE Lock(f, Requirement(ProductOf[o], QtyOf[o]))

(* generate_factory_order_for inside the try block of transition: a second *)
(* row for the order makes scalar_one_or_none raise, and a missing         *)
(* product_code makes the lock raise after the row was flushed; both are   *)
(* swallowed and recorded.                                                 *)
FactoryOrderOnPayment(o, flags) ==
    /\ UNCHANGED products
    /\ \/ /\ Cardinality(Linked(o)) > 1
          /\ raised' = flags \cup {"status_side_effect_failed"}
          /\ UNCHANGED <<fo, parts>>
       \/ \E f \in Linked(o) :
            /\ Linked(o) = {f}
            /\ raised' = IF order[o].status = "cancelled" /\ fo[f].voided
                           THEN flags \cup {"reopen_relock_needed"} ELSE flags
            /\ UNCHANGED <<fo, parts>>
       \/ /\ Linked(o) = {}
          /\ \E f \in Unused :
               /\ fo' = [fo EXCEPT ![f] = FOFor(o)]
               /\ \/ /\ ProductOf[o] = None
                     /\ raised' = flags \cup {"status_side_effect_failed"}
                     /\ UNCHANGED parts
                  \/ /\ ProductOf[o] # None
                     /\ raised' = flags
                     /\ Lock(f, Requirement(ProductOf[o], QtyOf[o]))

CancelFactoryOrders(o, flags) ==
    /\ fo' = [f \in FOs |-> IF f \in Active(o) THEN [fo[f] EXCEPT !.voided = TRUE] ELSE fo[f]]
    /\ Release(Active(o))
    /\ IF order[o].status = "shipped" THEN Reverse("ship", o) ELSE UNCHANGED products
    /\ raised' = flags

ShipFactoryOrders(o, flags) ==
    /\ fo' = [f \in FOs |->
                IF f \in Undelivered(o) THEN [fo[f] EXCEPT !.delivered = TRUE] ELSE fo[f]]
    /\ Consume(Undelivered(o))
    /\ RecordShipment(o)
    /\ raised' = flags

SideEffect(o, target, flags) ==
    \/ order[o].historical /\ NoEffect(flags)
    \/ /\ ~order[o].historical
       /\ \/ /\ target = "paid" /\ order[o].status \in {"pending_payment", "cancelled"}
             /\ FactoryOrderOnPayment(o, flags)
          \/ target = "cancelled" /\ CancelFactoryOrders(o, flags)
          \/ target = "shipped" /\ ShipFactoryOrders(o, flags)
          \/ /\ \/ target \in {"pending_payment", "signed", "aftersales"}
                \/ target = "paid" /\ order[o].status \notin {"pending_payment", "cancelled"}
             /\ NoEffect(flags)

(* order_service.transition to another status.  rows is table orders with  *)
(* the caller's own assignments; quiet keeps a forced move out of the      *)
(* exception table.                                                        *)
Transition(o, target, rows, forced, quiet) ==
    LET legal == target \in Transitions[order[o].status]
    IN  /\ target # order[o].status
        /\ legal \/ forced
        /\ order' = [rows EXCEPT ![o].status = target]
        /\ SideEffect(o, target,
             IF legal \/ quiet THEN {} ELSE {"forced_status_transition"})

-----------------------------------------------------------------------------
(* api/orders.py *)

CreateOrder(o) ==
    /\ ~Exists(o)
    /\ order' = [order EXCEPT ![o] = NewOrder("pending_payment", FALSE, "none")]
    /\ NoEffect({})

(* POST /orders/{id}/status.  force is the API flag, confirmed a kanban    *)
(* drag; both override the status graph, only the drag is quiet.           *)
ChangeStatus(o, target, quiet) ==
    /\ Exists(o)
    /\ Transition(o, target, order, o \in Forced, quiet)

(* Cancelling an order with live factory orders, disposition "future": a   *)
(* sibling order is derived first.  On an order that is already cancelled  *)
(* transition returns at once and only the sibling remains.                *)
CancelToFuture(o, n, quiet) ==
    LET rows == [order EXCEPT ![n] = NewOrder("pending_payment", FALSE, "waiting")]
    IN  /\ Exists(o) /\ Active(o) # {}
        /\ ~Exists(n) /\ n \notin Refill
        /\ ProductOf[n] = ProductOf[o] /\ QtyOf[n] = QtyOf[o]
        /\ \/ Transition(o, "cancelled", rows, o \in Forced, quiet)
           \/ order[o].status = "cancelled" /\ order' = rows /\ NoEffect({})

(* Mutant: the is_historical check is missing. *)
GenerateForHistoryMutant(o) ==
    /\ Exists(o) /\ Linked(o) = {} /\ ProductOf[o] # None
    /\ \E f \in Unused :
         /\ fo' = [fo EXCEPT ![f] = FOFor(o)]
         /\ Lock(f, Requirement(ProductOf[o], QtyOf[o]))
    /\ raised' = {}
    /\ UNCHANGED <<order, products>>

GenerateFactoryOrder(o) ==
    /\ Exists(o) /\ ~order[o].historical
    /\ Linked(o) = {} /\ ProductOf[o] # None
    /\ \E f \in Unused :
         /\ fo' = [fo EXCEPT ![f] = FOFor(o)]
         /\ Lock(f, Requirement(ProductOf[o], QtyOf[o]))
    /\ raised' = {}
    /\ UNCHANGED <<order, products>>

VoidFactoryOrder(f) ==
    /\ fo[f].present /\ ~fo[f].voided
    /\ fo' = [fo EXCEPT ![f].voided = TRUE]
    /\ Release({f})
    /\ Reverse("restock_receipt", f)
    /\ raised' = {}
    /\ UNCHANGED order

(* confirm-tracking and confirm-manual with _check_signoff *)
SignOff(o, row) ==
    \/ /\ row.tracking /\ row.manual /\ row.status = "shipped"
       /\ Transition(o, "signed", [order EXCEPT ![o] = row], FALSE, FALSE)
    \/ /\ ~(row.tracking /\ row.manual /\ row.status = "shipped")
       /\ order' = [order EXCEPT ![o] = row]
       /\ NoEffect({})

ConfirmTracking(o) == Exists(o) /\ SignOff(o, [order[o] EXCEPT !.tracking = TRUE])

ConfirmManual(o) == Exists(o) /\ SignOff(o, [order[o] EXCEPT !.manual = TRUE])

-----------------------------------------------------------------------------
(* Writers of the status column that do not go through transition *)

(* An order export is loaded: a new row, or the status of an existing row, *)
(* takes the exported value.                                               *)
ImportOrder(o, s) ==
    /\ order[o].status # s \/ order[o].historical
    /\ order' = [order EXCEPT ![o] =
                   IF Exists(o) THEN [@ EXCEPT !.status = s, !.historical = FALSE]
                                ELSE NewOrder(s, FALSE, "none")]
    /\ NoEffect({})

(* The older order importer refreshes the status alone. *)
ImportStatus(o, s) ==
    /\ Exists(o) /\ order[o].status # s
    /\ order' = [order EXCEPT ![o].status = s]
    /\ NoEffect({})

(* The generic workbook importer marks its rows historical, an existing    *)
(* row when it overwrites or the operator adopts the imported values.      *)
ImportHistory(o, s) ==
    /\ order[o].status # s \/ ~order[o].historical
    /\ order' = [order EXCEPT ![o] =
                   IF Exists(o) THEN [@ EXCEPT !.status = s, !.historical = TRUE]
                                ELSE NewOrder(s, TRUE, "none")]
    /\ NoEffect({})

(* The data baseline moves: every older order becomes historical. *)
SetBaseline(older) ==
    /\ older # {}
    /\ \A o \in older : Exists(o) /\ ~order[o].historical
    /\ order' = [o \in Orders |->
                   IF o \in older THEN [order[o] EXCEPT !.historical = TRUE] ELSE order[o]]
    /\ NoEffect({})

(* The courier poll saw the parcel moving, or signed for. *)
ParcelMoving(o) ==
    /\ order[o].status = "paid"
    /\ order' = [order EXCEPT ![o].status = "shipped"]
    /\ NoEffect({})

ParcelSigned(o) ==
    /\ Exists(o)
    /\ order' = [order EXCEPT
                   ![o].status = IF @ \in {"paid", "shipped"} THEN "signed" ELSE @,
                   ![o].tracking = TRUE]
    /\ NoEffect({})

CreateReturn(o) ==
    /\ Exists(o) /\ order[o].status \notin {"aftersales", "cancelled"}
    /\ order' = [order EXCEPT ![o].status = "aftersales"]
    /\ NoEffect({})

-----------------------------------------------------------------------------
(* Factory orders that no status change creates *)

(* Mutant: a delivered factory order no longer covers its order. *)
UncoveredByOpenMutant ==
    {o \in Orders \ Refill :
        /\ ~order[o].historical
        /\ order[o].status \in {"paid", "shipped", "signed"}
        /\ \A f \in FOs :
             fo[f].present /\ ~fo[f].voided /\ ~fo[f].delivered
               => o \notin {fo[f].source, fo[f].names}}

(* sync_from_orders: one row, without any lock, for every paid, shipped or *)
(* signed order that no live factory order covers by id or by number.      *)
Uncovered ==
    {o \in Orders \ Refill :
        /\ ~order[o].historical
        /\ order[o].status \in {"paid", "shipped", "signed"}
        /\ \A f \in FOs : fo[f].present /\ ~fo[f].voided => o \notin {fo[f].source, fo[f].names}}

SyncFromOrders ==
    /\ Uncovered # {}
    /\ \E row \in [Uncovered -> Unused] :
         /\ \A o1, o2 \in Uncovered : row[o1] = row[o2] => o1 = o2
         /\ fo' = [f \in FOs |->
                     IF \E o \in Uncovered : row[o] = f
                       THEN FOFor(CHOOSE o \in Uncovered : row[o] = f) ELSE fo[f]]
    /\ raised' = {}
    /\ UNCHANGED <<order, parts, products>>

(* The workbook importer writes a factory order without source_order_id,   *)
(* with a delivery date when the row has one...                            *)
ImportFactoryOrder(f, names, p, q, dated) ==
    /\ f \in Unused
    /\ fo' = [fo EXCEPT ![f] =
                [NoFO EXCEPT !.present = TRUE, !.names = names, !.product = p, !.qty = q,
                             !.delivered = dated]]
    /\ raised' = {}
    /\ UNCHANGED <<order, parts, products>>

(* ... and writes over one that has the number of its row: empty columns   *)
(* at once, others when it overwrites or the operator adopts the imported  *)
(* values.  A column that is empty in the workbook changes nothing.        *)
UpdateFactoryOrder(f, names, p, q, dated) ==
    /\ fo[f].present
    /\ fo' = [fo EXCEPT ![f] =
                [fo[f] EXCEPT !.names = IF names = None THEN fo[f].names ELSE names,
                              !.product = p, !.qty = q,
                              !.delivered = fo[f].delivered \/ dated]]
    /\ fo' # fo /\ raised' = {}
    /\ UNCHANGED <<order, parts, products>>

ReceiveRestock(f) ==
    /\ fo[f].present /\ ~fo[f].voided /\ fo[f].source = None
    /\ fo' = [fo EXCEPT ![f].delivered = TRUE]
    /\ RecordRestockReceipt(f)
    /\ raised' = {}
    /\ UNCHANGED <<order, parts>>

-----------------------------------------------------------------------------
(* scheduler: activation of future orders *)

FallsDue(o) ==
    /\ order[o].activate = "waiting"
    /\ order' = [order EXCEPT ![o].activate = "due"]
    /\ NoEffect({})

(* Mutant: the query compares activate_at the wrong way round. *)
ActivateEarlyMutant(o) ==
    /\ order[o].activate = "waiting" /\ order[o].status = "pending_payment"
    /\ Transition(o, "paid", [order EXCEPT ![o].activate = "none"], FALSE, FALSE)

ActivateFutureOrder(o) ==
    /\ order[o].activate = "due" /\ order[o].status = "pending_payment"
    /\ Transition(o, "paid", [order EXCEPT ![o].activate = "none"], FALSE, FALSE)

-----------------------------------------------------------------------------

StatusRequests(o) ==
    \/ CreateOrder(o)
    \/ \E target \in Statuses : \E quiet \in BOOLEAN : ChangeStatus(o, target, quiet)
    \/ \E n \in Orders, quiet \in BOOLEAN : CancelToFuture(o, n, quiet)
    \/ o \in Confirmable /\ (ConfirmTracking(o) \/ ConfirmManual(o))

DirectWrites(o) ==
    \/ /\ o \in Imported
       /\ \E s \in Statuses : ImportOrder(o, s) \/ ImportStatus(o, s) \/ ImportHistory(o, s)
    \/ o \in Tracked /\ (ParcelMoving(o) \/ ParcelSigned(o))
    \/ CreateReturn(o)

FactoryRequests ==
    \/ \E o \in Orders : GenerateFactoryOrder(o)
    \/ \E f \in FOs : VoidFactoryOrder(f) \/ ReceiveRestock(f)
    \/ \E f \in FOs, names \in BookNames, p \in Products, q \in RestockQty, dated \in BOOLEAN :
         ImportFactoryOrder(f, names, p, q, dated) \/ UpdateFactoryOrder(f, names, p, q, dated)
    \/ SyncFromOrders

Scheduler(o) == FallsDue(o) \/ ActivateFutureOrder(o)

Next ==
    \/ \E o \in Orders : StatusRequests(o) \/ DirectWrites(o) \/ Scheduler(o)
    \/ FactoryRequests
    \/ \E older \in SUBSET Imported : SetBaseline(older)

Spec == Init /\ [][Next]_vars

(* The scheduler runs the activation job every day, so a due order is      *)
(* reached again until it has been activated.                              *)
FairSpec ==
    /\ Spec
    /\ \A o \in Orders : WF_vars(FallsDue(o)) /\ WF_vars(ActivateFutureOrder(o))

-----------------------------------------------------------------------------
(* Properties *)

(* Every table holds rows of its schema, quantities never go negative. *)
TypeOK ==
    /\ order \in [Orders -> OrderRow]
    /\ fo \in [FOs -> FORow]
    /\ ledger \in [FOs -> [Materials -> LedgerRow]]
    /\ locked \in [Materials -> Nat]
    /\ physical \in [Materials -> Nat]
    /\ moves \subseteq Movement
    /\ stock \in [Products -> Nat]
    /\ raised \subseteq Exceptions

(* The locked quantity of a part is what the lock ledger says is still     *)
(* held, summed over all factory orders: no path through payment,          *)
(* cancelling, voiding and shipping loses or repeats a lock.               *)
LockedMatchesLedger ==
    \A m \in Materials : locked[m] = SumFunction([f \in FOs |-> Held(f, m)])

(* A lock ends once: a factory order is never both released and consumed   *)
(* for a part, never gives back more than it locked, and holds nothing     *)
(* once it is voided.                                                      *)
LocksSettleOnce ==
    \A f \in FOs, m \in Materials :
        /\ Held(f, m) >= 0
        /\ ledger[f][m]["release"] = 0 \/ ledger[f][m]["consume"] = 0
        /\ fo[f].voided => Held(f, m) = 0

(* At most one live factory order per platform order, although payment,    *)
(* the generate button and the batch sync can all create one.              *)
OneLiveFactoryOrder == \A o \in Orders : Cardinality(Active(o)) <= 1

(* The movement table is idempotent per event, and a reversal undoes       *)
(* exactly the one shipment or receipt of its entity.                      *)
ReversalMirrorsOriginal ==
    \A mv \in moves :
        /\ \A other \in moves :
             other.reason = mv.reason /\ other.entity = mv.entity => other = mv
        /\ mv.reason = "reversal" =>
             \E orig \in moves :
                /\ orig.reason \in {"ship", "restock_receipt"}
                /\ orig.entity = mv.entity
                /\ orig.product = mv.product /\ orig.qty = -mv.qty

(* Product stock is never below what the movement table accounts for: a    *)
(* shipment that finds too little stock logs only what it took.            *)
MovedQty(p) == SumFunction([mv \in {x \in moves : x.product = p} |-> mv.qty])

StockCoversMovements ==
    \A p \in Products : stock[p] >= InitStock[p] + MovedQty(p)

(* Nothing advances the stock flow of a historical order, whichever of the *)
(* creation and status paths runs: no new factory order, no new movement,  *)
(* and its factory orders' ledgers change only by being voided.            *)
HistoricalNotAdvanced ==
    [][\A o \in Orders :
        order'[o].historical =>
            /\ \A mv \in moves' \ moves : mv.entity # o
            /\ \A f \in FOs :
                 fo'[f].source = o =>
                    fo[f].present /\ (ledger'[f] = ledger[f] \/ fo'[f].voided)]_vars

(* A factory order that a payment creates has the whole requirement of its *)
(* order locked when the request commits, or the exception table says that *)
(* it has not: the row outlives a lock that failed.                        *)
PaymentLockFailureFlagged ==
    [][\A f \in FOs :
        ~fo[f].present /\ fo'[f].present /\ order' # order =>
            \/ "status_side_effect_failed" \in raised'
            \/ /\ fo'[f].product \in Products
               /\ \A m \in Materials :
                    ledger'[f][m]["lock"] = Requirement(fo'[f].product, fo'[f].qty)[m]]_vars

(* A voided factory order stays voided and its ledger is closed: a later   *)
(* shipment of the reopened order must not consume it.                     *)
VoidedIsFinal ==
    [][\A f \in FOs : fo[f].voided => fo'[f].voided /\ ledger'[f] = ledger[f]]_vars

(* The lock ledger keeps the promise of module PartPromise: what a factory *)
(* order holds and has used moves only as that module allows, although     *)
(* release and consume work out their quantities from ledger sums.         *)
Promise ==
    INSTANCE PartPromise WITH
        phase <- [f \in FOs |-> IF ~fo[f].present THEN "free"
                                ELSE IF fo[f].voided THEN "closed" ELSE "open"],
        held  <- [f \in FOs |-> [m \in Materials |-> Held(f, m)]],
        used  <- [f \in FOs |-> [m \in Materials |-> ledger[f][m]["consume"]]]

PartPromiseKept == Promise!Spec

(* The future order that a cancellation leaves behind does not stay unpaid *)
(* for ever: the job activates it, however often imports and operators     *)
(* change it meanwhile.  The model stops when its FO rows are used up.     *)
FutureOrderActivates ==
    \A o \in Orders :
        order[o].activate # "none" /\ order[o].status = "pending_payment"
            ~> order[o].status # "pending_payment" \/ Unused = {}

=============================================================================
