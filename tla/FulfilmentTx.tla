---------------------------- MODULE FulfilmentTx ----------------------------
(***************************************************************************)
(* The requests of module Fulfilment as overlapping database transactions. *)
(*                                                                         *)
(* Each session runs one request at a time on PostgreSQL at READ           *)
(* COMMITTED: a statement sees what was committed when it started, an      *)
(* UPDATE or SELECT FOR UPDATE takes a row lock that lasts until the end   *)
(* of the transaction, and the ORM writes absolute values computed from    *)
(* what it read.  A session that fails or is chosen as a deadlock victim   *)
(* rolls back.  What its request writes becomes visible when it commits.   *)
(*                                                                         *)
(* All orders ask for one unit of one product, made of one part; forced,   *)
(* historical and restock requests are left to module Fulfilment.          *)
(***************************************************************************)
EXTENDS Integers, FiniteSets, FiniteSetsExt

CONSTANTS
    Sessions,       \* database sessions, one per request in flight
    Orders,
    FOs,
    None,
    Requests,       \* kinds of request the sessions run
    InitPhysical,
    InitStock

ASSUME TxAssumption ==
    /\ IsFiniteSet(FOs) /\ None \notin Orders /\ None \notin Sessions
    /\ Requests \subseteq {"move", "generate", "void"}
    /\ InitPhysical \in Nat /\ InitStock \in Nat

VARIABLES
    status,     \* orders.status
    fo,         \* factory_orders
    ledger,     \* inventory_lock_ledger, summed per factory order and kind
    part,       \* the part_inventory row
    stock,      \* product_inventory.physical_qty
    shipped,    \* orders with a "ship" row in product_stock_movement
    writer,     \* the session that holds the row lock of an order
    holder,     \* the session that holds the row lock of the part
    session     \* what each session has read and is about to write

tables == <<status, fo, ledger, part, stock, shipped>>
locks  == <<writer, holder>>
vars   == <<tables, locks, session>>

Transitions ==
    [pending_payment |-> {"paid", "cancelled"},
     paid            |-> {"shipped", "aftersales", "cancelled"},
     shipped         |-> {"signed", "aftersales"},
     signed          |-> {"aftersales"},
     aftersales      |-> {"signed"},
     cancelled       |-> {}]

NoFO == [source |-> None, voided |-> FALSE, delivered |-> FALSE]

NoLedger == [lock |-> 0, release |-> 0, consume |-> 0]

(* at is the next statement; rows are the factory orders the request works *)
(* on, left those it still has to visit and visit the current one; booked  *)
(* is the quantity it writes to the ledger of each; part and goods are the *)
(* values it will write to the part row and the product stock.             *)
Idle ==
    [at |-> "idle", kind |-> "move", o |-> None, target |-> "paid",
     rows |-> {}, left |-> {}, visit |-> None, booked |-> [f \in FOs |-> 0],
     part |-> [locked |-> 0, physical |-> 0], ships |-> FALSE, goods |-> 0]

Init ==
    /\ status = [o \in Orders |-> "pending_payment"]
    /\ fo = [f \in FOs |-> NoFO]
    /\ ledger = [f \in FOs |-> NoLedger]
    /\ part = [locked |-> 0, physical |-> InitPhysical]
    /\ stock = InitStock
    /\ shipped = {}
    /\ writer = [o \in Orders |-> None]
    /\ holder = None
    /\ session = [s \in Sessions |-> Idle]

-----------------------------------------------------------------------------
(* What a statement reads *)

Linked(o) == {f \in FOs : fo[f].source = o}

Active(o) == {f \in Linked(o) : ~fo[f].voided}

Undelivered(o) == {f \in Active(o) : ~fo[f].delivered}

(* Row ids come from a sequence: no two sessions insert the same one. *)
Fresh == {f \in FOs : fo[f].source = None /\ \A s \in Sessions : f \notin session[s].rows}

(* Mutant: what was released twice is not clamped. *)
FloorMutant(x) == x

Floor(x) == IF x < 0 THEN 0 ELSE x

Held(f) == ledger[f].lock - ledger[f].release - ledger[f].consume

Unshipped(f) == ledger[f].lock - ledger[f].consume

(* What a request writes to the ledger of the factory orders it visits. *)
Booking(me) ==
    CASE me.kind = "generate" \/ me.target = "paid" -> "lock"
      [] me.target = "cancelled"                    -> "release"
      [] me.target = "shipped"                      -> "consume"

Quantity(me, f) ==
    CASE Booking(me) = "lock"    -> 1
      [] Booking(me) = "release" -> Floor(Held(f))
      [] Booking(me) = "consume" -> Floor(Unshipped(f))

-----------------------------------------------------------------------------
(* A request starts *)

(* transition checks the status graph against the status it has read. *)
BeginMove(s, o, target) ==
    /\ "move" \in Requests
    /\ session[s].at = "idle"
    /\ target \in Transitions[status[o]]
    /\ session' = [session EXCEPT ![s] =
                     [Idle EXCEPT !.at = "flush", !.o = o, !.target = target]]
    /\ UNCHANGED <<tables, locks>>

BeginGenerate(s, o) ==
    /\ "generate" \in Requests
    /\ session[s].at = "idle"
    /\ Linked(o) = {}
    /\ \E f \in Fresh :
         session' = [session EXCEPT ![s] =
                       [Idle EXCEPT !.at = "ledger", !.kind = "generate", !.o = o,
                                    !.rows = {f}, !.left = {f}]]
    /\ UNCHANGED <<tables, locks>>

BeginVoid(s, f) ==
    /\ "void" \in Requests
    /\ session[s].at = "idle"
    /\ fo[f].source # None /\ ~fo[f].voided
    /\ session' = [session EXCEPT ![s] =
                     [Idle EXCEPT !.at = "ledger", !.kind = "void", !.target = "cancelled",
                                  !.rows = {f}, !.left = {f}]]
    /\ UNCHANGED <<tables, locks>>

-----------------------------------------------------------------------------
(* The statements of a request *)

(* Mutant: the status is flushed only when the transaction commits. *)
FlushStatusMutant(s) ==
    /\ session[s].at = "flush"
    /\ session' = [session EXCEPT ![s].at = "rows"]
    /\ UNCHANGED <<tables, locks>>

(* UPDATE orders SET status: the row lock comes after the status was read. *)
FlushStatus(s) ==
    /\ session[s].at = "flush"
    /\ writer[session[s].o] = None
    /\ writer' = [writer EXCEPT ![session[s].o] = s]
    /\ session' = [session EXCEPT ![s].at = "rows"]
    /\ UNCHANGED <<tables, holder>>

(* SELECT the factory orders of the order, or INSERT its first one. *)
FindRows(s) ==
    LET me == session[s]
        Found(rows, at) ==
            session' = [session EXCEPT ![s].at = at, ![s].rows = rows, ![s].left = rows]
    IN  /\ me.at = "rows"
        /\ \/ /\ me.target = "paid" /\ Linked(me.o) = {}
              /\ \E f \in Fresh : Found({f}, "ledger")
           \/ me.target = "paid" /\ Linked(me.o) # {} /\ Found({}, "commit")
           \/ me.target = "cancelled" /\ Found(Active(me.o), "ledger")
           \/ me.target = "shipped" /\ Found(Undelivered(me.o), "ledger")
           \/ me.target \in {"signed", "aftersales"} /\ Found({}, "commit")
        /\ UNCHANGED <<tables, locks>>

(* SELECT the ledger rows of the next factory order. *)
ReadLedger(s) ==
    /\ session[s].at = "ledger"
    /\ \/ \E f \in session[s].left :
            LET quantity == Quantity(session[s], f)
            IN  session' = [session EXCEPT
                   ![s].at = IF quantity > 0 THEN "part" ELSE "ledger",
                   ![s].left = @ \ {f},
                   ![s].visit = f,
                   ![s].booked[f] = quantity]
       \/ /\ session[s].left = {}
          /\ session' = [session EXCEPT
                ![s].at = IF Booking(session[s]) = "consume" THEN "stock" ELSE "commit"]
    /\ UNCHANGED <<tables, locks>>

Book(row, booking, quantity) ==
    CASE booking = "lock"    -> [row EXCEPT !.locked = @ + quantity]
      [] booking = "release" -> [row EXCEPT !.locked = Floor(@ - quantity)]
      [] booking = "consume" -> [locked   |-> Floor(row.locked - quantity),
                                 physical |-> Floor(row.physical - quantity)]

(* Mutant: the part row is read without FOR UPDATE, its lock comes with    *)
(* the UPDATE of the commit.                                               *)
TakePartMutant(s) ==
    LET me == session[s]
    IN  /\ me.at = "part"
        /\ session' = [session EXCEPT ![s].at = "ledger",
                         ![s].part = Book(part, Booking(me), me.booked[me.visit])]
        /\ UNCHANGED <<tables, locks>>

(* SELECT the part row FOR UPDATE, compute its new value. *)
TakePart(s) ==
    LET me == session[s]
        row == IF holder = s THEN me.part ELSE part
    IN  /\ me.at = "part"
        /\ holder \in {None, s}
        /\ holder' = s
        /\ session' = [session EXCEPT ![s].at = "ledger",
                         ![s].part = Book(row, Booking(me), me.booked[me.visit])]
        /\ UNCHANGED <<tables, writer>>

(* record_shipment: the stock row is read without a lock. *)
ReadStock(s) ==
    LET ships == session[s].o \notin shipped /\ stock > 0
    IN  /\ session[s].at = "stock"
        /\ session' = [session EXCEPT ![s].at = "commit", ![s].ships = ships,
                         ![s].goods = IF ships THEN stock - 1 ELSE stock]
        /\ UNCHANGED <<tables, locks>>

-----------------------------------------------------------------------------
(* The request ends *)

Unlock(s) ==
    /\ writer' = [o \in Orders |-> IF writer[o] = s THEN None ELSE writer[o]]
    /\ holder' = IF holder = s THEN None ELSE holder

(* Mutant: an error path returns the connection with its locks. *)
RollbackMutant(s) ==
    /\ session[s].at # "idle"
    /\ session' = [session EXCEPT ![s] = Idle]
    /\ UNCHANGED <<tables, locks>>

(* Any statement may fail; the request ends without a trace. *)
Rollback(s) ==
    /\ session[s].at # "idle"
    /\ Unlock(s)
    /\ session' = [session EXCEPT ![s] = Idle]
    /\ UNCHANGED tables

Written(me, f) ==
    CASE Booking(me) = "lock"    -> [NoFO EXCEPT !.source = me.o]
      [] Booking(me) = "release" -> [fo[f] EXCEPT !.voided = TRUE]
      [] Booking(me) = "consume" -> [fo[f] EXCEPT !.delivered = TRUE]

Commit(s) ==
    LET me == session[s]
    IN  /\ me.at = "commit"
        /\ status' = IF me.kind = "move" THEN [status EXCEPT ![me.o] = me.target] ELSE status
        /\ fo' = [f \in FOs |-> IF f \in me.rows THEN Written(me, f) ELSE fo[f]]
        /\ ledger' = [f \in FOs |-> IF f \in me.rows
                        THEN [ledger[f] EXCEPT ![Booking(me)] = @ + me.booked[f]] ELSE ledger[f]]
        /\ part' = IF \E f \in me.rows : me.booked[f] > 0 THEN me.part ELSE part
        /\ stock' = IF me.ships THEN me.goods ELSE stock
        /\ shipped' = IF me.ships THEN shipped \cup {me.o} ELSE shipped
        /\ Unlock(s)
        /\ session' = [session EXCEPT ![s] = Idle]

-----------------------------------------------------------------------------

Begin(s) ==
    \/ \E o \in Orders : BeginGenerate(s, o) \/ \E target \in DOMAIN Transitions : BeginMove(s, o, target)
    \/ \E f \in FOs : BeginVoid(s, f)

Statement(s) == FindRows(s) \/ ReadLedger(s) \/ ReadStock(s) \/ Commit(s)

Next == \E s \in Sessions : Begin(s) \/ FlushStatus(s) \/ TakePart(s) \/ Statement(s) \/ Rollback(s)

Spec == Init /\ [][Next]_vars

(* A running request executes its next statement.  PostgreSQL grants a row *)
(* lock in the order of the requests for it, so a session that keeps       *)
(* waiting gets it.                                                        *)
FairSpec ==
    /\ Spec
    /\ \A s \in Sessions :
         WF_vars(Statement(s)) /\ SF_vars(FlushStatus(s)) /\ SF_vars(TakePart(s))

-----------------------------------------------------------------------------
(* Properties *)

(* Whatever overlaps, fails or rolls back, every row and every value that  *)
(* a session is about to write is one the columns allow: no quantity is    *)
(* negative.                                                               *)
TypeOK ==
    /\ status \in [Orders -> DOMAIN Transitions]
    /\ fo \in [FOs -> [source : Orders \cup {None}, voided : BOOLEAN, delivered : BOOLEAN]]
    /\ ledger \in [FOs -> [lock : Nat, release : Nat, consume : Nat]]
    /\ part \in [locked : Nat, physical : Nat]
    /\ stock \in Nat /\ shipped \subseteq Orders
    /\ writer \in [Orders -> Sessions \cup {None}] /\ holder \in Sessions \cup {None}
    /\ session \in [Sessions ->
         [at : {"idle", "flush", "rows", "ledger", "part", "stock", "commit"},
          kind : {"move", "generate", "void"}, o : Orders \cup {None}, target : DOMAIN Transitions,
          rows : SUBSET FOs, left : SUBSET FOs, visit : FOs \cup {None}, booked : [FOs -> Nat],
          part : [locked : Nat, physical : Nat], ships : BOOLEAN, goods : Nat]]

(* The part row agrees with the ledger after every commit, although each   *)
(* request computes from a ledger and a row that it read at different      *)
(* moments.                                                                *)
LockedMatchesLedger == part.locked = SumFunction([f \in FOs |-> Held(f)])

(* Even when a request settles a lock from a ledger that is out of date,   *)
(* the part row never shows less locked than the ledger asks for.          *)
LockedCoversLedger == part.locked >= SumFunction([f \in FOs |-> Held(f)])

(* However requests overlap, a lock is released or consumed once. *)
LocksSettleOnce ==
    \A f \in FOs :
        /\ ledger[f].release + ledger[f].consume <= ledger[f].lock
        /\ fo[f].voided => Held(f) = 0

(* Two payments of one order that overlap create one factory order. *)
OneLiveFactoryOrder == \A o \in Orders : Cardinality(Active(o)) <= 1

(* Overlapping requests keep the promise of module PartPromise: each       *)
(* commit opens, delivers or gives back the factory orders it writes as a  *)
(* whole, and leaves the others.                                           *)
Promise ==
    INSTANCE PartPromise WITH
        Materials <- {"part"},
        phase <- [f \in FOs |-> IF fo[f].source = None THEN "free"
                                ELSE IF fo[f].voided THEN "closed" ELSE "open"],
        held <- [f \in FOs |-> [m \in {"part"} |-> Held(f)]],
        used <- [f \in FOs |-> [m \in {"part"} |-> ledger[f].consume]]

PartPromiseKept == Promise!Spec

(* No request waits for ever: the order row is always locked before the    *)
(* part row.                                                               *)
RequestsEnd == \A s \in Sessions : session[s].at # "idle" ~> session[s].at = "idle"

=============================================================================
