------------------------ MODULE FulfilmentTx_proofs ------------------------
(***************************************************************************)
(* Theorems about module FulfilmentTx, for any number of sessions, orders  *)
(* and factory orders.                                                     *)
(***************************************************************************)
EXTENDS FulfilmentTx, SumTheorems, FiniteSetTheorems, TLAPS

FORow == [source : Orders \cup {None}, voided : BOOLEAN, delivered : BOOLEAN]

LedgerRow == [lock : Nat, release : Nat, consume : Nat]

PartRow == [locked : Nat, physical : Nat]

SessionType ==
    [at : {"idle", "flush", "rows", "ledger", "part", "stock", "commit"},
     kind : {"move", "generate", "void"}, o : Orders \cup {None}, target : DOMAIN Transitions,
     rows : SUBSET FOs, left : SUBSET FOs, visit : FOs \cup {None}, booked : [FOs -> Nat],
     part : PartRow, ships : BOOLEAN, goods : Nat]

Booked == {"paid", "cancelled", "shipped"}

(* What a request in flight is about *)
Purpose(me) ==
    /\ me.kind = "move" /\ me.at # "idle" => me.o \in Orders
    /\ me.kind = "generate" => me.target = "paid"
    /\ me.kind = "void" => me.target = "cancelled"
    /\ me.rows # {} \/ me.at \in {"ledger", "part", "stock"} => me.target \in Booked
    /\ me.at = "part" => me.visit \in FOs
    /\ me.at = "stock" => me.target = "shipped"
    /\ me.ships => me.o \in Orders
    /\ me.left \subseteq me.rows

TInv == TypeOK /\ \A s \in Sessions : Purpose(session[s])

-----------------------------------------------------------------------------
(* Values *)

LEMMA FloorNat == ASSUME NEW x \in Int PROVE Floor(x) \in Nat /\ (x >= 0 => Floor(x) = x)
BY DEF Floor

LEMMA States ==
  /\ DOMAIN Transitions = {"pending_payment", "paid", "shipped", "signed", "aftersales", "cancelled"}
  /\ \A x \in DOMAIN Transitions : Transitions[x] \subseteq DOMAIN Transitions
BY DEF Transitions

(* The kind of entry a request writes depends on its target. *)
LEMMA Bookings ==
  ASSUME NEW me, Purpose(me)
  PROVE  /\ me.target = "paid" => Booking(me) = "lock"
         /\ me.target = "cancelled" => Booking(me) = "release"
         /\ me.target = "shipped" => Booking(me) = "consume"
BY DEF Purpose, Booking

LEMMA QuantityNat ==
  ASSUME TypeOK, NEW me, Purpose(me), me.target \in Booked, NEW f \in FOs
  PROVE  Quantity(me, f) \in Nat
<1>1. Held(f) \in Int /\ Unshipped(f) \in Int
  BY DEF TypeOK, Held, Unshipped
<1>2. Floor(Held(f)) \in Nat /\ Floor(Unshipped(f)) \in Nat
  BY <1>1, FloorNat
<1> QED
  BY <1>2, Bookings DEF Booked, Quantity

LEMMA BookTyped ==
  ASSUME NEW row \in PartRow, NEW booking \in {"lock", "release", "consume"}, NEW q \in Nat
  PROVE  Book(row, booking, q) \in PartRow
<1>1. row.locked - q \in Int /\ row.physical - q \in Int /\ row.locked + q \in Nat
  BY DEF PartRow
<1>2. Floor(row.locked - q) \in Nat /\ Floor(row.physical - q) \in Nat
  BY <1>1, FloorNat
<1> QED
  BY <1>1, <1>2 DEF Book, PartRow

-----------------------------------------------------------------------------
(* What a step does to the session that takes it *)

(* The session is x afterwards and the others stay. *)
Becomes(s, x) ==
    /\ session' \in [Sessions -> SessionType]
    /\ session'[s] = x
    /\ \A t \in Sessions \ {s} : session'[t] = session[t]

LEMMA SetSession ==
  ASSUME TypeOK, NEW s \in Sessions, NEW x \in SessionType, session' = [session EXCEPT ![s] = x]
  PROVE  Becomes(s, x)
BY DEF TypeOK, SessionType, PartRow, Becomes

(* The tables and locks, without the sessions. *)
TablesTyped ==
    /\ status \in [Orders -> DOMAIN Transitions]
    /\ fo \in [FOs -> FORow]
    /\ ledger \in [FOs -> LedgerRow]
    /\ part \in PartRow
    /\ stock \in Nat /\ shipped \subseteq Orders
    /\ writer \in [Orders -> Sessions \cup {None}] /\ holder \in Sessions \cup {None}

LEMMA Shape ==
  ASSUME TInv, NEW s \in Sessions
  PROVE  /\ session \in [Sessions -> SessionType] /\ session[s] \in SessionType
         /\ Purpose(session[s]) /\ TablesTyped
BY DEF TInv, TypeOK, TablesTyped, SessionType, PartRow, LedgerRow, FORow

(* A step of one session that keeps the tables typed. *)
LEMMA KeepsTypes ==
  ASSUME TInv, NEW s \in Sessions, NEW x, Becomes(s, x), Purpose(x), TablesTyped'
  PROVE  TInv'
<1>1. TypeOK'
  BY DEF TypeOK, TablesTyped, Becomes, SessionType, PartRow, LedgerRow, FORow
<1>2. ASSUME NEW t \in Sessions PROVE Purpose(session'[t])
  <2>1. CASE t = s
    BY <2>1 DEF Becomes
  <2>2. CASE t # s
    <3>1. session'[t] = session[t] /\ Purpose(session[t])
      BY <2>2 DEF Becomes, TInv
    <3> QED
      BY <3>1
  <2> QED
    BY <2>1, <2>2
<1> QED
  BY <1>1, <1>2 DEF TInv

(* The values that the statements give to a session *)
BeginsMove(o, target) == [Idle EXCEPT !.at = "flush", !.o = o, !.target = target]

BeginsGenerate(o, f) ==
    [Idle EXCEPT !.at = "ledger", !.kind = "generate", !.o = o, !.rows = {f}, !.left = {f}]

BeginsVoid(f) ==
    [Idle EXCEPT !.at = "ledger", !.kind = "void", !.target = "cancelled", !.rows = {f}, !.left = {f}]

GoesTo(me, at) == [me EXCEPT !.at = at]

Finds(me, rows, at) == [me EXCEPT !.at = at, !.rows = rows, !.left = rows]

Reads(me, f) ==
    [me EXCEPT !.at = IF Quantity(me, f) > 0 THEN "part" ELSE "ledger", !.left = me.left \ {f},
               !.visit = f, !.booked = [me.booked EXCEPT ![f] = Quantity(me, f)]]

Takes(me, row) == [me EXCEPT !.at = "ledger", !.part = row]

(* The value a session computes for the part row *)
RowTaken(s) ==
    LET me == session[s]
    IN  Book(IF holder = s THEN me.part ELSE part, Booking(me), me.booked[me.visit])

ReadsStock(me, ships, goods) == [me EXCEPT !.at = "commit", !.ships = ships, !.goods = goods]

LEMMA IdleTyped == Idle \in SessionType /\ Purpose(Idle)
<1>1. [f \in FOs |-> 0] \in [FOs -> Nat]
  OBVIOUS
<1> QED
  BY <1>1, States DEF Idle, SessionType, PartRow, Purpose, Booked

LEMMA MoveBegins ==
  ASSUME TInv, NEW s \in Sessions, NEW o \in Orders, NEW target \in DOMAIN Transitions,
         BeginMove(s, o, target)
  PROVE  Becomes(s, BeginsMove(o, target)) /\ Purpose(BeginsMove(o, target))
<1> DEFINE x == BeginsMove(o, target)
<1>1. x \in SessionType
  BY IdleTyped DEF SessionType, BeginsMove
<1>2. Purpose(x)
  BY DEF Purpose, Idle, BeginsMove
<1>3. session' = [session EXCEPT ![s] = x]
  BY DEF BeginMove, BeginsMove
<1> QED
  BY <1>1, <1>2, <1>3, SetSession DEF TInv

LEMMA GenerateBegins ==
  ASSUME TInv, NEW s \in Sessions, NEW o \in Orders, BeginGenerate(s, o)
  PROVE  \E f \in Fresh : Becomes(s, BeginsGenerate(o, f)) /\ Purpose(BeginsGenerate(o, f))
<1>1. PICK f \in Fresh : session' = [session EXCEPT ![s] = BeginsGenerate(o, f)]
  BY DEF BeginGenerate, BeginsGenerate
<1>2. f \in FOs
  BY DEF Fresh
<1>3. BeginsGenerate(o, f) \in SessionType
  BY <1>2, IdleTyped DEF SessionType, BeginsGenerate
<1>4. Purpose(BeginsGenerate(o, f))
  BY DEF Purpose, Idle, BeginsGenerate, Booked
<1> QED
  BY <1>1, <1>3, <1>4, SetSession DEF TInv

LEMMA VoidBegins ==
  ASSUME TInv, NEW s \in Sessions, NEW f \in FOs, BeginVoid(s, f)
  PROVE  Becomes(s, BeginsVoid(f)) /\ Purpose(BeginsVoid(f))
<1>1. session' = [session EXCEPT ![s] = BeginsVoid(f)]
  BY DEF BeginVoid, BeginsVoid
<1>2. BeginsVoid(f) \in SessionType
  BY IdleTyped, States DEF SessionType, BeginsVoid
<1>3. Purpose(BeginsVoid(f))
  BY DEF Purpose, Idle, BeginsVoid, Booked
<1> QED
  BY <1>1, <1>2, <1>3, SetSession DEF TInv

LEMMA Flushes ==
  ASSUME TInv, NEW s \in Sessions, FlushStatus(s)
  PROVE  Becomes(s, GoesTo(session[s], "rows")) /\ Purpose(GoesTo(session[s], "rows"))
<1>1. session' = [session EXCEPT ![s] = GoesTo(session[s], "rows")]
  BY DEF FlushStatus, GoesTo
<1>2. GoesTo(session[s], "rows") \in SessionType
  <2>1. session[s] \in SessionType
    BY Shape
  <2> QED
    BY <2>1 DEF SessionType, GoesTo
<1>3. Purpose(GoesTo(session[s], "rows"))
  <2>1. session[s] \in SessionType /\ Purpose(session[s]) /\ session[s].at = "flush"
    BY Shape DEF FlushStatus
  <2> QED
    BY <2>1 DEF Purpose, GoesTo, SessionType
<1> QED
  BY <1>1, <1>2, <1>3, SetSession DEF TInv

(* The rows a request finds, and where it goes on *)
LEMMA FindsRows ==
  ASSUME TInv, NEW s \in Sessions, FindRows(s)
  PROVE  LET me == session[s]
         IN  \E rows \in SUBSET FOs, at \in {"ledger", "commit"} :
               /\ Becomes(s, Finds(me, rows, at)) /\ Purpose(Finds(me, rows, at))
               /\ me.at = "rows"
               /\ rows = {} \/ at = "ledger"
               /\ \/ me.target = "paid" /\ Linked(me.o) = {} /\ \E f \in Fresh : rows = {f}
                  \/ rows = {}
                  \/ me.target = "cancelled" /\ rows = Active(me.o)
                  \/ me.target = "shipped" /\ rows = Undelivered(me.o)
<1> DEFINE me == session[s]
<1>1. me \in SessionType /\ Purpose(me) /\ me.at = "rows"
  BY Shape DEF FindRows
<1>2. PICK rows, at :
        /\ session' = [session EXCEPT ![s].at = at, ![s].rows = rows, ![s].left = rows]
        /\ at \in {"ledger", "commit"}
        /\ rows = {} \/ at = "ledger"
        /\ at = "ledger" => me.target \in Booked
        /\ \/ me.target = "paid" /\ Linked(me.o) = {} /\ \E f \in Fresh : rows = {f}
           \/ rows = {}
           \/ me.target = "cancelled" /\ rows = Active(me.o)
           \/ me.target = "shipped" /\ rows = Undelivered(me.o)
  BY DEF FindRows, Booked
<1>3. rows \in SUBSET FOs
  BY <1>2 DEF Fresh, Active, Linked, Undelivered
<1>4. Finds(me, rows, at) \in SessionType
  BY <1>1, <1>2, <1>3 DEF SessionType, Finds
<1>5. session' = [session EXCEPT ![s] = Finds(me, rows, at)]
  BY <1>2, Shape DEF Finds, SessionType
<1>6. Purpose(Finds(me, rows, at))
  BY <1>1, <1>2, <1>3 DEF Purpose, Finds, SessionType
<1> QED
  BY <1>1, <1>2, <1>3, <1>4, <1>5, <1>6, SetSession DEF TInv

LEMMA ReadsLedger ==
  ASSUME TInv, NEW s \in Sessions, ReadLedger(s)
  PROVE  LET me == session[s]
         IN  /\ me.at = "ledger"
             /\ \/ \E f \in me.left : Becomes(s, Reads(me, f)) /\ Purpose(Reads(me, f))
                \/ /\ me.left = {}
                   /\ \E at \in {"stock", "commit"} :
                        Becomes(s, GoesTo(me, at)) /\ Purpose(GoesTo(me, at))
<1> DEFINE me == session[s]
<1>1. me \in SessionType /\ Purpose(me) /\ me.at = "ledger" /\ me.target \in Booked
  BY Shape DEF ReadLedger, Purpose
<1>2. ASSUME NEW f \in me.left,
             session' = [session EXCEPT ![s].at = IF Quantity(me, f) > 0 THEN "part" ELSE "ledger",
                                        ![s].left = @ \ {f}, ![s].visit = f,
                                        ![s].booked[f] = Quantity(me, f)]
      PROVE  Becomes(s, Reads(me, f)) /\ Purpose(Reads(me, f))
  <2>1. f \in FOs
    BY <1>1 DEF SessionType
  <2>2. Quantity(me, f) \in Nat
    BY <1>1, <2>1, QuantityNat DEF TInv
  <2>3. [me.booked EXCEPT ![f] = Quantity(me, f)] \in [FOs -> Nat]
    BY <1>1, <2>2 DEF SessionType
  <2>4. Reads(me, f) \in SessionType
    BY <1>1, <2>1, <2>3 DEF SessionType, Reads
  <2>5. session' = [session EXCEPT ![s] = Reads(me, f)]
    BY <1>1, <1>2, Shape DEF SessionType, Reads
  <2>6. Purpose(Reads(me, f))
    BY <1>1, <2>1 DEF Purpose, Reads, SessionType
  <2> QED
    BY <2>4, <2>5, <2>6, SetSession DEF TInv
<1>3. ASSUME me.left = {}, NEW at \in {"stock", "commit"}, at = "stock" => Booking(me) = "consume",
             session' = [session EXCEPT ![s].at = at]
      PROVE  Becomes(s, GoesTo(me, at)) /\ Purpose(GoesTo(me, at))
  <2>1. GoesTo(me, at) \in SessionType
    BY <1>1 DEF SessionType, GoesTo
  <2>2. session' = [session EXCEPT ![s] = GoesTo(me, at)]
    BY <1>1, <1>3, Shape DEF SessionType, GoesTo
  <2>3. at = "stock" => me.target = "shipped"
    BY <1>1, <1>3, Bookings DEF Booked
  <2>4. Purpose(GoesTo(me, at))
    BY <1>1, <2>3 DEF Purpose, GoesTo, SessionType
  <2> QED
    BY <2>1, <2>2, <2>4, SetSession DEF TInv
<1> QED
  BY <1>1, <1>2, <1>3 DEF ReadLedger

LEMMA TakesPart ==
  ASSUME TInv, NEW s \in Sessions, TakePart(s)
  PROVE  LET x == Takes(session[s], RowTaken(s))
         IN  /\ RowTaken(s) \in PartRow /\ Becomes(s, x) /\ Purpose(x)
             /\ Booking(session[s]) \in {"lock", "release", "consume"}
<1> DEFINE me == session[s]
           row == RowTaken(s)
<1>1. me \in SessionType /\ Purpose(me) /\ me.at = "part" /\ me.target \in Booked /\ me.visit \in FOs
  BY Shape DEF TakePart, Purpose
<1>2. row \in PartRow /\ Booking(me) \in {"lock", "release", "consume"}
  <2>1. (IF holder = s THEN me.part ELSE part) \in PartRow
    BY <1>1, Shape DEF SessionType, TablesTyped
  <2>2. Booking(me) \in {"lock", "release", "consume"}
    BY <1>1, Bookings DEF Booked
  <2>3. me.booked[me.visit] \in Nat
    BY <1>1 DEF SessionType
  <2> QED
    BY <2>1, <2>2, <2>3, BookTyped DEF RowTaken
<1>3. session' = [session EXCEPT ![s] = Takes(me, row)]
  BY <1>1, Shape DEF TakePart, Takes, SessionType, RowTaken
<1>4. Takes(me, row) \in SessionType /\ Purpose(Takes(me, row))
  <2> HIDE DEF row
  <2> QED
    BY <1>1, <1>2 DEF Takes, SessionType, Purpose
<1> HIDE DEF row
<1>5. Becomes(s, Takes(me, row))
  BY <1>3, <1>4, SetSession DEF TInv
<1> QED
  BY <1>2, <1>4, <1>5 DEF row

LEMMA StockRead ==
  ASSUME TInv, NEW s \in Sessions, ReadStock(s)
  PROVE  /\ session[s].at = "stock"
         /\ \E ships \in BOOLEAN, goods \in Nat :
              LET x == ReadsStock(session[s], ships, goods)
              IN  Becomes(s, x) /\ Purpose(x)
<1> DEFINE me == session[s]
           ships == me.o \notin shipped /\ stock > 0
           goods == IF ships THEN stock - 1 ELSE stock
           x == ReadsStock(me, ships, goods)
<1>1. me \in SessionType /\ Purpose(me) /\ me.at = "stock" /\ me.o \in Orders
  BY Shape DEF ReadStock, Purpose, SessionType
<1>2. ships \in BOOLEAN /\ goods \in Nat
  BY Shape DEF TablesTyped
<1>3. session' = [session EXCEPT ![s] = x]
  BY <1>1, Shape DEF ReadStock, ReadsStock, SessionType
<1>4. x \in SessionType /\ Purpose(x)
  <2> HIDE DEF ships, goods
  <2> QED
    BY <1>1, <1>2 DEF ReadsStock, SessionType, Purpose
<1> HIDE DEF ships, goods
<1> QED
  BY <1>1, <1>2, <1>3, <1>4, SetSession DEF TInv

-----------------------------------------------------------------------------
(* Types *)

LEMMA TypeInit == Init => TInv
<1> SUFFICES ASSUME Init PROVE TInv
  OBVIOUS
<1>1. \A s \in Sessions : session[s] = Idle /\ Idle \in SessionType /\ Purpose(Idle)
  BY IdleTyped DEF Init
<1>2. session \in [Sessions -> SessionType]
  BY <1>1 DEF Init
<1>3. TablesTyped
  BY TxAssumption, States DEF Init, TablesTyped, NoFO, FORow, NoLedger, LedgerRow, PartRow
<1> QED
  BY <1>1, <1>2, <1>3 DEF TInv, TypeOK, TablesTyped, SessionType, FORow, LedgerRow, PartRow

LEMMA UnlockTyped ==
  ASSUME TablesTyped, NEW s \in Sessions, Unlock(s)
  PROVE  /\ writer' \in [Orders -> Sessions \cup {None}]
         /\ holder' \in Sessions \cup {None}
BY DEF TablesTyped, Unlock

(* What a commit leaves behind has its types. *)
LEMMA CommitTyped ==
  ASSUME TInv, NEW s \in Sessions, Commit(s)
  PROVE  TablesTyped' /\ Becomes(s, Idle)
<1> DEFINE me == session[s]
<1>1. me \in SessionType /\ Purpose(me) /\ TablesTyped
  BY Shape
<1>2. status' \in [Orders -> DOMAIN Transitions]
  BY <1>1 DEF Commit, TablesTyped, SessionType
<1>3. ASSUME NEW f \in FOs, f \in me.rows
      PROVE  /\ Booking(me) \in {"lock", "release", "consume"}
             /\ Written(me, f) \in FORow
             /\ [ledger[f] EXCEPT ![Booking(me)] = @ + me.booked[f]] \in LedgerRow
  <2>1. me.target \in Booked
    BY <1>1, <1>3 DEF Purpose
  <2>2. Booking(me) \in {"lock", "release", "consume"}
    BY <1>1, <2>1, Bookings DEF Booked
  <2>3. fo[f] \in FORow /\ ledger[f] \in LedgerRow /\ me.booked[f] \in Nat /\ me.o \in Orders \cup {None}
    BY <1>1 DEF TablesTyped, SessionType
  <2>4. Written(me, f) \in FORow
    BY <2>2, <2>3 DEF Written, FORow, NoFO
  <2>5. [ledger[f] EXCEPT ![Booking(me)] = @ + me.booked[f]] \in LedgerRow
    BY <2>2, <2>3 DEF LedgerRow
  <2> QED
    BY <2>2, <2>4, <2>5
<1>4. fo' \in [FOs -> FORow]
  BY <1>1, <1>3 DEF Commit, TablesTyped
<1>5. ledger' \in [FOs -> LedgerRow]
  BY <1>1, <1>3 DEF Commit, TablesTyped
<1>6. part' \in PartRow
  BY <1>1 DEF Commit, TablesTyped, SessionType
<1>7. stock' \in Nat /\ shipped' \subseteq Orders
  BY <1>1 DEF Commit, TablesTyped, SessionType, Purpose
<1>8. Unlock(s) /\ session' = [session EXCEPT ![s] = Idle]
  BY DEF Commit
<1>9. Becomes(s, Idle)
  BY <1>8, IdleTyped, SetSession DEF TInv
<1>10. writer' \in [Orders -> Sessions \cup {None}] /\ holder' \in Sessions \cup {None}
  BY <1>1, <1>8, UnlockTyped
<1> QED
  BY <1>2, <1>4, <1>5, <1>6, <1>7, <1>9, <1>10 DEF TablesTyped

(* Nothing of the tables changes. *)
LEMMA SameTables ==
  ASSUME TInv, NEW s \in Sessions, UNCHANGED <<tables, locks>>
  PROVE  TablesTyped'
BY Shape DEF TablesTyped, tables, locks

LEMMA TypeStep == TInv /\ [Next]_vars => TInv'
<1> SUFFICES ASSUME TInv, [Next]_vars PROVE TInv'
  OBVIOUS
<1>1. CASE UNCHANGED vars
  BY <1>1 DEF vars, tables, locks, TInv, TypeOK
<1>2. ASSUME NEW s \in Sessions, NEW o \in Orders, NEW target \in DOMAIN Transitions,
             BeginMove(s, o, target)
      PROVE  TInv'
  BY <1>2, MoveBegins, SameTables, KeepsTypes DEF BeginMove
<1>3. ASSUME NEW s \in Sessions, NEW o \in Orders, BeginGenerate(s, o) PROVE TInv'
  BY <1>3, GenerateBegins, SameTables, KeepsTypes DEF BeginGenerate
<1>4. ASSUME NEW s \in Sessions, NEW f \in FOs, BeginVoid(s, f) PROVE TInv'
  BY <1>4, VoidBegins, SameTables, KeepsTypes DEF BeginVoid
<1>5. ASSUME NEW s \in Sessions, FlushStatus(s) PROVE TInv'
  <2>1. TablesTyped'
    BY <1>5, Shape DEF FlushStatus, TablesTyped, tables
  <2> QED
    BY <1>5, <2>1, Flushes, KeepsTypes
<1>6. ASSUME NEW s \in Sessions, TakePart(s) PROVE TInv'
  <2>1. TablesTyped'
    BY <1>6, Shape DEF TakePart, TablesTyped, tables
  <2> QED
    BY <1>6, <2>1, TakesPart, KeepsTypes
<1>7. ASSUME NEW s \in Sessions, FindRows(s) PROVE TInv'
  BY <1>7, FindsRows, SameTables, KeepsTypes DEF FindRows
<1>8. ASSUME NEW s \in Sessions, ReadLedger(s) PROVE TInv'
  BY <1>8, ReadsLedger, SameTables, KeepsTypes DEF ReadLedger
<1>9. ASSUME NEW s \in Sessions, ReadStock(s) PROVE TInv'
  BY <1>9, StockRead, SameTables, KeepsTypes DEF ReadStock
<1>10. ASSUME NEW s \in Sessions, Commit(s) PROVE TInv'
  BY <1>10, CommitTyped, IdleTyped, KeepsTypes
<1>11. ASSUME NEW s \in Sessions, Rollback(s) PROVE TInv'
  <2>1. Becomes(s, Idle)
    BY <1>11, IdleTyped, SetSession DEF Rollback, TInv
  <2>2. TablesTyped'
    BY <1>11, Shape, UnlockTyped DEF Rollback, TablesTyped, tables
  <2> QED
    BY <2>1, <2>2, IdleTyped, KeepsTypes
<1> QED
  BY <1>1, <1>2, <1>3, <1>4, <1>5, <1>6, <1>7, <1>8, <1>9, <1>10, <1>11
     DEF Next, Begin, Statement

(* Whatever overlaps, fails or rolls back, the tables hold what their      *)
(* columns allow and no quantity goes below zero.                          *)
THEOREM TypeCorrect == Spec => []TypeOK
<1>1. TInv => TypeOK
  BY DEF TInv
<1> QED
  BY <1>1, TypeInit, TypeStep, PTL DEF Spec

-----------------------------------------------------------------------------
(* The part row *)

(* The factory orders whose quantity is in the value the session has for   *)
(* the part row: visited, and not waiting for the row.                     *)
Counted(me) == (me.rows \ me.left) \ (IF me.at = "part" THEN {me.visit} ELSE {})

Work(me) == SumFunctionOnSet(me.booked, Counted(me))

Change(me) == IF Booking(me) = "lock" THEN Work(me) ELSE -Work(me)

InHand(me) ==
    /\ me.at \in {"idle", "flush", "rows"} => me.rows = {}
    /\ me.at \in {"stock", "commit"} => me.left = {}
    /\ me.at = "part" => me.visit \in me.rows \ me.left

(* Holding the part row, a session has at least its own change on top of   *)
(* what is committed; without it, it has counted nothing.                  *)
Carries(me, holds) ==
    /\ holds => /\ me.target \in Booked /\ me.at \notin {"idle", "flush", "rows"}
                /\ me.part.locked >= part.locked + Change(me)
    /\ ~holds => \A f \in Counted(me) : me.booked[f] = 0

LInv ==
    /\ TInv /\ LockedCoversLedger
    /\ \A s \in Sessions : InHand(session[s]) /\ Carries(session[s], holder = s)

HeldBy == [f \in FOs |-> Held(f)]

LEMMA HeldSum ==
  ASSUME TInv
  PROVE  /\ HeldBy = [f \in FOs |-> ledger[f].lock - ledger[f].release - ledger[f].consume]
         /\ \A f \in FOs : HeldBy[f] \in Int /\ HeldBy[f] = Held(f)
         /\ SumFunction(HeldBy) = SumFunctionOnSet(HeldBy, FOs)
         /\ SumFunctionOnSet(HeldBy, FOs) \in Int
<1>1. \A f \in FOs : HeldBy[f] \in Int /\ HeldBy[f] = Held(f)
  BY DEF HeldBy, Held, TInv, TypeOK
<1>2. SumFunction(HeldBy) = SumFunctionOnSet(HeldBy, FOs)
  BY SumDomain DEF HeldBy
<1>3. SumFunctionOnSet(HeldBy, FOs) \in Int
  BY <1>1, SumRemove, TxAssumption
<1> QED
  BY <1>1, <1>2, <1>3 DEF HeldBy, Held

(* What a session has counted is a number of parts. *)
LEMMA WorkNat ==
  ASSUME NEW me \in SessionType
  PROVE  /\ IsFiniteSet(Counted(me)) /\ Work(me) \in Nat /\ Change(me) \in Int
         /\ (\A f \in Counted(me) : me.booked[f] = 0) => Work(me) = 0
<1>1. Counted(me) \subseteq FOs /\ IsFiniteSet(Counted(me))
  BY TxAssumption, FS_Subset DEF Counted, SessionType
<1>2. \A f \in Counted(me) : me.booked[f] \in Nat
  BY <1>1 DEF SessionType
<1>3. Work(me) \in Nat
  BY <1>1, <1>2, SumNat DEF Work
<1>4. ASSUME \A f \in Counted(me) : me.booked[f] = 0 PROVE Work(me) = 0
  <2>1. SumFunctionOnSet(me.booked, Counted(me)) = SumFunctionOnSet(me.booked, {})
    BY <1>1, <1>4, SumSupport
  <2> QED
    BY <2>1, SumEmpty DEF Work
<1>5. Change(me) \in Int
  BY <1>3 DEF Change
<1> QED
  BY <1>1, <1>3, <1>4, <1>5

(* Two values that agree on what is counted carry the same change. *)
LEMMA SameWork ==
  ASSUME NEW me \in SessionType, NEW x \in SessionType, Counted(x) = Counted(me),
         \A f \in Counted(me) : x.booked[f] = me.booked[f], x.kind = me.kind, x.target = me.target
  PROVE  Work(x) = Work(me) /\ Change(x) = Change(me) /\ Booking(x) = Booking(me)
<1>1. Work(x) = Work(me)
  BY WorkNat, SumSame DEF Work
<1>2. Booking(x) = Booking(me)
  BY DEF Booking
<1> QED
  BY <1>1, <1>2 DEF Change

(* A step of one session that writes neither the ledger nor the part. *)
LEMMA KeepsHands ==
  ASSUME LInv, TInv', UNCHANGED <<ledger, part>>, NEW s \in Sessions, NEW x, Becomes(s, x),
         InHand(x), Carries(x, holder' = s),
         \A t \in Sessions \ {s} : holder' = t <=> holder = t
  PROVE  LInv'
<1>1. LockedCoversLedger'
  BY DEF LInv, LockedCoversLedger, Held
<1>2. ASSUME NEW t \in Sessions PROVE (InHand(session[t]) /\ Carries(session[t], holder = t))'
  <2>1. CASE t = s
    <3>1. session'[t] = x
      BY <2>1 DEF Becomes
    <3> QED
      BY <2>1, <3>1 DEF InHand, Carries, Counted, Change, Work, Booking
  <2>2. CASE t # s
    <3>1. session'[t] = session[t] /\ (holder' = t <=> holder = t)
      BY <2>2 DEF Becomes
    <3>2. InHand(session[t]) /\ Carries(session[t], holder = t)
      BY DEF LInv
    <3> QED
      BY <3>1, <3>2 DEF InHand, Carries, Counted, Change, Work, Booking
  <2> QED
    BY <2>1, <2>2
<1> QED
  BY <1>1, <1>2 DEF LInv

(* A session that has counted nothing and does not hold the part row *)
LEMMA EmptyHanded ==
  ASSUME NEW x, Counted(x) = {}
  PROVE  Carries(x, FALSE)
BY DEF Carries

(* Counting the same with another statement next *)
LEMMA StillCarries ==
  ASSUME NEW me \in SessionType, NEW x \in SessionType, Counted(x) = Counted(me),
         \A f \in Counted(me) : x.booked[f] = me.booked[f],
         x.kind = me.kind, x.target = me.target, x.part = me.part,
         x.at \notin {"idle", "flush", "rows"},
         NEW holds \in BOOLEAN, Carries(me, holds)
  PROVE  Carries(x, holds)
<1>1. Change(x) = Change(me)
  BY SameWork
<1> QED
  BY <1>1 DEF Carries

(* What a session counts when it has read the ledger of one more factory   *)
(* order: nothing, unless there is nothing to write for it.                *)
LEMMA ReadsCarries ==
  ASSUME TInv, NEW s \in Sessions, InHand(session[s]), Carries(session[s], holder = s),
         session[s].at = "ledger", NEW f \in session[s].left,
         Becomes(s, Reads(session[s], f)), UNCHANGED <<part, holder>>
  PROVE  LET x == Reads(session[s], f) IN InHand(x) /\ Carries(x, holder = s)
<1> DEFINE me == session[s]
           x == Reads(me, f)
           q == Quantity(me, f)
<1>1. /\ me \in SessionType /\ Purpose(me) /\ me.target \in Booked
      /\ f \in FOs /\ f \in me.rows /\ q \in Nat
  <2>1. me \in SessionType /\ Purpose(me) /\ me.target \in Booked
    BY Shape DEF Purpose
  <2>2. f \in FOs /\ f \in me.rows
    BY <2>1 DEF SessionType, Purpose
  <2> QED
    BY <2>1, <2>2, QuantityNat DEF TInv
<1>2. x \in SessionType
  BY DEF Becomes
<1>3. /\ x.at = IF q > 0 THEN "part" ELSE "ledger"
      /\ x.rows = me.rows /\ x.left = me.left \ {f} /\ x.visit = f
      /\ x.kind = me.kind /\ x.target = me.target /\ x.part = me.part
      /\ x.booked = [me.booked EXCEPT ![f] = q]
  BY <1>1 DEF Reads, SessionType
<1>4. InHand(x)
  BY <1>1, <1>3 DEF InHand
<1>5. f \notin Counted(me) /\ \A g \in Counted(me) : x.booked[g] = me.booked[g]
  BY <1>1, <1>3 DEF Counted, SessionType
<1>6. ASSUME q > 0 PROVE InHand(x) /\ Carries(x, holder = s)
  <2>1. Counted(x) = Counted(me)
    BY <1>1, <1>3, <1>6 DEF Counted
  <2>2. x.at \notin {"idle", "flush", "rows"}
    BY <1>3, <1>6
  <2> HIDE DEF x, q
  <2>4. Change(x) = Change(me)
    BY <1>1, <1>2, <1>3, <1>5, <2>1, SameWork
  <2>5. Carries(x, holder = s)
    BY <1>3, <1>5, <2>1, <2>2, <2>4 DEF Carries
  <2> QED
    BY <1>4, <2>5 DEF x
<1>7. ASSUME ~(q > 0) PROVE InHand(x) /\ Carries(x, holder = s)
  <2>1. q = 0 /\ x.booked[f] = 0 /\ x.at = "ledger"
    BY <1>1, <1>3, <1>7 DEF SessionType
  <2>2. Counted(x) = Counted(me) \cup {f}
    BY <1>1, <1>3, <2>1 DEF Counted
  <2> HIDE DEF x, q
  <2>3. /\ IsFiniteSet(Counted(me)) /\ Work(me) \in Int
        /\ \A g \in Counted(x) : x.booked[g] \in Int
    BY <1>1, <1>2, WorkNat DEF SessionType, Counted
  <2>4. Work(x) = x.booked[f] + SumFunctionOnSet(x.booked, Counted(me))
    <3>1. \A g \in Counted(me) \cup {f} : x.booked[g] \in Int
      BY <2>2, <2>3
    <3>2. SumFunctionOnSet(x.booked, Counted(me) \cup {f})
            = x.booked[f] + SumFunctionOnSet(x.booked, Counted(me))
      BY <1>5, <2>3, <3>1, SumAdd
    <3> QED
      BY <2>2, <3>2 DEF Work
  <2>5. Work(x) = Work(me)
    <3>1. SumFunctionOnSet(x.booked, Counted(me)) = Work(me)
      BY <1>5, <2>3, SumSame DEF Work
    <3> QED
      BY <2>1, <2>3, <2>4, <3>1
  <2>6. Change(x) = Change(me)
    BY <1>3, <2>5 DEF Change, Booking
  <2>7. \A g \in Counted(x) : g = f \/ (x.booked[g] = me.booked[g] /\ g \in Counted(me))
    BY <1>5, <2>2
  <2>8. Carries(x, holder = s)
    BY <1>3, <2>1, <2>6, <2>7 DEF Carries
  <2> QED
    BY <1>4, <2>8 DEF x
<1>8. InHand(x) /\ Carries(x, holder = s)
  <2> HIDE DEF x, q
  <2> QED
    BY <1>6, <1>7
<1> QED
  BY <1>8

(* What a session counts when it has the part row *)
LEMMA TakesWork ==
  ASSUME NEW me \in SessionType, me.at = "part", InHand(me), NEW row, Takes(me, row) \in SessionType
  PROVE  LET x == Takes(me, row)
         IN  /\ InHand(x) /\ Counted(x) = Counted(me) \cup {me.visit} /\ me.visit \notin Counted(me)
             /\ me.visit \in me.rows \ me.left
             /\ Work(x) = me.booked[me.visit] + Work(me) /\ Booking(x) = Booking(me)
<1> DEFINE x == Takes(me, row)
<1>1. /\ x.at = "ledger" /\ x.rows = me.rows /\ x.left = me.left /\ x.booked = me.booked
      /\ x.kind = me.kind /\ x.target = me.target
  BY DEF Takes, SessionType
<1>2. Booking(x) = Booking(me) /\ InHand(x)
  BY <1>1 DEF Booking, InHand
<1>3. Counted(x) = Counted(me) \cup {me.visit} /\ me.visit \notin Counted(me)
  BY <1>1 DEF Counted, InHand
<1> HIDE DEF x
<1>4. IsFiniteSet(Counted(me)) /\ \A g \in Counted(x) : me.booked[g] \in Int
  BY <1>1, WorkNat DEF SessionType, Counted
<1>5. Work(x) = me.booked[me.visit] + Work(me)
  BY <1>1, <1>3, <1>4, SumAdd DEF Work
<1> QED
  BY <1>2, <1>3, <1>5 DEF x, InHand

(* The new value carries at least the new change. *)
LEMMA TakesCarries ==
  ASSUME TInv, NEW s \in Sessions, TakePart(s), InHand(session[s]), Carries(session[s], holder = s)
  PROVE  LET x == Takes(session[s], RowTaken(s)) IN InHand(x) /\ Carries(x, TRUE)
<1> DEFINE me == session[s]
           row == RowTaken(s)
           x == Takes(me, row)
           base == IF holder = s THEN me.part ELSE part
           q == me.booked[me.visit]
<1>1. /\ me \in SessionType /\ Purpose(me) /\ me.at = "part" /\ me.target \in Booked /\ me.visit \in FOs
  BY Shape DEF TakePart, Purpose
<1>2. /\ row \in PartRow /\ x \in SessionType /\ Booking(me) \in {"lock", "release", "consume"}
  BY TakesPart DEF Becomes
<1>3. q \in Nat /\ base.locked \in Nat /\ base.physical \in Nat /\ part.locked \in Nat
  BY <1>1, Shape DEF SessionType, TablesTyped, PartRow
<1>4. /\ InHand(x) /\ Booking(x) = Booking(me) /\ Work(x) = q + Work(me)
  BY <1>1, <1>2, TakesWork
<1>5. Work(me) \in Nat /\ Change(me) \in Int
  BY <1>1, WorkNat
<1>6. base.locked >= part.locked + Change(me)
  <2>1. CASE holder = s
    BY <2>1 DEF Carries
  <2>2. CASE holder # s
    <3>1. Work(me) = 0
      BY <1>1, <2>2, WorkNat DEF Carries
    <3> QED
      BY <1>3, <2>2, <3>1 DEF Change
  <2> QED
    BY <2>1, <2>2
<1>7. row.locked >= part.locked + Change(x)
  <2>0. row = Book(base, Booking(me), q)
    BY DEF RowTaken
  <2> HIDE DEF row, base, q, x
  <2>1. CASE Booking(me) = "lock"
    <3>1. row.locked = base.locked + q
      BY <1>1, <1>2, <1>3, <2>0, <2>1 DEF Book, PartRow
    <3>2. Change(x) = q + Work(me) /\ Change(me) = Work(me)
      BY <1>4, <2>1 DEF Change
    <3> QED
      BY <1>3, <1>5, <1>6, <3>1, <3>2
  <2>2. CASE Booking(me) # "lock"
    <3>1. row.locked = Floor(base.locked - q)
      BY <1>1, <1>2, <1>3, <2>0, <2>2 DEF Book, PartRow
    <3>2. row.locked >= base.locked - q
      BY <1>3, <3>1 DEF Floor
    <3>3. Change(x) = -(q + Work(me)) /\ Change(me) = -Work(me)
      BY <1>4, <2>2 DEF Change
    <3>4. row.locked \in Nat
      BY <1>2 DEF PartRow
    <3> QED
      BY <1>3, <1>5, <1>6, <3>2, <3>3, <3>4
  <2> QED
    BY <2>1, <2>2
<1>8. x.at = "ledger" /\ x.target = me.target /\ x.part = row
  BY <1>1 DEF Takes, SessionType
<1> QED
  BY <1>1, <1>4, <1>7, <1>8 DEF Carries

(* What a commit adds to the ledger is the change its session carries.     *)
LEMMA CommitHeld ==
  ASSUME TInv, TInv', NEW s \in Sessions, Commit(s), InHand(session[s])
  PROVE  LET me == session[s]
         IN  /\ SumFunction([f \in FOs |-> Held(f)])' = SumFunctionOnSet(HeldBy, FOs) + Change(me)
             /\ Change(me) \in Int
             /\ \/ part' = me.part /\ \E f \in Counted(me) : me.booked[f] # 0
                \/ part' = part /\ Change(me) = 0
<1> DEFINE me == session[s]
           before == HeldBy
           after == HeldBy'
<1>1. /\ me \in SessionType /\ Purpose(me) /\ TablesTyped /\ me.at = "commit" /\ me.left = {}
  BY Shape DEF Commit, InHand
<1>2. Counted(me) = me.rows /\ IsFiniteSet(me.rows) /\ me.rows \subseteq FOs
  BY <1>1, TxAssumption, FS_Subset DEF Counted, SessionType
<1>3. /\ Work(me) = SumFunctionOnSet(me.booked, me.rows) /\ Work(me) \in Nat /\ Change(me) \in Int
      /\ (\A f \in me.rows : me.booked[f] = 0) => Work(me) = 0
  BY <1>1, <1>2, WorkNat DEF Work
<1>4. \A f \in FOs : before[f] \in Int /\ before[f] = Held(f)
  BY HeldSum
<1>5. \A f \in FOs : after[f] = ledger'[f].lock - ledger'[f].release - ledger'[f].consume
                     /\ after[f] \in Int
  BY DEF HeldBy, Held, TInv, TypeOK
<1>6. SumFunction([f \in FOs |-> Held(f)])' = SumFunctionOnSet(after, FOs)
  <2>1. [f \in FOs |-> Held(f)]' = after /\ DOMAIN after = FOs
    BY DEF HeldBy
  <2> QED
    BY <2>1, SumDomain
<1>7. SumFunctionOnSet(before, FOs) \in Int /\ SumFunctionOnSet(after, FOs) \in Int
  BY <1>4, <1>5, TxAssumption, SumRemove
<1>8. \A f \in FOs \ me.rows : after[f] = before[f]
  BY <1>4, <1>5 DEF Commit, Held
<1>9. ASSUME NEW f \in me.rows
      PROVE  /\ me.booked[f] \in Int /\ f \in FOs
             /\ Booking(me) = "lock" => before[f] = after[f] - me.booked[f]
             /\ Booking(me) # "lock" => after[f] = before[f] - me.booked[f]
  <2>1. f \in FOs /\ ledger[f] \in LedgerRow /\ me.booked[f] \in Nat /\ me.target \in Booked
    BY <1>1, <1>9 DEF SessionType, TablesTyped, Purpose
  <2>2. Booking(me) \in {"lock", "release", "consume"}
    BY <1>1, <2>1, Bookings DEF Booked
  <2>3. ledger'[f] = [ledger[f] EXCEPT ![Booking(me)] = @ + me.booked[f]]
    BY <1>9, <2>1 DEF Commit
  <2>4. /\ before[f] = ledger[f].lock - ledger[f].release - ledger[f].consume
        /\ after[f] = ledger'[f].lock - ledger'[f].release - ledger'[f].consume
    BY <1>4, <1>5, <2>1 DEF Held
  <2> HIDE DEF before, after, me
  <2>5. CASE Booking(me) = "lock"
    BY <2>1, <2>3, <2>4, <2>5 DEF LedgerRow
  <2>6. CASE Booking(me) = "release"
    BY <2>1, <2>3, <2>4, <2>6 DEF LedgerRow
  <2>7. CASE Booking(me) = "consume"
    BY <2>1, <2>3, <2>4, <2>7 DEF LedgerRow
  <2> QED
    BY <2>1, <2>2, <2>5, <2>6, <2>7
<1> HIDE DEF before, after, me
<1>10. SumFunctionOnSet(after, FOs) = SumFunctionOnSet(before, FOs) + Change(me)
  <2>1. CASE Booking(me) = "lock"
    <3>1. SumFunctionOnSet(before, FOs) = SumFunctionOnSet(after, FOs) - Work(me)
      BY <1>2, <1>3, <1>5, <1>8, <1>9, <2>1, TxAssumption, SumTake
    <3> QED
      BY <1>3, <1>7, <2>1, <3>1 DEF Change
  <2>2. CASE Booking(me) # "lock"
    <3>1. SumFunctionOnSet(after, FOs) = SumFunctionOnSet(before, FOs) - Work(me)
      BY <1>2, <1>3, <1>4, <1>8, <1>9, <2>2, TxAssumption, SumTake
    <3> QED
      BY <1>3, <1>7, <2>2, <3>1 DEF Change
  <2> QED
    BY <2>1, <2>2
<1>11. \/ part' = me.part /\ \E f \in Counted(me) : me.booked[f] # 0
       \/ part' = part /\ Change(me) = 0
  <2>1. CASE \E f \in me.rows : me.booked[f] > 0
    BY <1>2, <2>1 DEF Commit, me
  <2>2. CASE ~ \E f \in me.rows : me.booked[f] > 0
    <3>1. \A f \in me.rows : me.booked[f] = 0
      BY <1>1, <1>2, <2>2 DEF SessionType
    <3>2. Change(me) = 0
      BY <1>3, <3>1 DEF Change
    <3> QED
      BY <2>2, <3>2 DEF Commit, me
  <2> QED
    BY <2>1, <2>2
<1> QED
  BY <1>3, <1>6, <1>10, <1>11 DEF before, me

LEMMA CommitHands ==
  ASSUME LInv, TInv', NEW s \in Sessions, Commit(s)
  PROVE  LInv'
<1> DEFINE me == session[s]
           total == SumFunctionOnSet(HeldBy, FOs)
<1>1. /\ TInv /\ me \in SessionType /\ TablesTyped /\ InHand(me) /\ Carries(me, holder = s)
      /\ part.locked \in Nat /\ me.part.locked \in Nat
  BY Shape DEF LInv, TablesTyped, SessionType, PartRow
<1>2. total \in Int /\ part.locked >= total
  <2>1. [f \in FOs |-> Held(f)] = HeldBy
    BY DEF HeldBy
  <2> QED
    BY <1>1, <2>1, HeldSum DEF LInv, LockedCoversLedger
<1>3. /\ SumFunction([f \in FOs |-> Held(f)])' = total + Change(me) /\ Change(me) \in Int
      /\ \/ part' = me.part /\ \E f \in Counted(me) : me.booked[f] # 0
         \/ part' = part /\ Change(me) = 0
  BY <1>1, CommitHeld
<1>4. part' = part \/ holder = s
  BY <1>1, <1>3 DEF Carries
<1>5. LockedCoversLedger'
  <2>1. part'.locked >= total + Change(me)
    BY <1>1, <1>2, <1>3 DEF Carries
  <2> HIDE DEF me, total
  <2> QED
    BY <1>3, <2>1 DEF LockedCoversLedger
<1>6. ASSUME NEW t \in Sessions PROVE (InHand(session[t]) /\ Carries(session[t], holder = t))'
  <2>1. Becomes(s, Idle) /\ Unlock(s) /\ s # None
    BY <1>1, CommitTyped, TxAssumption DEF Commit
  <2>2. CASE t = s
    <3>1. session'[t] = Idle /\ holder' # t
      BY <2>1, <2>2 DEF Becomes, Unlock
    <3> QED
      BY <3>1 DEF InHand, Carries, Counted, Idle
  <2>3. CASE t # s
    <3>1. session'[t] = session[t] /\ (holder' = t <=> holder = t) /\ (holder = t => part' = part)
      BY <1>4, <2>1, <2>3, TxAssumption DEF Becomes, Unlock
    <3>2. InHand(session[t]) /\ Carries(session[t], holder = t)
      BY DEF LInv
    <3> QED
      BY <3>1, <3>2 DEF InHand, Carries, Counted, Change, Work, Booking
  <2> QED
    BY <2>2, <2>3
<1> QED
  BY <1>5, <1>6 DEF LInv

LEMMA HandsStep == LInv /\ TInv' /\ [Next]_vars => LInv'
<1> SUFFICES ASSUME LInv, TInv', [Next]_vars PROVE LInv'
  OBVIOUS
<1>0. TInv
  BY DEF LInv
<1>1. CASE UNCHANGED vars
  <2>1. UNCHANGED <<ledger, part, holder, session>>
    BY <1>1 DEF vars, tables, locks
  <2>2. LockedCoversLedger'
    BY <2>1 DEF LInv, LockedCoversLedger, Held
  <2>3. ASSUME NEW t \in Sessions PROVE (InHand(session[t]) /\ Carries(session[t], holder = t))'
    <3>1. InHand(session[t]) /\ Carries(session[t], holder = t)
      BY DEF LInv
    <3> QED
      BY <2>1, <3>1 DEF InHand, Carries, Counted, Change, Work, Booking
  <2> QED
    BY <2>2, <2>3 DEF LInv
<1>2. ASSUME NEW s \in Sessions PROVE /\ session[s] \in SessionType /\ Purpose(session[s])
                                      /\ InHand(session[s]) /\ Carries(session[s], holder = s)
  BY <1>0, Shape DEF LInv
<1>3. ASSUME NEW s \in Sessions, NEW x, Becomes(s, x), UNCHANGED <<ledger, part, holder>>,
             InHand(x), Counted(x) = {}, holder # s
      PROVE  LInv'
  BY <1>3, EmptyHanded, KeepsHands
<1>4. ASSUME NEW s \in Sessions, NEW o \in Orders, NEW target \in DOMAIN Transitions,
             BeginMove(s, o, target)
      PROVE  LInv'
  <2>1. Becomes(s, BeginsMove(o, target)) /\ UNCHANGED <<ledger, part, holder>> /\ holder # s
    BY <1>0, <1>2, <1>4, MoveBegins DEF BeginMove, tables, locks, Carries
  <2>2. InHand(BeginsMove(o, target)) /\ Counted(BeginsMove(o, target)) = {}
    BY DEF BeginsMove, Idle, InHand, Counted
  <2> QED
    BY <1>3, <2>1, <2>2
<1>5. ASSUME NEW s \in Sessions, NEW o \in Orders, BeginGenerate(s, o) PROVE LInv'
  <2>1. PICK f \in Fresh : Becomes(s, BeginsGenerate(o, f))
    BY <1>0, <1>5, GenerateBegins
  <2>2. UNCHANGED <<ledger, part, holder>> /\ holder # s
    BY <1>2, <1>5 DEF BeginGenerate, tables, locks, Carries
  <2>3. InHand(BeginsGenerate(o, f)) /\ Counted(BeginsGenerate(o, f)) = {}
    BY DEF BeginsGenerate, Idle, InHand, Counted
  <2> QED
    BY <1>3, <2>1, <2>2, <2>3
<1>6. ASSUME NEW s \in Sessions, NEW f \in FOs, BeginVoid(s, f) PROVE LInv'
  <2>1. Becomes(s, BeginsVoid(f)) /\ UNCHANGED <<ledger, part, holder>> /\ holder # s
    BY <1>0, <1>2, <1>6, VoidBegins DEF BeginVoid, tables, locks, Carries
  <2>2. InHand(BeginsVoid(f)) /\ Counted(BeginsVoid(f)) = {}
    BY DEF BeginsVoid, Idle, InHand, Counted
  <2> QED
    BY <1>3, <2>1, <2>2
<1>7. ASSUME NEW s \in Sessions, FlushStatus(s) PROVE LInv'
  <2> DEFINE me == session[s]
             x == GoesTo(me, "rows")
  <2>1. Becomes(s, x) /\ UNCHANGED <<ledger, part, holder>> /\ me.at = "flush"
    BY <1>0, <1>7, Flushes DEF FlushStatus, tables
  <2>2. holder # s /\ me.rows = {} /\ x.rows = {} /\ x.at = "rows"
    BY <1>2, <2>1 DEF Carries, InHand, GoesTo, SessionType
  <2>3. InHand(x) /\ Counted(x) = {}
    BY <2>2 DEF InHand, Counted
  <2> QED
    BY <1>3, <2>1, <2>2, <2>3
<1>8. ASSUME NEW s \in Sessions, FindRows(s) PROVE LInv'
  <2> DEFINE me == session[s]
  <2>1. PICK rows \in SUBSET FOs, at \in {"ledger", "commit"} :
          Becomes(s, Finds(me, rows, at)) /\ me.at = "rows" /\ (rows = {} \/ at = "ledger")
    BY <1>0, <1>8, FindsRows
  <2>2. UNCHANGED <<ledger, part, holder>> /\ holder # s
    BY <1>2, <1>8 DEF FindRows, tables, locks, Carries
  <2>3. InHand(Finds(me, rows, at)) /\ Counted(Finds(me, rows, at)) = {}
    BY <1>2, <2>1 DEF Finds, InHand, Counted, SessionType
  <2> QED
    BY <1>3, <2>1, <2>2, <2>3
<1>9. ASSUME NEW s \in Sessions, ReadLedger(s) PROVE LInv'
  <2> DEFINE me == session[s]
  <2>1. UNCHANGED <<ledger, part, holder>> /\ me.at = "ledger"
    BY <1>9 DEF ReadLedger, tables, locks
  <2>2. ASSUME NEW f \in me.left, Becomes(s, Reads(me, f)) PROVE LInv'
    <3>1. InHand(Reads(me, f)) /\ Carries(Reads(me, f), holder = s)
      BY <1>0, <1>2, <2>1, <2>2, ReadsCarries
    <3> QED
      BY <2>1, <2>2, <3>1, KeepsHands
  <2>3. ASSUME me.left = {}, NEW at \in {"stock", "commit"}, Becomes(s, GoesTo(me, at)) PROVE LInv'
    <3> DEFINE x == GoesTo(me, at)
    <3>1. x \in SessionType
      BY <2>3 DEF Becomes
    <3>2. /\ x.rows = me.rows /\ x.left = me.left /\ x.at = at /\ x.booked = me.booked
          /\ x.target = me.target /\ x.kind = me.kind /\ x.part = me.part
      BY <1>2 DEF GoesTo, SessionType
    <3>3. InHand(x) /\ Counted(x) = Counted(me)
      BY <2>1, <2>3, <3>2 DEF InHand, Counted
    <3> HIDE DEF x
    <3>4. Carries(x, holder = s)
      BY <1>2, <2>3, <3>1, <3>2, <3>3, StillCarries
    <3> QED
      BY <2>1, <2>3, <3>3, <3>4, KeepsHands DEF x
  <2> QED
    BY <1>0, <1>9, <2>2, <2>3, ReadsLedger
<1>10. ASSUME NEW s \in Sessions, TakePart(s) PROVE LInv'
  <2> DEFINE x == Takes(session[s], RowTaken(s))
  <2>1. Becomes(s, x) /\ InHand(x) /\ Carries(x, TRUE)
    BY <1>0, <1>2, <1>10, TakesPart, TakesCarries
  <2>2. UNCHANGED <<ledger, part>> /\ holder \in {None, s} /\ holder' = s
    BY <1>10 DEF TakePart, tables
  <2>3. \A t \in Sessions \ {s} : holder' = t <=> holder = t
    BY <2>2, TxAssumption
  <2>4. (holder' = s) = TRUE
    BY <2>2
  <2> HIDE DEF x
  <2> QED
    BY <2>1, <2>2, <2>3, <2>4, KeepsHands
<1>11. ASSUME NEW s \in Sessions, ReadStock(s) PROVE LInv'
  <2> DEFINE me == session[s]
  <2>1. PICK ships \in BOOLEAN, goods \in Nat : Becomes(s, ReadsStock(me, ships, goods))
    BY <1>0, <1>11, StockRead
  <2> DEFINE x == ReadsStock(me, ships, goods)
  <2>2. UNCHANGED <<ledger, part, holder>> /\ me.at = "stock" /\ x \in SessionType
    BY <1>11, <2>1 DEF ReadStock, tables, locks, Becomes
  <2>3. /\ x.rows = me.rows /\ x.left = me.left /\ x.at = "commit" /\ x.booked = me.booked
        /\ x.target = me.target /\ x.kind = me.kind /\ x.part = me.part
    BY <1>2 DEF ReadsStock, SessionType
  <2>4. InHand(x) /\ Counted(x) = Counted(me)
    BY <1>2, <2>2, <2>3 DEF InHand, Counted
  <2> HIDE DEF x
  <2>5. Carries(x, holder = s)
    BY <1>2, <2>2, <2>3, <2>4, StillCarries
  <2> QED
    BY <2>1, <2>2, <2>4, <2>5, KeepsHands DEF x
<1>12. ASSUME NEW s \in Sessions, Commit(s) PROVE LInv'
  BY <1>12, CommitHands
<1>13. ASSUME NEW s \in Sessions, Rollback(s) PROVE LInv'
  <2>1. Becomes(s, Idle) /\ UNCHANGED <<ledger, part>> /\ Unlock(s) /\ s # None
    BY <1>0, <1>13, IdleTyped, SetSession, TxAssumption DEF Rollback, tables, TInv
  <2>2. holder' # s /\ \A t \in Sessions \ {s} : holder' = t <=> holder = t
    BY <2>1, TxAssumption DEF Unlock
  <2>3. InHand(Idle) /\ Carries(Idle, FALSE)
    BY DEF Idle, InHand, Carries, Counted
  <2>4. (holder' = s) = FALSE
    BY <2>2
  <2> QED
    BY <2>1, <2>2, <2>3, <2>4, KeepsHands
<1> QED
  BY <1>1, <1>4, <1>5, <1>6, <1>7, <1>8, <1>9, <1>10, <1>11, <1>12, <1>13
     DEF Next, Begin, Statement

LEMMA NothingHeld == ASSUME Init PROVE SumFunction(HeldBy) = 0
<1>1. TInv
  BY TypeInit
<1>2. /\ SumFunction(HeldBy) = SumFunctionOnSet(HeldBy, FOs)
      /\ \A f \in FOs : HeldBy[f] = 0
  BY <1>1, HeldSum DEF Init, NoLedger, Held
<1>3. SumFunctionOnSet(HeldBy, FOs) = SumFunctionOnSet(HeldBy, {})
  BY <1>2, SumSupport, TxAssumption
<1> QED
  BY <1>2, <1>3, SumEmpty

LEMMA HandsHold == Spec => []LInv
<1>1. Init => LInv
  <2> SUFFICES ASSUME Init PROVE LInv
    OBVIOUS
  <2>1. TInv /\ LockedCoversLedger
    BY TypeInit, NothingHeld DEF LockedCoversLedger, HeldBy, Init
  <2>2. \A s \in Sessions : session[s] = Idle /\ holder # s
    BY TxAssumption DEF Init
  <2>3. InHand(Idle) /\ Carries(Idle, FALSE)
    BY DEF Idle, InHand, Carries, Counted
  <2> QED
    BY <2>1, <2>2, <2>3 DEF LInv
<1>2. LInv /\ [Next]_vars => LInv'
  <2>1. LInv /\ [Next]_vars => TInv'
    BY TypeStep DEF LInv
  <2> QED
    BY <2>1, HandsStep
<1> QED
  BY <1>1, <1>2, PTL DEF Spec

(* Whatever requests overlap, wait, fail or roll back, the part row shows  *)
(* at least what the ledger of all factory orders asks for.                *)
THEOREM LockedCovers == Spec => []LockedCoversLedger
<1>1. LInv => LockedCoversLedger
  BY DEF LInv
<1> QED
  BY <1>1, HandsHold, PTL

-----------------------------------------------------------------------------
(* Waiting *)

(* A session waits for another one that holds the row it asks for. *)
WaitsFor(s, t) ==
    /\ s # t
    /\ \/ session[s].at = "flush" /\ writer[session[s].o] = t
       \/ session[s].at = "part" /\ holder = t

(* In every set of sessions there is one that waits for none of them. *)
NoDeadlock == \A W \in SUBSET Sessions : W # {} => \E s \in W : \A t \in W : ~WaitsFor(s, t)

(* The row locks a session has are those of the statements behind it. *)
LockOrder(s) ==
    /\ session[s].at = "flush" => session[s].o \in Orders
    /\ \A o \in Orders : writer[o] = s => session[s].at \notin {"idle", "flush"}
    /\ holder = s => session[s].at \in {"ledger", "part", "stock", "commit"}

OInv == TInv /\ \A s \in Sessions : LockOrder(s)

LEMMA KeepsOrder ==
  ASSUME OInv, TInv', NEW s \in Sessions, NEW x, Becomes(s, x),
         x.at = "flush" => x.o \in Orders,
         \A o \in Orders : writer'[o] \in {writer[o], s, None},
         \A o \in Orders : writer'[o] = s => x.at \notin {"idle", "flush"},
         holder' \in {holder, s, None},
         holder' = s => x.at \in {"ledger", "part", "stock", "commit"}
  PROVE  OInv'
<1>1. session'[s] = x /\ \A t \in Sessions \ {s} : session'[t] = session[t]
  BY DEF Becomes
<1>2. LockOrder(s)'
  BY <1>1 DEF LockOrder
<1>3. ASSUME NEW t \in Sessions \ {s} PROVE LockOrder(t)'
  <2>1. LockOrder(t) /\ t # None /\ session'[t] = session[t]
    BY <1>1, TxAssumption DEF OInv
  <2>2. holder' = t => holder = t
    BY <2>1
  <2>3. \A o \in Orders : writer'[o] = t => writer[o] = t
    BY <2>1
  <2> QED
    BY <2>1, <2>2, <2>3 DEF LockOrder
<1> QED
  BY <1>2, <1>3 DEF OInv

(* A statement that takes no lock and gives none back. *)
LEMMA KeepsLocks ==
  ASSUME OInv, TInv', NEW s \in Sessions, NEW x, Becomes(s, x), UNCHANGED locks,
         x.at = "flush" => x.o \in Orders,
         \/ session[s].at = "idle"
         \/ session[s].at = "rows" /\ x.at \in {"ledger", "commit"}
         \/ session[s].at \in {"ledger", "stock"} /\ x.at \in {"ledger", "part", "stock", "commit"}
  PROVE  OInv'
<1>1. LockOrder(s) /\ writer' = writer /\ holder' = holder
  BY DEF OInv, locks
<1>2. \A o \in Orders : writer'[o] = s => x.at \notin {"idle", "flush"}
  BY <1>1 DEF LockOrder
<1>3. holder' = s => x.at \in {"ledger", "part", "stock", "commit"}
  BY <1>1 DEF LockOrder
<1> QED
  BY <1>1, <1>2, <1>3, KeepsOrder

(* The end of a transaction gives back all its locks. *)
LEMMA KeepsUnlock ==
  ASSUME OInv, TInv', NEW s \in Sessions, Becomes(s, Idle), Unlock(s)
  PROVE  OInv'
<1>1. s # None
  BY TxAssumption
<1>2. \A o \in Orders : writer'[o] \in {writer[o], None} /\ writer'[o] # s
  BY <1>1 DEF Unlock
<1>3. holder' \in {holder, None} /\ holder' # s
  BY <1>1 DEF Unlock
<1>4. Idle.at = "idle"
  BY DEF Idle
<1> QED
  BY <1>2, <1>3, <1>4, KeepsOrder

LEMMA OrderStep == OInv /\ TInv' /\ [Next]_vars => OInv'
<1> SUFFICES ASSUME OInv, TInv', [Next]_vars PROVE OInv'
  OBVIOUS
<1>0. TInv /\ \A s \in Sessions : session[s] \in SessionType
  BY Shape DEF OInv
<1>1. CASE UNCHANGED vars
  <2>1. UNCHANGED <<session, writer, holder>>
    BY <1>1 DEF vars, locks
  <2> QED
    BY <2>1 DEF OInv, LockOrder
<1>2. ASSUME NEW s \in Sessions, NEW o \in Orders, NEW target \in DOMAIN Transitions,
             BeginMove(s, o, target)
      PROVE  OInv'
  <2> DEFINE x == BeginsMove(o, target)
  <2>1. Becomes(s, x) /\ session[s].at = "idle" /\ UNCHANGED locks
    BY <1>0, <1>2, MoveBegins DEF BeginMove
  <2>2. x.o \in Orders
    BY DEF BeginsMove, Idle
  <2> QED
    BY <2>1, <2>2, KeepsLocks
<1>3. ASSUME NEW s \in Sessions, NEW o \in Orders, BeginGenerate(s, o) PROVE OInv'
  <2>1. PICK f \in Fresh : Becomes(s, BeginsGenerate(o, f))
    BY <1>0, <1>3, GenerateBegins
  <2>2. session[s].at = "idle" /\ UNCHANGED locks /\ BeginsGenerate(o, f).at # "flush"
    BY <1>3 DEF BeginGenerate, BeginsGenerate, Idle
  <2> QED
    BY <2>1, <2>2, KeepsLocks
<1>4. ASSUME NEW s \in Sessions, NEW f \in FOs, BeginVoid(s, f) PROVE OInv'
  <2>1. Becomes(s, BeginsVoid(f))
    BY <1>0, <1>4, VoidBegins
  <2>2. session[s].at = "idle" /\ UNCHANGED locks /\ BeginsVoid(f).at # "flush"
    BY <1>4 DEF BeginVoid, BeginsVoid, Idle
  <2> QED
    BY <2>1, <2>2, KeepsLocks
<1>5. ASSUME NEW s \in Sessions, FlushStatus(s) PROVE OInv'
  <2> DEFINE x == GoesTo(session[s], "rows")
  <2>1. Becomes(s, x) /\ session[s].at = "flush" /\ LockOrder(s)
    BY <1>0, <1>5, Flushes DEF FlushStatus, OInv
  <2>2. x.at = "rows"
    BY <1>0 DEF GoesTo, SessionType
  <2>3. holder' = holder /\ holder # s
    BY <1>5, <2>1 DEF FlushStatus, LockOrder
  <2>4. writer' = [writer EXCEPT ![session[s].o] = s] /\ writer \in [Orders -> Sessions \cup {None}]
    BY <1>0, <1>5, Shape DEF FlushStatus, TablesTyped
  <2>5. \A o \in Orders : writer'[o] \in {writer[o], s, None}
    BY <2>4
  <2> HIDE DEF x
  <2> QED
    BY <2>1, <2>2, <2>3, <2>5, KeepsOrder
<1>6. ASSUME NEW s \in Sessions, TakePart(s) PROVE OInv'
  <2> DEFINE x == Takes(session[s], RowTaken(s))
  <2>1. Becomes(s, x) /\ LockOrder(s)
    BY <1>0, <1>6, TakesPart DEF OInv
  <2>2. x.at = "ledger"
    BY <1>0 DEF Takes, SessionType
  <2>3. holder' = s /\ writer' = writer
    BY <1>6 DEF TakePart
  <2> HIDE DEF x
  <2> QED
    BY <2>1, <2>2, <2>3, KeepsOrder
<1>7. ASSUME NEW s \in Sessions, FindRows(s) PROVE OInv'
  <2>1. PICK rows \in SUBSET FOs, at \in {"ledger", "commit"} :
          Becomes(s, Finds(session[s], rows, at)) /\ session[s].at = "rows"
    BY <1>0, <1>7, FindsRows
  <2>2. Finds(session[s], rows, at).at = at
    BY <1>0 DEF Finds, SessionType
  <2>3. UNCHANGED locks
    BY <1>7 DEF FindRows
  <2> QED
    BY <2>1, <2>2, <2>3, KeepsLocks
<1>8. ASSUME NEW s \in Sessions, ReadLedger(s) PROVE OInv'
  <2>1. UNCHANGED locks /\ session[s].at = "ledger"
    BY <1>8 DEF ReadLedger
  <2>2. ASSUME NEW f \in session[s].left, Becomes(s, Reads(session[s], f)) PROVE OInv'
    <3>1. Reads(session[s], f).at \in {"part", "ledger"}
      BY <1>0 DEF Reads, SessionType
    <3> QED
      BY <2>1, <2>2, <3>1, KeepsLocks
  <2>3. ASSUME NEW at \in {"stock", "commit"}, Becomes(s, GoesTo(session[s], at)) PROVE OInv'
    <3>1. GoesTo(session[s], at).at = at
      BY <1>0 DEF GoesTo, SessionType
    <3> QED
      BY <2>1, <2>3, <3>1, KeepsLocks
  <2> QED
    BY <1>0, <1>8, <2>2, <2>3, ReadsLedger
<1>9. ASSUME NEW s \in Sessions, ReadStock(s) PROVE OInv'
  <2>1. PICK ships \in BOOLEAN, goods \in Nat : Becomes(s, ReadsStock(session[s], ships, goods))
    BY <1>0, <1>9, StockRead
  <2>2. ReadsStock(session[s], ships, goods).at = "commit"
    BY <1>0 DEF ReadsStock, SessionType
  <2>3. UNCHANGED locks /\ session[s].at = "stock"
    BY <1>9 DEF ReadStock
  <2> QED
    BY <2>1, <2>2, <2>3, KeepsLocks
<1>10. ASSUME NEW s \in Sessions, Commit(s) PROVE OInv'
  BY <1>0, <1>10, CommitTyped, KeepsUnlock DEF Commit
<1>11. ASSUME NEW s \in Sessions, Rollback(s) PROVE OInv'
  <2>1. Becomes(s, Idle) /\ Unlock(s)
    BY <1>0, <1>11, IdleTyped, SetSession DEF Rollback, TInv
  <2> QED
    BY <2>1, KeepsUnlock
<1> QED
  BY <1>1, <1>2, <1>3, <1>4, <1>5, <1>6, <1>7, <1>8, <1>9, <1>10, <1>11
     DEF Next, Begin, Statement

(* Every request locks the row of its order before the row of the part and *)
(* nothing after it: however many requests of whatever kind overlap, no    *)
(* set of them waits for itself, so that waiting always ends with the      *)
(* commit or the rollback of a request that waits for none of the others.  *)
THEOREM LocksNeverCycle == Spec => []NoDeadlock
<1>1. Init => OInv
  <2> SUFFICES ASSUME Init, NEW s \in Sessions PROVE LockOrder(s)
    BY TypeInit DEF OInv
  <2>1. session[s].at = "idle" /\ holder # s /\ \A o \in Orders : writer[o] # s
    BY TxAssumption DEF Init, Idle
  <2> QED
    BY <2>1 DEF LockOrder
<1>2. OInv /\ [Next]_vars => OInv'
  BY TypeStep, OrderStep DEF OInv
<1>3. OInv => NoDeadlock
  <2> SUFFICES ASSUME OInv, NEW W \in SUBSET Sessions, W # {}
               PROVE  \E s \in W : \A t \in W : ~WaitsFor(s, t)
    BY DEF NoDeadlock
  <2>1. \A s \in W : LockOrder(s)
    BY DEF OInv
  <2>2. CASE \E s \in W : session[s].at \notin {"flush", "part"}
    BY <2>2 DEF WaitsFor
  <2>3. CASE \E s \in W : session[s].at = "part"
    <3>1. CASE holder \in W /\ session[holder].at # "flush"
      BY <3>1 DEF WaitsFor
    <3>2. CASE holder \notin W
      BY <2>3, <3>2 DEF WaitsFor
    <3> QED
      BY <2>1, <3>1, <3>2 DEF LockOrder
  <2>4. CASE \A s \in W : session[s].at = "flush"
    <3>1. PICK s \in W : TRUE
      OBVIOUS
    <3>2. \A t \in W : ~WaitsFor(s, t)
      BY <2>1, <2>4, <3>1 DEF LockOrder, WaitsFor
    <3> QED
      BY <3>2
  <2> QED
    BY <2>2, <2>3, <2>4
<1> QED
  BY <1>1, <1>2, <1>3, PTL DEF Spec

-----------------------------------------------------------------------------
(* Status changes: what follows holds where the endpoints that take no     *)
(* lock on the order are not called.                                       *)

OnlyMoves == Requests \subseteq {"move"}

(* The rows of one factory order *)
Row(f) ==
    /\ fo[f].source = None => fo[f] = NoFO /\ ledger[f] = NoLedger
    /\ ledger[f].release + ledger[f].consume <= ledger[f].lock
    /\ ~fo[f].voided => ledger[f].release = 0
    /\ fo[f].voided => Held(f) = 0

Rows == \A f \in FOs : Row(f)

(* From the flush on, a session holds the row lock of its order. *)
Owners == \A s \in Sessions : session[s].at \notin {"idle", "flush"} => writer[session[s].o] = s

(* What a session has found is still so. *)
StillTrue(me) ==
    /\ me.kind = "move"
    /\ me.at \in {"idle", "flush", "rows"} => me.rows = {}
    /\ me.at \in {"stock", "commit"} => me.left = {}
    /\ me.target = "paid" => \A f \in me.rows : /\ Linked(me.o) = {} /\ fo[f].source = None
                                                /\ \A g \in me.rows : f = g
    /\ me.target \in {"cancelled", "shipped"} => me.rows \subseteq Active(me.o)
    /\ \A f \in me.rows \ me.left : me.booked[f] = Quantity(me, f)

Apart == \A s, t \in Sessions : s # t => session[s].rows \cap session[t].rows = {}

(* An order has one factory order, voided or not. *)
Single == \A f, g \in FOs : fo[f].source = fo[g].source /\ fo[f].source # None => f = g

IInv ==
    /\ TInv /\ Rows /\ Owners /\ Apart /\ Single
    /\ \A s \in Sessions : StillTrue(session[s])

(* Two sessions past their flush work on two orders. *)
LEMMA OrdersApart ==
  ASSUME Owners, NEW s \in Sessions, NEW t \in Sessions, s # t,
         session[s].at \notin {"idle", "flush"}, session[t].at \notin {"idle", "flush"}
  PROVE  session[s].o # session[t].o
BY DEF Owners

(* What a session has found stays so when it goes on to another statement. *)
LEMMA GoesOn ==
  ASSUME NEW me, NEW x, StillTrue(me), x.kind = me.kind, x.target = me.target, x.o = me.o,
         x.rows = me.rows, x.left = me.left, x.booked = me.booked,
         x.at \notin {"idle", "flush", "rows"}, x.at \in {"stock", "commit"} => me.left = {}
  PROVE  StillTrue(x)
<1>1. \A f : Quantity(x, f) = Quantity(me, f)
  BY DEF Quantity, Booking
<1> QED
  BY <1>1 DEF StillTrue

(* A step of one session that writes no row. *)
LEMMA KeepsInvariant ==
  ASSUME IInv, TInv', UNCHANGED <<fo, ledger>>, NEW s \in Sessions, NEW x, Becomes(s, x),
         StillTrue(x),
         \A t \in Sessions \ {s} : session[t].at \notin {"idle", "flush"} =>
                                    writer'[session[t].o] = writer[session[t].o],
         x.at \notin {"idle", "flush"} => writer'[x.o] = s,
         \A t \in Sessions \ {s} : x.rows \cap session[t].rows = {}
  PROVE  IInv'
<1>1. session'[s] = x /\ \A t \in Sessions \ {s} : session'[t] = session[t]
  BY DEF Becomes
<1>2. Rows' /\ Single'
  BY DEF IInv, Rows, Row, Single, Held
<1>3. Owners'
  BY <1>1 DEF IInv, Owners
<1>4. Apart'
  BY <1>1 DEF IInv, Apart
<1>5. ASSUME NEW t \in Sessions PROVE StillTrue(session[t])'
  <2> DEFINE y == session[t]
  <2>1. StillTrue(session'[t])
    BY <1>1 DEF IInv
  <2>2. fo' = fo /\ ledger' = ledger
    OBVIOUS
  <2>3. /\ y'.kind = "move"
        /\ y'.at \in {"idle", "flush", "rows"} => y'.rows = {}
        /\ y'.at \in {"stock", "commit"} => y'.left = {}
    BY <2>1 DEF StillTrue
  <2>4. (y.target = "paid" => \A f \in y.rows : /\ Linked(y.o) = {} /\ fo[f].source = None
                                               /\ \A g \in y.rows : f = g)'
    BY <2>1, <2>2 DEF StillTrue, Linked
  <2>5. (y.target \in {"cancelled", "shipped"} => y.rows \subseteq Active(y.o))'
    BY <2>1, <2>2 DEF StillTrue, Active, Linked
  <2>6. (\A f \in y.rows \ y.left : y.booked[f] = Quantity(y, f))'
    <3> SUFFICES ASSUME NEW f \in y'.rows \ y'.left PROVE y'.booked[f] = Quantity(y, f)'
      OBVIOUS
    <3>1. y'.booked[f] = Quantity(session'[t], f)
      BY <2>1 DEF StillTrue
    <3>2. Held(f)' = Held(f) /\ Unshipped(f)' = Unshipped(f)
      BY <2>2 DEF Held, Unshipped
    <3> QED
      BY <3>1, <3>2 DEF Quantity, Booking
  <2> QED
    BY <2>3, <2>4, <2>5, <2>6 DEF StillTrue
<1> QED
  BY <1>2, <1>3, <1>4, <1>5 DEF IInv

(* What is known of a row that a session works on *)
LEMMA RowInHand ==
  ASSUME IInv, NEW s \in Sessions, NEW f \in session[s].rows
  PROVE  LET me == session[s]
         IN  /\ me.at \notin {"idle", "flush", "rows"} /\ me.target \in Booked
             /\ me.o \in Orders /\ f \in FOs
             /\ \/ me.target = "paid" /\ fo[f].source = None /\ Linked(me.o) = {}
                \/ me.target # "paid" /\ fo[f].source = me.o /\ ~fo[f].voided
<1> DEFINE me == session[s]
<1>1. me \in SessionType /\ Purpose(me) /\ StillTrue(me)
  BY Shape DEF IInv
<1>2. me.at \notin {"idle", "flush", "rows"} /\ me.target \in Booked /\ me.kind = "move"
  BY <1>1 DEF StillTrue, Purpose
<1>3. me.o \in Orders /\ f \in FOs
  BY <1>1, <1>2 DEF Purpose, SessionType
<1> QED
  BY <1>1, <1>2, <1>3 DEF StillTrue, Booked, Active, Linked

(* Rows found under the lock of the order, or new ones, are nobody else's. *)
LEMMA FoundApart ==
  ASSUME IInv, NEW s \in Sessions, session[s].at = "rows", NEW rows \in SUBSET FOs,
         \/ rows \subseteq Fresh
         \/ rows \subseteq Active(session[s].o),
         NEW t \in Sessions \ {s}
  PROVE  rows \cap session[t].rows = {}
<1> SUFFICES ASSUME NEW f \in rows, f \in session[t].rows PROVE FALSE
  OBVIOUS
<1>1. CASE rows \subseteq Fresh
  BY <1>1 DEF Fresh
<1>2. CASE rows \subseteq Active(session[s].o)
  <2>1. session[s].kind = "move" /\ session[s].o \in Orders
    BY Shape DEF IInv, StillTrue, Purpose
  <2>2. fo[f].source = session[s].o /\ fo[f].source # None
    BY <1>2, <2>1, TxAssumption DEF Active, Linked
  <2>3. session[t].o = session[s].o /\ session[t].at \notin {"idle", "flush"}
    BY <2>2, RowInHand
  <2> QED
    BY <2>3, OrdersApart DEF IInv
<1> QED
  BY <1>1, <1>2

(* The steps of a request before it commits *)
LEMMA StatementStep ==
  ASSUME IInv, TInv', OnlyMoves, NEW s \in Sessions,
         (Begin(s) \/ FlushStatus(s) \/ TakePart(s) \/ FindRows(s) \/ ReadLedger(s) \/ ReadStock(s))
  PROVE  IInv'
<1> DEFINE me == session[s]
<1>0. /\ TInv /\ me \in SessionType /\ Purpose(me) /\ StillTrue(me)
      /\ me.at \notin {"idle", "flush"} => writer[me.o] = s
      /\ \A t \in Sessions \ {s} : me.rows \cap session[t].rows = {}
  BY Shape DEF IInv, Owners, Apart
<1>1. ASSUME NEW o \in Orders, NEW target \in DOMAIN Transitions, BeginMove(s, o, target) PROVE IInv'
  <2> DEFINE x == BeginsMove(o, target)
  <2>1. Becomes(s, x)
    BY <1>0, <1>1, MoveBegins
  <2>2. x.rows = {} /\ x.at = "flush" /\ StillTrue(x)
    BY DEF BeginsMove, Idle, StillTrue
  <2>3. UNCHANGED <<fo, ledger, writer>>
    BY <1>1 DEF BeginMove, tables, locks
  <2> HIDE DEF x
  <2> QED
    BY <2>1, <2>2, <2>3, KeepsInvariant
<1>3. CASE FlushStatus(s)
  <2> DEFINE x == GoesTo(me, "rows")
  <2>1. Becomes(s, x) /\ me.at = "flush" /\ me.o \in Orders
    BY <1>0, <1>3, Flushes DEF FlushStatus, Purpose, StillTrue
  <2>2. x.rows = {} /\ x.at = "rows" /\ x.o = me.o /\ StillTrue(x)
    BY <1>0, <2>1 DEF GoesTo, StillTrue, SessionType
  <2>3. UNCHANGED <<fo, ledger>> /\ writer[me.o] = None /\ writer' = [writer EXCEPT ![me.o] = s]
    BY <1>3 DEF FlushStatus, tables
  <2>4. writer'[me.o] = s
    BY <1>0, <2>1, <2>3, Shape DEF TablesTyped
  <2>5. ASSUME NEW t \in Sessions \ {s}, session[t].at \notin {"idle", "flush"}
        PROVE  writer'[session[t].o] = writer[session[t].o]
    <3>1. writer[session[t].o] = t /\ t # None
      BY <2>5, TxAssumption DEF IInv, Owners
    <3> QED
      BY <3>1, <2>3
  <2> HIDE DEF x
  <2> QED
    BY <2>1, <2>2, <2>3, <2>4, <2>5, KeepsInvariant
<1>4. CASE TakePart(s)
  <2> DEFINE x == Takes(me, RowTaken(s))
  <2>1. Becomes(s, x)
    BY <1>0, <1>4, TakesPart
  <2>2. /\ me.at = "part" /\ x.rows = me.rows /\ x.left = me.left /\ x.at = "ledger" /\ x.o = me.o
        /\ x.target = me.target /\ x.kind = me.kind /\ x.booked = me.booked
    BY <1>0, <1>4 DEF Takes, SessionType, TakePart
  <2>3. StillTrue(x)
    BY <1>0, <2>2, GoesOn
  <2>4. UNCHANGED <<fo, ledger, writer>>
    BY <1>4 DEF TakePart, tables
  <2> HIDE DEF x
  <2> QED
    BY <1>0, <2>1, <2>2, <2>3, <2>4, KeepsInvariant DEF x
<1>5. CASE FindRows(s)
  <2>1. PICK rows \in SUBSET FOs, at \in {"ledger", "commit"} :
          /\ Becomes(s, Finds(me, rows, at)) /\ me.at = "rows"
          /\ rows = {} \/ at = "ledger"
          /\ \/ me.target = "paid" /\ Linked(me.o) = {} /\ \E f \in Fresh : rows = {f}
             \/ rows = {}
             \/ me.target = "cancelled" /\ rows = Active(me.o)
             \/ me.target = "shipped" /\ rows = Undelivered(me.o)
    BY <1>0, <1>5, FindsRows
  <2> DEFINE x == Finds(me, rows, at)
  <2>2. x.rows = rows /\ x.left = rows /\ x.at = at /\ x.o = me.o /\ x.target = me.target
        /\ x.kind = me.kind
    BY <1>0 DEF Finds, SessionType
  <2>3. StillTrue(x)
    BY <1>0, <2>1, <2>2 DEF StillTrue, Fresh, Undelivered
  <2>4. rows \subseteq Fresh \/ rows \subseteq Active(me.o)
    BY <2>1 DEF Undelivered
  <2>5. \A t \in Sessions \ {s} : rows \cap session[t].rows = {}
    BY <2>1, <2>4, FoundApart
  <2>6. UNCHANGED <<fo, ledger, writer>>
    BY <1>5 DEF FindRows, tables, locks
  <2> HIDE DEF x
  <2> QED
    BY <1>0, <2>1, <2>2, <2>3, <2>5, <2>6, KeepsInvariant DEF x
<1>6. CASE ReadLedger(s)
  <2>1. me.at = "ledger" /\ UNCHANGED <<fo, ledger, writer>>
    BY <1>6 DEF ReadLedger, tables, locks
  <2>2. ASSUME NEW f \in me.left, Becomes(s, Reads(me, f)) PROVE IInv'
    <3> DEFINE x == Reads(me, f)
    <3>1. /\ x.rows = me.rows /\ x.left = me.left \ {f} /\ x.at \in {"part", "ledger"} /\ x.o = me.o
          /\ x.target = me.target /\ x.kind = me.kind
          /\ x.booked = [me.booked EXCEPT ![f] = Quantity(me, f)]
      BY <1>0 DEF Reads, SessionType
    <3>2. \A g : Quantity(x, g) = Quantity(me, g)
      BY <3>1 DEF Quantity, Booking
    <3>3. \A g \in x.rows \ x.left : x.booked[g] = Quantity(me, g)
      BY <1>0, <3>1 DEF StillTrue, SessionType
    <3>4. StillTrue(x)
      BY <1>0, <3>1, <3>2, <3>3 DEF StillTrue
    <3> HIDE DEF x
    <3> QED
      BY <1>0, <2>1, <2>2, <3>1, <3>4, KeepsInvariant DEF x
  <2>3. ASSUME me.left = {}, NEW at \in {"stock", "commit"}, Becomes(s, GoesTo(me, at)) PROVE IInv'
    <3> DEFINE x == GoesTo(me, at)
    <3>1. /\ x.rows = me.rows /\ x.left = {} /\ x.at = at /\ x.o = me.o
          /\ x.target = me.target /\ x.kind = me.kind /\ x.booked = me.booked
      BY <1>0, <2>3 DEF GoesTo, SessionType
    <3>2. StillTrue(x)
      BY <1>0, <2>3, <3>1, GoesOn
    <3> HIDE DEF x
    <3> QED
      BY <1>0, <2>1, <2>3, <3>1, <3>2, KeepsInvariant DEF x
  <2> QED
    BY <1>0, <1>6, <2>2, <2>3, ReadsLedger
<1>7. CASE ReadStock(s)
  <2>1. PICK ships \in BOOLEAN, goods \in Nat : Becomes(s, ReadsStock(me, ships, goods))
    BY <1>0, <1>7, StockRead
  <2> DEFINE x == ReadsStock(me, ships, goods)
  <2>2. /\ me.at = "stock" /\ x.rows = me.rows /\ x.left = me.left /\ x.at = "commit" /\ x.o = me.o
        /\ x.target = me.target /\ x.kind = me.kind /\ x.booked = me.booked
    BY <1>0, <1>7 DEF ReadsStock, SessionType, ReadStock
  <2>3. me.left = {}
    BY <1>0, <2>2 DEF StillTrue
  <2>5. StillTrue(x)
    BY <1>0, <2>2, <2>3, GoesOn
  <2>4. UNCHANGED <<fo, ledger, writer>>
    BY <1>7 DEF ReadStock, tables, locks
  <2> HIDE DEF x
  <2> QED
    BY <1>0, <2>1, <2>2, <2>4, <2>5, KeepsInvariant DEF x
<1>8. ASSUME NEW o \in Orders PROVE ~BeginGenerate(s, o)
  BY DEF OnlyMoves, BeginGenerate
<1>9. ASSUME NEW f \in FOs PROVE ~BeginVoid(s, f)
  BY DEF OnlyMoves, BeginVoid
<1> QED
  BY <1>1, <1>3, <1>4, <1>5, <1>6, <1>7, <1>8, <1>9 DEF Begin

(* What a commit makes of a row in hand *)
LEMMA CommittedRow ==
  ASSUME IInv, NEW s \in Sessions, Commit(s), NEW f \in session[s].rows
  PROVE  LET me == session[s]
         IN  /\ f \in FOs /\ me.o \in Orders /\ me.o # None /\ me.target \in Booked
             /\ ledger[f] \in LedgerRow /\ ledger[f].release = 0 /\ ledger[f].consume <= ledger[f].lock
             /\ fo'[f].source = me.o
             /\ me.target = "paid" =>
                  /\ fo[f].source = None /\ ~fo'[f].voided /\ ledger[f] = NoLedger
                  /\ ledger'[f] = [NoLedger EXCEPT !.lock = 1]
             /\ me.target # "paid" => fo[f].source = me.o /\ ~fo[f].voided
             /\ me.target = "cancelled" =>
                  /\ fo'[f].voided
                  /\ ledger'[f] = [ledger[f] EXCEPT !.release = ledger[f].lock - ledger[f].consume]
             /\ me.target = "shipped" =>
                  /\ ~fo'[f].voided
                  /\ ledger'[f] = [ledger[f] EXCEPT !.consume = ledger[f].lock]
<1> DEFINE me == session[s]
<1>1. /\ me \in SessionType /\ Purpose(me) /\ StillTrue(me) /\ TablesTyped
      /\ me.at = "commit" /\ me.left = {}
  BY Shape DEF IInv, Commit, StillTrue
<1>2. /\ f \in FOs /\ me.o \in Orders /\ me.o # None /\ me.target \in Booked
      /\ \/ me.target = "paid" /\ fo[f].source = None
         \/ me.target # "paid" /\ fo[f].source = me.o /\ ~fo[f].voided
  BY RowInHand, TxAssumption
<1>3. Row(f) /\ fo[f] \in FORow /\ ledger[f] \in LedgerRow
  BY <1>1, <1>2 DEF IInv, Rows, TablesTyped
<1>4. /\ fo'[f] = Written(me, f)
      /\ ledger'[f] = [ledger[f] EXCEPT ![Booking(me)] = @ + Quantity(me, f)]
  BY <1>1, <1>2 DEF Commit, StillTrue
<1>5. ledger[f].release = 0 /\ ledger[f].consume <= ledger[f].lock
  BY <1>2, <1>3 DEF Row, LedgerRow, NoLedger, NoFO
<1>6. /\ Held(f) = ledger[f].lock - ledger[f].consume /\ Held(f) \in Int /\ Held(f) >= 0
      /\ Unshipped(f) = Held(f)
  BY <1>3, <1>5 DEF Held, Unshipped, LedgerRow
<1>7. ASSUME me.target = "paid"
      PROVE  /\ fo'[f].source = me.o /\ ~fo'[f].voided /\ ledger[f] = NoLedger
             /\ ledger'[f] = [NoLedger EXCEPT !.lock = 1]
  <2>1. Booking(me) = "lock" /\ ledger[f] = NoLedger
    BY <1>1, <1>2, <1>3, <1>7, Bookings DEF Row
  <2> QED
    BY <1>4, <2>1 DEF Quantity, Written, NoFO, NoLedger
<1>8. ASSUME me.target = "cancelled"
      PROVE  /\ fo'[f].source = me.o /\ fo'[f].voided
             /\ ledger'[f] = [ledger[f] EXCEPT !.release = ledger[f].lock - ledger[f].consume]
  <2>1. Booking(me) = "release" /\ fo[f].source = me.o
    BY <1>1, <1>2, <1>8, Bookings
  <2>2. Quantity(me, f) = ledger[f].lock - ledger[f].consume
    BY <1>6, <2>1, FloorNat DEF Quantity
  <2>3. ledger'[f] = [ledger[f] EXCEPT !.release = ledger[f].lock - ledger[f].consume]
    BY <1>3, <1>4, <1>5, <2>1, <2>2 DEF LedgerRow
  <2>4. fo'[f].source = me.o /\ fo'[f].voided
    BY <1>3, <1>4, <2>1 DEF Written, FORow
  <2> QED
    BY <2>3, <2>4
<1>9. ASSUME me.target = "shipped"
      PROVE  /\ fo'[f].source = me.o /\ ~fo'[f].voided
             /\ ledger'[f] = [ledger[f] EXCEPT !.consume = ledger[f].lock]
  <2>1. Booking(me) = "consume" /\ fo[f].source = me.o /\ ~fo[f].voided
    BY <1>1, <1>2, <1>9, Bookings
  <2>2. Quantity(me, f) = ledger[f].lock - ledger[f].consume
    BY <1>6, <2>1, FloorNat DEF Quantity
  <2>3. ledger'[f] = [ledger[f] EXCEPT !.consume = ledger[f].lock]
    BY <1>3, <1>4, <1>5, <2>1, <2>2 DEF LedgerRow
  <2>4. fo'[f].source = me.o /\ ~fo'[f].voided
    BY <1>3, <1>4, <2>1 DEF Written, FORow
  <2> QED
    BY <2>3, <2>4
<1> QED
  BY <1>2, <1>3, <1>5, <1>7, <1>8, <1>9 DEF Booked

(* A commit settles the rows in hand and leaves the others. *)
LEMMA CommittedRows ==
  ASSUME IInv, NEW s \in Sessions, Commit(s)
  PROVE  LET me == session[s]
         IN  /\ \A f \in FOs \ me.rows : fo'[f] = fo[f] /\ ledger'[f] = ledger[f]
             /\ \A f \in me.rows :
                  /\ Row(f)'
                  /\ fo'[f].source = me.o
                  /\ me.target = "paid" => fo[f].source = None
                  /\ me.target # "paid" => fo[f].source = me.o
<1> DEFINE me == session[s]
<1>1. ASSUME NEW f \in FOs \ me.rows PROVE fo'[f] = fo[f] /\ ledger'[f] = ledger[f]
  BY DEF Commit
<1>2. ASSUME NEW f \in me.rows PROVE Row(f)'
  <2>1. me.target \in Booked /\ fo'[f].source # None /\ ledger[f] \in LedgerRow
    BY CommittedRow
  <2>2. CASE me.target = "paid"
    <3>1. ~fo'[f].voided /\ ledger'[f] = [NoLedger EXCEPT !.lock = 1]
      BY <2>2, CommittedRow
    <3> QED
      BY <2>1, <3>1 DEF Row, NoLedger
  <2>3. CASE me.target = "cancelled"
    <3>1. /\ fo'[f].voided /\ ledger[f].consume <= ledger[f].lock
          /\ ledger'[f] = [ledger[f] EXCEPT !.release = ledger[f].lock - ledger[f].consume]
      BY <2>3, CommittedRow
    <3> QED
      BY <2>1, <3>1 DEF Row, Held, LedgerRow
  <2>4. CASE me.target = "shipped"
    <3>1. /\ ~fo'[f].voided /\ ledger[f].release = 0
          /\ ledger'[f] = [ledger[f] EXCEPT !.consume = ledger[f].lock]
      BY <2>4, CommittedRow
    <3> QED
      BY <2>1, <3>1 DEF Row, LedgerRow
  <2> QED
    BY <2>1, <2>2, <2>3, <2>4 DEF Booked
<1> QED
  BY <1>1, <1>2, CommittedRow

(* The row lock of the order keeps a commit away from what other sessions  *)
(* have read.                                                              *)
LEMMA CommitStep == ASSUME IInv, TInv', NEW s \in Sessions, Commit(s) PROVE IInv'
<1> DEFINE me == session[s]
<1>1. /\ session'[s] = Idle /\ \A t \in Sessions \ {s} : session'[t] = session[t]
      /\ me.at = "commit" /\ Unlock(s)
  BY CommitTyped DEF Commit, Becomes, IInv
<1>2. /\ \A f \in FOs \ me.rows : fo'[f] = fo[f] /\ ledger'[f] = ledger[f]
      /\ \A f \in me.rows :
           /\ Row(f)' /\ f \in FOs /\ fo'[f].source = me.o /\ me.o \in Orders
           /\ \/ fo[f].source = None /\ Linked(me.o) = {} /\ \A g \in me.rows : f = g
              \/ fo[f].source = me.o
  BY CommittedRows, RowInHand DEF IInv, StillTrue
<1>3. Rows'
  BY <1>2 DEF IInv, Rows, Row, Held
<1>4. Single'
  <2> SUFFICES ASSUME NEW f \in FOs, NEW g \in FOs, fo'[f].source = fo'[g].source,
                      fo'[f].source # None
               PROVE  f = g
    BY DEF Single
  <2>1. CASE f \in me.rows /\ g \in me.rows
    BY <1>2, <2>1, TxAssumption DEF IInv, Single
  <2>2. CASE f \notin me.rows /\ g \notin me.rows
    BY <1>2, <2>2 DEF IInv, Single
  <2>3. CASE f \in me.rows /\ g \notin me.rows
    BY <1>2, <2>3, TxAssumption DEF IInv, Single, Linked
  <2>4. CASE f \notin me.rows /\ g \in me.rows
    BY <1>2, <2>4, TxAssumption DEF IInv, Single, Linked
  <2> QED
    BY <2>1, <2>2, <2>3, <2>4
<1>5. Owners'
  <2> SUFFICES ASSUME NEW t \in Sessions, session'[t].at \notin {"idle", "flush"}
               PROVE  writer'[session'[t].o] = t
    BY DEF Owners
  <2>1. t # s /\ session'[t] = session[t]
    BY <1>1 DEF Idle
  <2>2. writer[session[t].o] = t
    BY <2>1 DEF IInv, Owners
  <2>3. session[t].kind = "move" /\ session[t].o \in Orders
    BY <2>1, Shape DEF IInv, StillTrue, Purpose
  <2> QED
    BY <1>1, <2>1, <2>2, <2>3 DEF Unlock
<1>6. Apart'
  BY <1>1 DEF IInv, Apart, Idle
<1>7. ASSUME NEW t \in Sessions PROVE StillTrue(session[t])'
  <2>1. CASE t = s
    BY <1>1, <2>1 DEF StillTrue, Idle
  <2>2. CASE t # s
    <3> DEFINE y == session[t]
    <3>1. session'[t] = y /\ StillTrue(y) /\ y \in SessionType
      BY <1>1, <2>2, Shape DEF IInv
    <3>2. ASSUME NEW f \in y.rows
          PROVE  /\ fo'[f] = fo[f] /\ ledger'[f] = ledger[f] /\ f \in FOs
                 /\ Quantity(y, f)' = Quantity(y, f)
      <4>1. f \notin me.rows /\ f \in FOs
        BY <2>2, <3>1 DEF IInv, Apart, SessionType
      <4>2. fo'[f] = fo[f] /\ ledger'[f] = ledger[f]
        BY <1>2, <4>1
      <4> QED
        BY <1>1, <2>2, <4>1, <4>2 DEF Quantity, Booking, Held, Unshipped
    <3>3. ASSUME NEW f \in y.rows, y.target = "paid" PROVE (Linked(y.o) = {})'
      <4>1. y.o # me.o
        BY <1>1, <2>2, <3>3, RowInHand, OrdersApart DEF IInv
      <4>2. Linked(y.o) = {}
        BY <3>1, <3>3 DEF StillTrue
      <4>3. \A g \in FOs : fo'[g].source # y.o
        BY <1>2, <4>1, <4>2 DEF Linked
      <4> QED
        BY <3>1, <4>3 DEF Linked
    <3>4. y.target \in {"cancelled", "shipped"} => y.rows \subseteq Active(y.o)'
      BY <3>1, <3>2 DEF StillTrue, Active, Linked
    <3> QED
      BY <3>1, <3>2, <3>3, <3>4 DEF StillTrue
  <2> QED
    BY <2>1, <2>2
<1> QED
  BY <1>3, <1>4, <1>5, <1>6, <1>7 DEF IInv

LEMMA RollbackStep == ASSUME IInv, TInv', NEW s \in Sessions, Rollback(s) PROVE IInv'
<1>1. Becomes(s, Idle) /\ UNCHANGED <<fo, ledger>>
  BY IdleTyped, SetSession DEF Rollback, tables, IInv, TInv
<1>2. StillTrue(Idle) /\ Idle.rows = {} /\ Idle.at = "idle"
  BY DEF StillTrue, Idle
<1>3. ASSUME NEW t \in Sessions \ {s}, session[t].at \notin {"idle", "flush"}
      PROVE  writer'[session[t].o] = writer[session[t].o]
  <2>1. writer[session[t].o] = t /\ session[t].kind = "move"
    BY <1>3 DEF IInv, Owners, StillTrue
  <2>2. session[t].o \in Orders
    BY <1>3, <2>1, Shape DEF IInv, Purpose
  <2> QED
    BY <2>1, <2>2 DEF Rollback, Unlock
<1> QED
  BY <1>1, <1>2, <1>3, KeepsInvariant

THEOREM InvariantHolds == ASSUME OnlyMoves PROVE Spec => []IInv
<1>1. Init => IInv
  <2> SUFFICES ASSUME Init PROVE IInv
    OBVIOUS
  <2>1. Rows /\ Single
    BY DEF Init, Rows, Row, Single, NoFO, NoLedger, Held
  <2>2. Owners /\ Apart /\ \A s \in Sessions : StillTrue(session[s])
    BY DEF Init, Owners, Apart, StillTrue, Idle
  <2> QED
    BY <2>1, <2>2, TypeInit DEF IInv
<1>2. IInv /\ [Next]_vars => IInv'
  <2> SUFFICES ASSUME IInv, [Next]_vars PROVE IInv'
    OBVIOUS
  <2>1. TInv'
    BY TypeStep DEF IInv
  <2>2. CASE UNCHANGED vars
    <3>1. /\ fo' = fo /\ ledger' = ledger /\ writer' = writer /\ session' = session
      BY <2>2 DEF vars, tables, locks
    <3>2. Rows' /\ Single'
      BY <3>1 DEF IInv, Rows, Row, Single, Held
    <3>3. Owners' /\ Apart'
      BY <3>1 DEF IInv, Owners, Apart
    <3>4. ASSUME NEW t \in Sessions PROVE StillTrue(session[t])'
      <4> DEFINE y == session'[t]
      <4>1. StillTrue(y)
        BY <3>1 DEF IInv
      <4> QED
        BY <3>1, <4>1 DEF StillTrue, Linked, Active, Quantity, Booking, Held, Unshipped
    <3> QED
      BY <2>1, <3>2, <3>3, <3>4 DEF IInv
  <2>3. ASSUME NEW s \in Sessions, Commit(s) PROVE IInv'
    BY <2>1, <2>3, CommitStep
  <2>4. ASSUME NEW s \in Sessions, Rollback(s) PROVE IInv'
    BY <2>1, <2>4, RollbackStep
  <2>5. ASSUME NEW s \in Sessions,
               (Begin(s) \/ FlushStatus(s) \/ TakePart(s) \/ FindRows(s) \/ ReadLedger(s)
                \/ ReadStock(s))
        PROVE  IInv'
    BY <2>1, <2>5, StatementStep
  <2> QED
    BY <2>2, <2>3, <2>4, <2>5 DEF Next, Statement
<1> QED
  BY <1>1, <1>2, PTL DEF Spec

(* However many status changes overlap, the lock of a factory order is     *)
(* released or consumed, never both and never beyond what was locked.      *)
THEOREM LocksSettle == ASSUME OnlyMoves PROVE Spec => []LocksSettleOnce
<1>1. IInv => LocksSettleOnce
  BY DEF IInv, Rows, Row, LocksSettleOnce
<1> QED
  BY <1>1, InvariantHolds, PTL

(* Payments of one order that overlap create one factory order.            *)
THEOREM OneLive == ASSUME OnlyMoves PROVE Spec => []OneLiveFactoryOrder
<1>1. IInv => OneLiveFactoryOrder
  <2> SUFFICES ASSUME IInv, NEW o \in Orders PROVE Cardinality(Active(o)) <= 1
    BY DEF OneLiveFactoryOrder
  <2>1. CASE Active(o) = {}
    BY <2>1, FS_EmptySet
  <2>2. CASE Active(o) # {}
    <3>1. PICK f \in Active(o) : TRUE
      BY <2>2
    <3>2. o # None
      BY TxAssumption
    <3>3. Active(o) = {f}
      BY <3>1, <3>2 DEF IInv, Single, Active, Linked
    <3>4. Cardinality({f}) = 1
      BY FS_Singleton
    <3> QED
      BY <3>3, <3>4
  <2> QED
    BY <2>1, <2>2
<1> QED
  BY <1>1, InvariantHolds, PTL

-----------------------------------------------------------------------------
(* With status changes only, a request works on one factory order, so it   *)
(* takes the part row once and then carries exactly its own change.        *)
Exact(me) ==
    /\ me.left = {} /\ me.at # "part"
    /\ me.part.locked = part.locked + Change(me)

MInv == LockedMatchesLedger /\ \A s \in Sessions : holder = s => Exact(session[s])

LEMMA KeepsExact ==
  ASSUME MInv, UNCHANGED <<ledger, part>>, NEW s \in Sessions, NEW x, Becomes(s, x),
         holder' = s => Exact(x),
         \A t \in Sessions \ {s} : holder' = t => holder = t
  PROVE  MInv'
<1>1. LockedMatchesLedger'
  BY DEF MInv, LockedMatchesLedger, Held
<1>2. ASSUME NEW t \in Sessions, holder' = t PROVE Exact(session[t])'
  <2>1. CASE t = s
    <3>1. session'[t] = x /\ Exact(x)
      BY <1>2, <2>1 DEF Becomes
    <3> QED
      BY <3>1 DEF Exact, Counted, Change, Work, Booking
  <2>2. CASE t # s
    <3>1. session'[t] = session[t] /\ Exact(session[t])
      BY <1>2, <2>2 DEF Becomes, MInv
    <3> QED
      BY <3>1 DEF Exact, Counted, Change, Work, Booking
  <2> QED
    BY <2>1, <2>2
<1> QED
  BY <1>1, <1>2 DEF MInv

(* What the ledger holds of one factory order is part of what it holds. *)
LEMMA HeldBelow ==
  ASSUME TInv, Rows, LockedMatchesLedger, NEW f \in FOs
  PROVE  Held(f) \in Nat /\ Held(f) <= part.locked
<1>1. \A g \in FOs : HeldBy[g] = Held(g) /\ Held(g) \in Nat
  <2> SUFFICES ASSUME NEW g \in FOs PROVE HeldBy[g] = Held(g) /\ Held(g) \in Nat
    OBVIOUS
  <2>1. ledger[g] \in LedgerRow /\ HeldBy[g] = Held(g)
    BY HeldSum DEF TInv, TypeOK, LedgerRow
  <2>2. ledger[g].release + ledger[g].consume <= ledger[g].lock
    BY DEF Rows, Row
  <2> QED
    BY <2>1, <2>2 DEF Held, LedgerRow
<1>2. HeldBy[f] <= SumFunctionOnSet(HeldBy, FOs)
  BY <1>1, TxAssumption, SumNat
<1>3. part.locked = SumFunctionOnSet(HeldBy, FOs)
  BY HeldSum DEF LockedMatchesLedger, HeldBy
<1> QED
  BY <1>1, <1>2, <1>3

(* The one factory order a request works on *)
LEMMA OneRow ==
  ASSUME IInv, NEW s \in Sessions, NEW f \in session[s].rows
  PROVE  session[s].rows = {f}
<1> DEFINE me == session[s]
<1>1. me \in SessionType /\ Purpose(me) /\ StillTrue(me) /\ me.target \in Booked /\ me.o \in Orders
  BY Shape, RowInHand DEF IInv
<1>2. CASE me.target = "paid"
  BY <1>1, <1>2 DEF StillTrue
<1>3. CASE me.target # "paid"
  <2>1. me.rows \subseteq Active(me.o)
    BY <1>1, <1>3 DEF StillTrue, Booked
  <2> QED
    BY <1>1, <2>1, TxAssumption DEF IInv, Single, Active, Linked
<1> QED
  BY <1>2, <1>3

(* The clamp at zero is never reached. *)
LEMMA TakesExactly ==
  ASSUME IInv, LInv, MInv, NEW s \in Sessions, TakePart(s)
  PROVE  Exact(Takes(session[s], RowTaken(s)))
<1> DEFINE me == session[s]
           f == me.visit
           q == me.booked[f]
           row == RowTaken(s)
           x == Takes(me, row)
<1>1. /\ TInv /\ me \in SessionType /\ Purpose(me) /\ StillTrue(me) /\ InHand(me)
      /\ me.at = "part" /\ f \in FOs /\ part \in PartRow
  BY Shape DEF IInv, LInv, TakePart, Purpose, TablesTyped
<1>2. holder # s /\ row = Book(part, Booking(me), q)
  BY <1>1 DEF MInv, Exact, RowTaken
<1>3. f \in me.rows \ me.left /\ me.rows = {f} /\ me.left = {} /\ Counted(me) = {}
  <2>1. f \in me.rows \ me.left
    BY <1>1 DEF InHand
  <2>2. me.rows = {f}
    BY <2>1, OneRow
  <2> QED
    BY <1>1, <2>1, <2>2 DEF Purpose, Counted
<1>4. row \in PartRow /\ x \in SessionType /\ Booking(me) \in {"lock", "release", "consume"}
  BY <1>1, TakesPart DEF Becomes
<1>5. Work(x) = q /\ Booking(x) = Booking(me) /\ q \in Nat
  <2>1. Work(me) = 0 /\ q \in Nat
    BY <1>1, <1>3, WorkNat DEF SessionType
  <2>2. Work(x) = q + Work(me) /\ Booking(x) = Booking(me)
    BY <1>1, <1>4, TakesWork
  <2> QED
    BY <2>1, <2>2
<1>6. Booking(me) # "lock" => q <= part.locked
  <2> SUFFICES ASSUME Booking(me) # "lock" PROVE q <= part.locked
    OBVIOUS
  <2>1. q = Quantity(me, f) /\ ~fo[f].voided
    BY <1>1, <1>3, RowInHand, Bookings DEF StillTrue, Booked
  <2>2. Held(f) \in Nat /\ Held(f) <= part.locked
    BY <1>1, HeldBelow DEF IInv, MInv
  <2>3. ledger[f].release = 0 /\ ledger[f] \in LedgerRow
    BY <1>1, <2>1, Shape DEF IInv, Rows, Row, TablesTyped
  <2>4. Unshipped(f) = Held(f)
    BY <2>3 DEF Unshipped, Held, LedgerRow
  <2>5. q = Held(f)
    BY <1>4, <2>1, <2>2, <2>4, FloorNat DEF Quantity
  <2> QED
    BY <2>2, <2>5
<1>7. x.left = {} /\ x.at = "ledger" /\ x.part = row
  BY <1>1, <1>3 DEF Takes, SessionType
<1> HIDE DEF me, x, row, q
<1>8. row.locked = part.locked + Change(x)
  <2>1. CASE Booking(me) = "lock"
    <3>1. row.locked = part.locked + q
      BY <1>1, <1>2, <2>1 DEF Book, PartRow
    <3> QED
      BY <1>5, <2>1, <3>1 DEF Change
  <2>2. CASE Booking(me) # "lock"
    <3>1. row.locked = Floor(part.locked - q) /\ part.locked \in Nat
      BY <1>1, <1>2, <1>4, <2>2 DEF Book, PartRow
    <3>2. row.locked = part.locked - q
      BY <1>5, <1>6, <2>2, <3>1, FloorNat
    <3> QED
      BY <1>5, <2>2, <3>1, <3>2 DEF Change
  <2> QED
    BY <2>1, <2>2
<1>9. Exact(x)
  BY <1>7, <1>8 DEF Exact
<1> QED
  BY <1>9 DEF x, me, row

LEMMA CommitExact ==
  ASSUME IInv, LInv, MInv, TInv', NEW s \in Sessions, Commit(s)
  PROVE  MInv'
<1> DEFINE me == session[s]
           total == SumFunctionOnSet(HeldBy, FOs)
<1>1. /\ TInv /\ me \in SessionType /\ InHand(me) /\ Carries(me, holder = s)
      /\ part.locked \in Nat /\ me.part.locked \in Nat
  BY Shape DEF LInv, TablesTyped, SessionType, PartRow
<1>2. part.locked = total
  <2>1. [f \in FOs |-> Held(f)] = HeldBy
    BY DEF HeldBy
  <2> QED
    BY <1>1, <2>1, HeldSum DEF MInv, LockedMatchesLedger
<1>3. /\ SumFunction([f \in FOs |-> Held(f)])' = total + Change(me) /\ Change(me) \in Int
      /\ \/ part' = me.part /\ \E f \in Counted(me) : me.booked[f] # 0
         \/ part' = part /\ Change(me) = 0
  BY <1>1, CommitHeld
<1>4. (part' = part /\ Change(me) = 0) \/ (part' = me.part /\ holder = s)
  BY <1>1, <1>3 DEF Carries
<1>5. LockedMatchesLedger'
  <2>1. part'.locked = total + Change(me)
    BY <1>1, <1>2, <1>3, <1>4 DEF MInv, Exact
  <2> HIDE DEF me, total
  <2> QED
    BY <1>3, <2>1 DEF LockedMatchesLedger
<1>6. ASSUME NEW t \in Sessions, holder' = t PROVE Exact(session[t])'
  <2>1. Becomes(s, Idle) /\ Unlock(s) /\ s # None /\ t # None
    BY <1>1, CommitTyped, TxAssumption DEF Commit
  <2>2. t # s /\ holder = t
    BY <1>6, <2>1 DEF Unlock
  <2>3. session'[t] = session[t] /\ part' = part /\ Exact(session[t])
    BY <1>4, <2>1, <2>2 DEF Becomes, MInv
  <2> QED
    BY <2>3 DEF Exact, Counted, Change, Work, Booking
<1> QED
  BY <1>5, <1>6 DEF MInv

LEMMA ExactStep == IInv /\ LInv /\ MInv /\ TInv' /\ [Next]_vars => MInv'
<1> SUFFICES ASSUME IInv, LInv, MInv, TInv', [Next]_vars PROVE MInv'
  OBVIOUS
<1>0. TInv
  BY DEF LInv
<1>1. CASE UNCHANGED vars
  <2>1. UNCHANGED <<ledger, part, holder, session>>
    BY <1>1 DEF vars, tables, locks
  <2>2. LockedMatchesLedger'
    BY <2>1 DEF MInv, LockedMatchesLedger, Held
  <2>3. ASSUME NEW t \in Sessions, holder' = t PROVE Exact(session[t])'
    <3>1. Exact(session[t])
      BY <2>1, <2>3 DEF MInv
    <3> QED
      BY <2>1, <3>1 DEF Exact, Counted, Change, Work, Booking
  <2> QED
    BY <2>2, <2>3 DEF MInv
<1>2. ASSUME NEW s \in Sessions PROVE /\ session[s] \in SessionType /\ Purpose(session[s])
                                      /\ InHand(session[s]) /\ Carries(session[s], holder = s)
                                      /\ holder = s => Exact(session[s])
  BY <1>0, Shape DEF LInv, MInv
<1>3. ASSUME NEW s \in Sessions, NEW x, Becomes(s, x), UNCHANGED <<ledger, part, holder>>,
             holder # s
      PROVE  MInv'
  BY <1>3, KeepsExact
<1>4. ASSUME NEW s \in Sessions, Begin(s) \/ FlushStatus(s) \/ FindRows(s) PROVE MInv'
  <2>1. UNCHANGED <<ledger, part, holder>> /\ session[s].at \in {"idle", "flush", "rows"}
    BY <1>4 DEF Begin, BeginMove, BeginGenerate, BeginVoid, FlushStatus, FindRows, tables, locks
  <2>2. holder # s
    BY <1>2, <2>1 DEF Carries
  <2>3. \E x : Becomes(s, x)
    BY <1>0, <1>4, MoveBegins, GenerateBegins, VoidBegins, Flushes, FindsRows DEF Begin
  <2> QED
    BY <1>3, <2>1, <2>2, <2>3
<1>5. ASSUME NEW s \in Sessions, NEW x, Becomes(s, x), UNCHANGED <<ledger, part, holder>>,
             holder = s =>
               /\ x.rows = session[s].rows /\ x.left = session[s].left
               /\ x.at \in {"stock", "commit"} /\ x.booked = session[s].booked
               /\ x.target = session[s].target /\ x.kind = session[s].kind
               /\ x.part = session[s].part
      PROVE  MInv'
  <2>1. holder = s => Exact(x)
    <3> SUFFICES ASSUME holder = s PROVE Exact(x)
      OBVIOUS
    <3> DEFINE me == session[s]
    <3>1. Exact(me) /\ x \in SessionType /\ me \in SessionType
      BY <1>2, <1>5 DEF Becomes
    <3>2. Counted(x) = Counted(me)
      BY <1>5, <3>1 DEF Exact, Counted
    <3>3. Change(x) = Change(me)
      BY <1>5, <3>1, <3>2, SameWork
    <3> QED
      BY <1>5, <3>1, <3>3 DEF Exact
  <2> QED
    BY <1>5, <2>1, KeepsExact
<1>6. ASSUME NEW s \in Sessions, ReadLedger(s) PROVE MInv'
  <2> DEFINE me == session[s]
  <2>1. UNCHANGED <<ledger, part, holder>>
    BY <1>6 DEF ReadLedger, tables, locks
  <2>2. ASSUME NEW f \in me.left, Becomes(s, Reads(me, f)) PROVE MInv'
    <3>1. holder # s
      BY <1>2, <2>2 DEF Exact
    <3> QED
      BY <1>3, <2>1, <2>2, <3>1
  <2>3. ASSUME NEW at \in {"stock", "commit"}, Becomes(s, GoesTo(me, at)) PROVE MInv'
    <3> DEFINE x == GoesTo(me, at)
    <3>1. /\ x.rows = me.rows /\ x.left = me.left /\ x.at = at /\ x.booked = me.booked
          /\ x.target = me.target /\ x.kind = me.kind /\ x.part = me.part
      BY <1>2 DEF GoesTo, SessionType
    <3> HIDE DEF x
    <3> QED
      BY <1>5, <2>1, <2>3, <3>1 DEF x
  <2> QED
    BY <1>0, <1>6, <2>2, <2>3, ReadsLedger
<1>7. ASSUME NEW s \in Sessions, TakePart(s) PROVE MInv'
  <2> DEFINE x == Takes(session[s], RowTaken(s))
  <2>1. Becomes(s, x) /\ Exact(x)
    BY <1>0, <1>7, TakesPart, TakesExactly
  <2>2. UNCHANGED <<ledger, part>> /\ holder' = s
    BY <1>7 DEF TakePart, tables
  <2> HIDE DEF x
  <2> QED
    BY <2>1, <2>2, KeepsExact
<1>8. ASSUME NEW s \in Sessions, ReadStock(s) PROVE MInv'
  <2> DEFINE me == session[s]
  <2>1. PICK ships \in BOOLEAN, goods \in Nat : Becomes(s, ReadsStock(me, ships, goods))
    BY <1>0, <1>8, StockRead
  <2> DEFINE x == ReadsStock(me, ships, goods)
  <2>2. UNCHANGED <<ledger, part, holder>>
    BY <1>8 DEF ReadStock, tables, locks
  <2>3. /\ x.rows = me.rows /\ x.left = me.left /\ x.at = "commit" /\ x.booked = me.booked
        /\ x.target = me.target /\ x.kind = me.kind /\ x.part = me.part
    BY <1>2 DEF ReadsStock, SessionType
  <2> HIDE DEF x
  <2> QED
    BY <1>5, <2>1, <2>2, <2>3 DEF x
<1>9. ASSUME NEW s \in Sessions, Commit(s) PROVE MInv'
  BY <1>9, CommitExact
<1>10. ASSUME NEW s \in Sessions, Rollback(s) PROVE MInv'
  <2>1. Becomes(s, Idle) /\ UNCHANGED <<ledger, part>> /\ Unlock(s) /\ s # None
    BY <1>0, <1>10, IdleTyped, SetSession, TxAssumption DEF Rollback, tables, TInv
  <2>2. holder' # s /\ \A t \in Sessions \ {s} : holder' = t => holder = t
    BY <2>1, TxAssumption DEF Unlock
  <2> QED
    BY <2>1, <2>2, KeepsExact
<1> QED
  BY <1>1, <1>4, <1>6, <1>7, <1>8, <1>9, <1>10 DEF Next, Statement

(* Whatever status changes overlap, wait, fail or roll back, the part row  *)
(* shows what the ledger asks for after every commit: no lock is lost and  *)
(* none is counted twice.                                                  *)
THEOREM LockedMatches == ASSUME OnlyMoves PROVE Spec => []LockedMatchesLedger
<1>1. Init => MInv
  <2> SUFFICES ASSUME Init PROVE MInv
    OBVIOUS
  <2>1. TInv /\ \A s \in Sessions : holder # s
    BY TypeInit, TxAssumption DEF Init
  <2>2. SumFunction(HeldBy) = 0
    BY NothingHeld
  <2> QED
    BY <2>1, <2>2 DEF MInv, LockedMatchesLedger, HeldBy, Init
<1>2. IInv /\ LInv /\ MInv /\ [Next]_vars => MInv'
  <2>1. IInv /\ [Next]_vars => TInv'
    BY TypeStep DEF IInv
  <2> QED
    BY <2>1, ExactStep
<1>3. MInv => LockedMatchesLedger
  BY DEF MInv
<1> QED
  BY <1>1, <1>2, <1>3, InvariantHolds, HandsHold, PTL DEF Spec


-----------------------------------------------------------------------------
(* Refinement.  A commit is a step of the abstract factory orders. *)

(* What a request does before its commit is not in the tables. *)
LEMMA OnlyCommitWrites ==
  ASSUME [Next]_vars, ~ \E s \in Sessions : Commit(s)
  PROVE  UNCHANGED tables
<1>1. \A s \in Sessions : Begin(s) \/ FindRows(s) \/ ReadLedger(s) \/ ReadStock(s) =>
                           UNCHANGED tables
  BY DEF Begin, BeginMove, BeginGenerate, BeginVoid, FindRows, ReadLedger, ReadStock
<1>2. \A s \in Sessions : FlushStatus(s) \/ TakePart(s) \/ Rollback(s) => UNCHANGED tables
  BY DEF FlushStatus, TakePart, Rollback
<1> QED
  BY <1>1, <1>2 DEF Next, Statement, vars

(* A factory order that is voided stays so, and its ledger is closed.      *)
VoidedStays ==
    [][\A f \in FOs : fo[f].voided => fo'[f].voided /\ ledger'[f] = ledger[f]]_vars

(* However status changes overlap, a factory order that one of them has    *)
(* voided stays voided, and no request that read it before the commit      *)
(* writes to its ledger afterwards.                                        *)
THEOREM VoidedFinal == ASSUME OnlyMoves PROVE Spec => VoidedStays
<1>1. ASSUME IInv, [Next]_vars, NEW f \in FOs, fo[f].voided
      PROVE  fo'[f].voided /\ ledger'[f] = ledger[f]
  <2>1. ASSUME NEW s \in Sessions, Commit(s) PROVE fo'[f] = fo[f] /\ ledger'[f] = ledger[f]
    <3>1. f \notin session[s].rows
      <4>1. fo[f].source = None => ~fo[f].voided
        BY <1>1 DEF IInv, Rows, Row, NoFO
      <4> QED
        BY <1>1, <2>1, <4>1, CommittedRow
    <3> QED
      BY <1>1, <2>1, <3>1, CommittedRows
  <2>2. CASE ~ \E s \in Sessions : Commit(s)
    BY <1>1, <2>2, OnlyCommitWrites DEF tables
  <2> QED
    BY <1>1, <2>1, <2>2
<1>2. IInv /\ [Next]_vars =>
        [\A f \in FOs : fo[f].voided => fo'[f].voided /\ ledger'[f] = ledger[f]]_vars
  BY <1>1
<1> QED
  BY <1>2, InvariantHolds, PTL DEF Spec, VoidedStays

LEMMA PromiseRow ==
  ASSUME IInv, NEW s \in Sessions, Commit(s), NEW f \in FOs
  PROVE  Promise!Keep(f) \/ Promise!Open(f) \/ Promise!Deliver(f) \/ Promise!GiveBack(f)
<1> DEFINE me == session[s]
<1>1. CASE f \notin me.rows
  <2>1. fo'[f] = fo[f] /\ ledger'[f] = ledger[f]
    BY <1>1, CommittedRows
  <2> QED
    BY <2>1 DEF Promise!Keep, Held
<1>2. CASE f \in me.rows
  <2>1. /\ me.target \in Booked /\ fo'[f].source # None /\ ledger[f] \in LedgerRow
        /\ ledger[f].release = 0
        /\ me.target # "paid" => fo[f].source # None /\ ~fo[f].voided
    BY <1>2, CommittedRow
  <2>2. CASE me.target = "paid"
    <3>1. /\ fo[f].source = None /\ ~fo'[f].voided /\ ledger'[f] = [NoLedger EXCEPT !.lock = 1]
          /\ ledger[f] = NoLedger
      BY <1>2, <2>2, CommittedRow
    <3>2. Held(f)' \in Nat /\ ledger'[f].consume = ledger[f].consume
      BY <3>1 DEF Held, NoLedger
    <3> QED
      BY <2>1, <3>1, <3>2 DEF Promise!Open
  <2>3. CASE me.target = "cancelled"
    <3>1. /\ fo'[f].voided
          /\ ledger'[f] = [ledger[f] EXCEPT !.release = ledger[f].lock - ledger[f].consume]
      BY <1>2, <2>3, CommittedRow
    <3>2. Held(f)' = 0 /\ ledger'[f].consume = ledger[f].consume
      BY <2>1, <3>1 DEF Held, LedgerRow
    <3> QED
      BY <2>1, <2>3, <3>1, <3>2 DEF Promise!GiveBack, Promise!Nothing
  <2>4. CASE me.target = "shipped"
    <3>1. ~fo'[f].voided /\ ledger'[f] = [ledger[f] EXCEPT !.consume = ledger[f].lock]
      BY <1>2, <2>4, CommittedRow
    <3>2. Held(f)' = 0 /\ ledger'[f].consume = ledger[f].consume + Held(f)
      BY <2>1, <3>1 DEF Held, LedgerRow
    <3> QED
      BY <2>1, <2>4, <3>1, <3>2 DEF Promise!Deliver, Promise!Nothing
  <2> QED
    BY <2>1, <2>2, <2>3, <2>4 DEF Booked
<1> QED
  BY <1>1, <1>2

(* However status changes overlap, every commit opens, delivers or gives   *)
(* back factory orders in one piece and only once, and nothing between two *)
(* commits shows.                                                          *)
THEOREM KeepsPromise == ASSUME OnlyMoves PROVE Spec => PartPromiseKept
<1>1. Init => Promise!Init
  BY DEF Init, Promise!Init, Promise!Nothing, NoFO, NoLedger, Held
<1>2. ASSUME IInv, [Next]_vars PROVE [Promise!Next]_(Promise!vars)
  <2>1. CASE \E s \in Sessions : Commit(s)
    BY <1>2, <2>1, PromiseRow DEF Promise!Next
  <2>2. CASE ~ \E s \in Sessions : Commit(s)
    <3>1. UNCHANGED <<fo, ledger>>
      BY <1>2, <2>2, OnlyCommitWrites DEF tables
    <3> QED
      BY <3>1 DEF Promise!vars, Held
  <2> QED
    BY <2>1, <2>2
<1> QED
  BY <1>1, <1>2, InvariantHolds, PTL DEF Spec, PartPromiseKept, Promise!Spec

=============================================================================
