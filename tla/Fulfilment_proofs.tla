------------------------- MODULE Fulfilment_proofs -------------------------
(***************************************************************************)
(* Theorems about module Fulfilment that hold for every set of orders,     *)
(* factory orders, materials and products.  The first part shows what each *)
(* service function does to the tables it writes; the second proves the    *)
(* invariants from those facts.                                            *)
(***************************************************************************)
EXTENDS Fulfilment, FiniteSetTheorems, TLAPS

StockOK ==
    /\ ledger \in [FOs -> [Materials -> LedgerRow]]
    /\ locked \in [Materials -> Nat]
    /\ physical \in [Materials -> Nat]

ProductsOK ==
    /\ moves \subseteq Movement
    /\ stock \in [Products -> Nat]

FOsOK == fo \in [FOs -> FORow]

-----------------------------------------------------------------------------
(* Arithmetic *)

LEMMA FloorNat == ASSUME NEW x PROVE Floor(x) \in Nat
  BY DEF Floor

LEMMA FloorId == ASSUME NEW x \in Int, x >= 0 PROVE Floor(x) = x
  BY DEF Floor

LEMMA RequirementNat ==
  ASSUME NEW p \in Products, NEW q \in Nat
  PROVE  Requirement(p, q) \in [Materials -> Nat]
<1>1. Need[p] \in [Materials -> Nat]
  BY ConstantsAssumption DEF ConstantsAssumption
<1>2. ASSUME NEW m \in Materials PROVE Need[p][m] * q \in Nat
  <2>1. Need[p][m] \in Nat
    BY <1>1
  <2>2. \A a, b \in Nat : a * b \in Nat
    OBVIOUS
  <2> QED BY <2>1, <2>2
<1> QED BY <1>2 DEF Requirement

-----------------------------------------------------------------------------
(* inventory_lock_service *)

LEMMA LedgerUpdate ==
  ASSUME NEW r \in LedgerRow, NEW n \in Nat, NEW kind \in LedgerKinds
  PROVE  /\ WriteLedger(r, kind, n) \in LedgerRow
         /\ WriteLedger(r, kind, n)[kind] = r[kind] + n
         /\ \A k \in LedgerKinds \ {kind} : WriteLedger(r, kind, n)[k] = r[k]
  BY DEF LedgerRow, WriteLedger

(* Locking writes only the ledger rows of its factory order. *)
LEMMA LockRows ==
  ASSUME StockOK, NEW f \in FOs, NEW need \in [Materials -> Nat], Lock(f, need)
  PROVE  /\ StockOK'
         /\ \A g \in FOs \ {f} : ledger'[g] = ledger[g]
         /\ \A m \in Materials, kind \in LedgerKinds :
              ledger'[f][m][kind] =
                IF kind = "lock" THEN ledger[f][m][kind] + need[m] ELSE ledger[f][m][kind]
<1>1. ledger'[f] = [m \in Materials |-> WriteLedger(ledger[f][m], "lock", need[m])]
  BY DEF StockOK, Lock
<1>2. ASSUME NEW m \in Materials
      PROVE  LET row == WriteLedger(ledger[f][m], "lock", need[m])
             IN  /\ row \in LedgerRow
                 /\ row["lock"] = ledger[f][m]["lock"] + need[m]
                 /\ \A k \in LedgerKinds \ {"lock"} : row[k] = ledger[f][m][k]
  <2>1. ledger[f][m] \in LedgerRow /\ need[m] \in Nat /\ "lock" \in LedgerKinds
    BY DEF StockOK, LedgerKinds
  <2> QED BY <2>1, LedgerUpdate
<1>3. ledger'[f] \in [Materials -> LedgerRow]
  BY <1>1, <1>2
<1>4. \A g \in FOs \ {f} : ledger'[g] = ledger[g]
  BY DEF StockOK, Lock
<1>5. StockOK'
  BY <1>3 DEF StockOK, Lock
<1> QED BY <1>1, <1>2, <1>4, <1>5

(* Releasing closes what its factory orders hold and touches no other. *)
LEMMA ReleaseRows ==
  ASSUME StockOK, NEW S \in SUBSET FOs, Release(S)
  PROVE  /\ StockOK'
         /\ \A g \in FOs \ S : ledger'[g] = ledger[g]
         /\ \A f \in S, m \in Materials, kind \in LedgerKinds :
              ledger'[f][m][kind] =
                IF kind = "release" THEN ledger[f][m][kind] + Floor(Held(f, m)) ELSE ledger[f][m][kind]
<1>1. ASSUME NEW f \in S
      PROVE  ledger'[f] = [m \in Materials |-> WriteLedger(ledger[f][m], "release", Floor(Held(f, m)))]
  BY DEF Release
<1>2. ASSUME NEW f \in S, NEW m \in Materials
      PROVE  LET row == WriteLedger(ledger[f][m], "release", Floor(Held(f, m)))
             IN  /\ row \in LedgerRow
                 /\ row["release"] = ledger[f][m]["release"] + Floor(Held(f, m))
                 /\ \A k \in LedgerKinds \ {"release"} : row[k] = ledger[f][m][k]
  <2>1. ledger[f][m] \in LedgerRow
    BY DEF StockOK
  <2>2. Floor(Held(f, m)) \in Nat /\ "release" \in LedgerKinds
    BY FloorNat DEF LedgerKinds
  <2> QED BY <2>1, <2>2, LedgerUpdate
<1>3. ASSUME NEW f \in S PROVE ledger'[f] \in [Materials -> LedgerRow]
  BY <1>1, <1>2
<1>4. \A g \in FOs \ S : ledger'[g] = ledger[g]
  BY DEF Release
<1>5. StockOK'
  <2>1. ledger' \in [FOs -> [Materials -> LedgerRow]]
    BY <1>3, <1>4 DEF StockOK, Release
  <2>2. locked' \in [Materials -> Nat] /\ physical' \in [Materials -> Nat]
    BY FloorNat DEF StockOK, Release
  <2> QED BY <2>1, <2>2 DEF StockOK
<1>6. ASSUME NEW f \in S, NEW m \in Materials, NEW kind \in LedgerKinds
      PROVE  ledger'[f][m][kind] =
               IF kind = "release" THEN ledger[f][m][kind] + Floor(Held(f, m)) ELSE ledger[f][m][kind]
  <2>1. ledger'[f][m] = WriteLedger(ledger[f][m], "release", Floor(Held(f, m)))
    BY <1>1
  <2>2. CASE kind = "release"
    BY <1>2, <2>1, <2>2
  <2>3. CASE kind # "release"
    BY <1>2, <2>1, <2>3
  <2> QED BY <2>2, <2>3
<1> QED BY <1>4, <1>5, <1>6

(* Consuming books what its factory orders have not shipped yet. *)
LEMMA ConsumeRows ==
  ASSUME StockOK, NEW S \in SUBSET FOs, Consume(S)
  PROVE  /\ StockOK'
         /\ \A g \in FOs \ S : ledger'[g] = ledger[g]
         /\ \A f \in S, m \in Materials, kind \in LedgerKinds :
              ledger'[f][m][kind] =
                IF kind = "consume" THEN ledger[f][m][kind] + Floor(Unshipped(f, m)) ELSE ledger[f][m][kind]
<1>1. ASSUME NEW f \in S
      PROVE  ledger'[f] = [m \in Materials |-> WriteLedger(ledger[f][m], "consume", Floor(Unshipped(f, m)))]
  BY DEF Consume
<1>2. ASSUME NEW f \in S, NEW m \in Materials
      PROVE  LET row == WriteLedger(ledger[f][m], "consume", Floor(Unshipped(f, m)))
             IN  /\ row \in LedgerRow
                 /\ row["consume"] = ledger[f][m]["consume"] + Floor(Unshipped(f, m))
                 /\ \A k \in LedgerKinds \ {"consume"} : row[k] = ledger[f][m][k]
  <2>1. ledger[f][m] \in LedgerRow
    BY DEF StockOK
  <2>2. Floor(Unshipped(f, m)) \in Nat /\ "consume" \in LedgerKinds
    BY FloorNat DEF LedgerKinds
  <2> QED BY <2>1, <2>2, LedgerUpdate
<1>3. ASSUME NEW f \in S PROVE ledger'[f] \in [Materials -> LedgerRow]
  BY <1>1, <1>2
<1>4. \A g \in FOs \ S : ledger'[g] = ledger[g]
  BY DEF Consume
<1>5. StockOK'
  <2>1. ledger' \in [FOs -> [Materials -> LedgerRow]]
    BY <1>3, <1>4 DEF StockOK, Consume
  <2>2. locked' \in [Materials -> Nat] /\ physical' \in [Materials -> Nat]
    BY FloorNat DEF StockOK, Consume
  <2> QED BY <2>1, <2>2 DEF StockOK
<1>6. ASSUME NEW f \in S, NEW m \in Materials, NEW kind \in LedgerKinds
      PROVE  ledger'[f][m][kind] =
               IF kind = "consume" THEN ledger[f][m][kind] + Floor(Unshipped(f, m)) ELSE ledger[f][m][kind]
  <2>1. ledger'[f][m] = WriteLedger(ledger[f][m], "consume", Floor(Unshipped(f, m)))
    BY <1>1
  <2>2. CASE kind = "consume"
    BY <1>2, <2>1, <2>2
  <2>3. CASE kind # "consume"
    BY <1>2, <2>1, <2>3
  <2> QED BY <2>2, <2>3
<1> QED BY <1>4, <1>5, <1>6

-----------------------------------------------------------------------------
(* product_stock_ledger_service *)

(* What one request does to the movement table: at most one new movement,  *)
(* of an event that has none, on an entity of E; a reversal mirrors a      *)
(* shipment or a receipt.                                                  *)
MoveStep(E) ==
    \/ moves' = moves
    \/ \E mv \in Movement :
         /\ moves' = moves \cup {mv}
         /\ ~HasMove(mv.reason, mv.entity)
         /\ mv.entity \in E
         /\ mv.reason = "reversal" =>
              \E orig \in moves :
                 /\ orig.reason \in {"ship", "restock_receipt"}
                 /\ orig.entity = mv.entity
                 /\ orig.product = mv.product /\ orig.qty = -mv.qty

LEMMA MoveRow ==
  ASSUME ProductsOK, NEW reason \in Reasons, NEW e \in Orders \cup FOs,
         NEW p \in Products, NEW q \in Int, NEW n \in Nat, Move(reason, e, p, q, n)
  PROVE  /\ ProductsOK'
         /\ \E mv \in Movement :
              /\ moves' = moves \cup {mv}
              /\ mv.reason = reason /\ mv.entity = e /\ mv.product = p /\ mv.qty = q
<1> DEFINE mv == [reason |-> reason, entity |-> e, product |-> p, qty |-> q]
<1>1. mv \in Movement
  BY DEF Movement
<1>2. moves' = moves \cup {mv}
  BY DEF Move
<1>3. stock' \in [Products -> Nat]
  BY DEF Move, ProductsOK
<1>4. mv.reason = reason /\ mv.entity = e /\ mv.product = p /\ mv.qty = q
  OBVIOUS
<1> QED BY <1>1, <1>2, <1>3, <1>4 DEF ProductsOK

LEMMA ShipmentRow ==
  ASSUME ProductsOK, NEW o \in Orders, RecordShipment(o)
  PROVE  ProductsOK' /\ MoveStep({o})
<1>1. CASE UNCHANGED products
  BY <1>1 DEF products, ProductsOK, MoveStep
<1>2. CASE ~UNCHANGED products
  <2> DEFINE p    == ProductOf[o]
             take == Smaller(QtyOf[o], stock[p])
  <2>1. p # None /\ ~HasMove("ship", o) /\ Move("ship", o, p, -take, stock[p] - take)
    BY <1>2 DEF RecordShipment
  <2>2. p \in Products /\ QtyOf[o] \in Nat
    BY <2>1, ConstantsAssumption DEF ConstantsAssumption
  <2>3. stock[p] \in Nat
    BY <2>2 DEF ProductsOK
  <2>4. take \in Nat /\ stock[p] - take \in Nat /\ -take \in Int
    BY <2>2, <2>3 DEF Smaller
  <2> HIDE DEF p, take
  <2>5. /\ ProductsOK'
        /\ \E mv \in Movement : moves' = moves \cup {mv} /\ mv.reason = "ship" /\ mv.entity = o
    BY <2>1, <2>2, <2>4, MoveRow DEF Reasons
  <2> QED BY <2>1, <2>5 DEF MoveStep
<1> QED BY <1>1, <1>2

LEMMA ReceiptRow ==
  ASSUME ProductsOK, FOsOK, NEW f \in FOs, RecordRestockReceipt(f)
  PROVE  ProductsOK' /\ MoveStep({f})
<1>1. CASE UNCHANGED products
  BY <1>1 DEF products, ProductsOK, MoveStep
<1>2. CASE ~UNCHANGED products
  <2> DEFINE p == fo[f].product
  <2>1. /\ p # None /\ ~HasMove("restock_receipt", f)
        /\ Move("restock_receipt", f, p, fo[f].qty, stock[p] + fo[f].qty)
    BY <1>2 DEF RecordRestockReceipt
  <2>2. p \in Products /\ fo[f].qty \in Nat
    BY <2>1 DEF FOsOK, FORow
  <2>3. fo[f].qty \in Int /\ stock[p] + fo[f].qty \in Nat
    BY <2>2 DEF ProductsOK
  <2> HIDE DEF p
  <2>4. /\ ProductsOK'
        /\ \E mv \in Movement :
             moves' = moves \cup {mv} /\ mv.reason = "restock_receipt" /\ mv.entity = f
    BY <2>1, <2>2, <2>3, MoveRow DEF Reasons
  <2> QED BY <2>1, <2>4 DEF MoveStep
<1> QED BY <1>1, <1>2

LEMMA ReverseRow ==
  ASSUME ProductsOK, NEW reason \in {"ship", "restock_receipt"},
         NEW e \in Orders \cup FOs, Reverse(reason, e)
  PROVE  ProductsOK' /\ MoveStep({e})
<1>1. CASE UNCHANGED products
  BY <1>1 DEF products, ProductsOK, MoveStep
<1>2. CASE ~UNCHANGED products
  <2>1. PICK orig \in moves :
          /\ ~HasMove("reversal", e)
          /\ orig.reason = reason /\ orig.entity = e
          /\ Move("reversal", e, orig.product, -orig.qty,
                  Floor(stock[orig.product] - orig.qty))
    BY <1>2 DEF Reverse
  <2>2. orig.product \in Products /\ -orig.qty \in Int
    BY DEF ProductsOK, Movement
  <2>3. Floor(stock[orig.product] - orig.qty) \in Nat
    BY FloorNat
  <2>4. /\ ProductsOK'
        /\ \E mv \in Movement :
             /\ moves' = moves \cup {mv} /\ mv.reason = "reversal" /\ mv.entity = e
             /\ mv.product = orig.product /\ mv.qty = -orig.qty
    BY <2>1, <2>2, <2>3, MoveRow DEF Reasons
  <2>5. PICK mv \in Movement :
             /\ moves' = moves \cup {mv} /\ mv.reason = "reversal" /\ mv.entity = e
             /\ mv.product = orig.product /\ mv.qty = -orig.qty
    BY <2>4
  <2>6. orig.qty = -mv.qty
    BY <2>5 DEF ProductsOK, Movement
  <2> QED BY <2>1, <2>4, <2>5, <2>6 DEF MoveStep
<1> QED BY <1>1, <1>2

-----------------------------------------------------------------------------
(* Factory orders.  The life of a row: created for an order of O or as a   *)
(* restock order; voided, which releases; shipped with its order of O,     *)
(* which consumes; noted as delivered, by a workbook or into stock.        *)

SameLedger(f, kinds) ==
    \A m \in Materials, kind \in kinds : ledger'[f][m][kind] = ledger[f][m][kind]

Kept(f) == fo'[f] = fo[f] /\ ledger'[f] = ledger[f]

Created(f, O) ==
    /\ ~fo[f].present
    /\ fo'[f].present /\ ~fo'[f].voided
    /\ fo'[f].source \in Orders => fo'[f].source \in O /\ Active(fo'[f].source) = {}
    /\ SameLedger(f, {"release", "consume"})

Voided(f) ==
    /\ fo[f].present /\ ~fo[f].voided
    /\ fo'[f] = [fo[f] EXCEPT !.voided = TRUE]
    /\ SameLedger(f, {"lock", "consume"})
    /\ \A m \in Materials :
         ledger'[f][m]["release"] = ledger[f][m]["release"] + Floor(Held(f, m))

Shipped(f, O) ==
    /\ fo[f].present /\ ~fo[f].voided /\ fo[f].source \in O
    /\ fo'[f] = [fo[f] EXCEPT !.delivered = TRUE]
    /\ SameLedger(f, {"lock", "release"})
    /\ \A m \in Materials :
         ledger'[f][m]["consume"] = ledger[f][m]["consume"] + Floor(Unshipped(f, m))

Noted(f) ==
    /\ fo[f].present /\ fo'[f].present
    /\ fo'[f].voided = fo[f].voided /\ fo'[f].source = fo[f].source
    /\ ledger'[f] = ledger[f]

RowStep(f, O) == Kept(f) \/ Created(f, O) \/ Voided(f) \/ Shipped(f, O) \/ Noted(f)

(* No two rows are created for one order in one request. *)
OneEachCreated ==
    \A f, g \in FOs :
        /\ ~fo[f].present /\ fo'[f].present /\ ~fo[g].present /\ fo'[g].present
        /\ fo'[f].source = fo'[g].source /\ fo'[f].source # None
        => f = g

(* The footprint of a request that works for the orders O. *)
Footprint(E, O) ==
    /\ FOsOK' /\ StockOK' /\ ProductsOK'
    /\ \A f \in FOs : RowStep(f, O)
    /\ OneEachCreated
    /\ MoveStep(E)

TablesOK == FOsOK /\ StockOK /\ ProductsOK

LEMMA NewRow ==
  ASSUME NEW o \in Orders
  PROVE  /\ FOFor(o) \in FORow
         /\ FOFor(o).present /\ ~FOFor(o).voided /\ ~FOFor(o).delivered
         /\ FOFor(o).source = o /\ FOFor(o).qty = QtyOf[o] /\ FOFor(o).product = ProductOf[o]
<1>1. ProductOf[o] \in Products \cup {None} /\ QtyOf[o] \in Nat
  BY ConstantsAssumption DEF ConstantsAssumption
<1> QED BY <1>1 DEF FOFor, FORow

LEMMA VoidedRow ==
  ASSUME NEW r \in FORow
  PROVE  /\ [r EXCEPT !.voided = TRUE] \in FORow
         /\ [r EXCEPT !.voided = TRUE].present = r.present
         /\ [r EXCEPT !.voided = TRUE].voided
         /\ [r EXCEPT !.voided = TRUE].source = r.source
         /\ [r EXCEPT !.voided = TRUE].delivered = r.delivered
  BY DEF FORow

LEMMA DeliveredRow ==
  ASSUME NEW r \in FORow
  PROVE  /\ [r EXCEPT !.delivered = TRUE] \in FORow
         /\ [r EXCEPT !.delivered = TRUE].present = r.present
         /\ [r EXCEPT !.delivered = TRUE].voided = r.voided
         /\ [r EXCEPT !.delivered = TRUE].source = r.source
         /\ [r EXCEPT !.delivered = TRUE].delivered
  BY DEF FORow

LEMMA NothingHappens ==
  ASSUME TablesOK, UNCHANGED <<fo, parts, products>>, NEW E, NEW O
  PROVE  Footprint(E, O)
<1>1. /\ fo' = fo /\ ledger' = ledger /\ locked' = locked /\ physical' = physical
      /\ moves' = moves /\ stock' = stock
  BY DEF parts, products
<1>2. FOsOK' /\ StockOK' /\ ProductsOK'
  BY <1>1 DEF TablesOK, FOsOK, StockOK, ProductsOK
<1> QED BY <1>1, <1>2 DEF Footprint, RowStep, Kept, OneEachCreated, MoveStep

(* generate_factory_order_for on an order without a factory order. *)
LEMMA GenerateRow ==
  ASSUME TablesOK, UNCHANGED products, NEW o \in Orders, Linked(o) = {},
         NEW f \in Unused, fo' = [fo EXCEPT ![f] = FOFor(o)],
         \/ UNCHANGED parts
         \/ ProductOf[o] # None /\ Lock(f, Requirement(ProductOf[o], QtyOf[o])),
         NEW E
  PROVE  Footprint(E, {o})
<1>1. f \in FOs /\ ~fo[f].present
  BY DEF Unused
<1>2. fo'[f] = FOFor(o) /\ \A g \in FOs \ {f} : fo'[g] = fo[g]
  BY <1>1 DEF TablesOK, FOsOK
<1>3. FOsOK'
  BY <1>1, NewRow DEF TablesOK, FOsOK
<1>4. ProductsOK' /\ MoveStep(E)
  BY DEF TablesOK, ProductsOK, products, MoveStep
<1>5. StockOK' /\ SameLedger(f, {"release", "consume"})
      /\ \A g \in FOs \ {f} : ledger'[g] = ledger[g]
  <2>1. CASE UNCHANGED parts
    BY <2>1, <1>1 DEF parts, TablesOK, StockOK, SameLedger
  <2>2. CASE ProductOf[o] # None /\ Lock(f, Requirement(ProductOf[o], QtyOf[o]))
    <3>1. ProductOf[o] \in Products /\ QtyOf[o] \in Nat
      BY <2>2, ConstantsAssumption DEF ConstantsAssumption
    <3>2. Requirement(ProductOf[o], QtyOf[o]) \in [Materials -> Nat]
      BY <3>1, RequirementNat
    <3> QED BY <1>1, <2>2, <3>2, LockRows DEF TablesOK, SameLedger, LedgerKinds
  <2> QED BY <2>1, <2>2
<1>6. Active(o) = {}
  BY DEF Active
<1>7. Created(f, {o})
  BY <1>1, <1>2, <1>5, <1>6, NewRow DEF Created
<1>8. \A g \in FOs : RowStep(g, {o})
  BY <1>2, <1>5, <1>7 DEF RowStep, Kept
<1>9. OneEachCreated
  BY <1>2 DEF OneEachCreated
<1> QED BY <1>3, <1>4, <1>5, <1>8, <1>9 DEF Footprint

LEMMA CancelRows ==
  ASSUME TablesOK, NEW o \in Orders, NEW flags, CancelFactoryOrders(o, flags)
  PROVE  Footprint({o}, {o})
<1>1. Active(o) \in SUBSET FOs
  BY DEF Active, Linked
<1>2. FOsOK'
  BY VoidedRow DEF TablesOK, FOsOK, CancelFactoryOrders
<1>3. StockOK' /\ \A g \in FOs \ Active(o) : ledger'[g] = ledger[g]
  BY <1>1, ReleaseRows DEF TablesOK, CancelFactoryOrders
<1>4. ProductsOK' /\ MoveStep({o})
  <2>1. CASE order[o].status = "shipped"
    BY <2>1, ReverseRow DEF TablesOK, CancelFactoryOrders
  <2>2. CASE order[o].status # "shipped"
    BY <2>2 DEF TablesOK, ProductsOK, CancelFactoryOrders, products, MoveStep
  <2> QED BY <2>1, <2>2
<1>5. ASSUME NEW f \in Active(o) PROVE Voided(f)
  <2>1. f \in FOs /\ fo[f].present /\ ~fo[f].voided
    BY DEF Active, Linked
  <2>2. fo'[f] = [fo[f] EXCEPT !.voided = TRUE]
    BY <2>1 DEF CancelFactoryOrders
  <2>3. \A m \in Materials, kind \in LedgerKinds :
          ledger'[f][m][kind] =
            IF kind = "release" THEN ledger[f][m][kind] + Floor(Held(f, m))
                                ELSE ledger[f][m][kind]
    BY <1>1, ReleaseRows DEF TablesOK, CancelFactoryOrders
  <2> QED BY <2>1, <2>2, <2>3 DEF Voided, SameLedger, LedgerKinds
<1>6. ASSUME NEW f \in FOs \ Active(o) PROVE Kept(f)
  BY <1>3 DEF CancelFactoryOrders, Kept
<1>7. OneEachCreated
  <2>1. \A f \in FOs : fo'[f].present = fo[f].present
    BY VoidedRow DEF TablesOK, FOsOK, CancelFactoryOrders
  <2> QED BY <2>1 DEF OneEachCreated
<1> QED BY <1>2, <1>3, <1>4, <1>5, <1>6, <1>7 DEF Footprint, RowStep

LEMMA ShipRows ==
  ASSUME TablesOK, NEW o \in Orders, NEW flags, ShipFactoryOrders(o, flags)
  PROVE  Footprint({o}, {o})
<1>1. Undelivered(o) \in SUBSET FOs
  BY DEF Undelivered, Active, Linked
<1>2. FOsOK'
  BY DeliveredRow DEF TablesOK, FOsOK, ShipFactoryOrders
<1>3. StockOK' /\ \A g \in FOs \ Undelivered(o) : ledger'[g] = ledger[g]
  BY <1>1, ConsumeRows DEF TablesOK, ShipFactoryOrders
<1>4. ProductsOK' /\ MoveStep({o})
  BY ShipmentRow DEF TablesOK, ShipFactoryOrders
<1>5. ASSUME NEW f \in Undelivered(o) PROVE Shipped(f, {o})
  <2>1. f \in FOs /\ fo[f].present /\ ~fo[f].voided /\ fo[f].source = o
    BY DEF Undelivered, Active, Linked
  <2>2. fo'[f] = [fo[f] EXCEPT !.delivered = TRUE]
    BY <2>1 DEF ShipFactoryOrders
  <2>3. \A m \in Materials, kind \in LedgerKinds :
          ledger'[f][m][kind] =
            IF kind = "consume" THEN ledger[f][m][kind] + Floor(Unshipped(f, m))
                                ELSE ledger[f][m][kind]
    BY <1>1, ConsumeRows DEF TablesOK, ShipFactoryOrders
  <2> QED BY <2>1, <2>2, <2>3 DEF Shipped, SameLedger, LedgerKinds
<1>6. ASSUME NEW f \in FOs \ Undelivered(o) PROVE Kept(f)
  BY <1>3 DEF ShipFactoryOrders, Kept
<1>7. OneEachCreated
  <2>1. \A f \in FOs : fo'[f].present = fo[f].present
    BY DeliveredRow DEF TablesOK, FOsOK, ShipFactoryOrders
  <2> QED BY <2>1 DEF OneEachCreated
<1> QED BY <1>2, <1>3, <1>4, <1>5, <1>6, <1>7 DEF Footprint, RowStep

LEMMA PaymentRows ==
  ASSUME TablesOK, NEW o \in Orders, NEW flags \in SUBSET Exceptions,
         FactoryOrderOnPayment(o, flags)
  PROVE  Footprint({o}, {o}) /\ raised' \subseteq Exceptions
<1>1. raised' \subseteq Exceptions
  BY DEF FactoryOrderOnPayment, Exceptions
<1>2. CASE UNCHANGED <<fo, parts>>
  <2>1. UNCHANGED <<fo, parts, products>>
    BY <1>2 DEF FactoryOrderOnPayment
  <2> QED BY <1>1, <2>1, NothingHappens
<1>3. CASE ~UNCHANGED <<fo, parts>>
  <2>1. Linked(o) = {} /\ UNCHANGED products
    BY <1>3 DEF FactoryOrderOnPayment
  <2>2. PICK f \in Unused :
          /\ fo' = [fo EXCEPT ![f] = FOFor(o)]
          /\ \/ UNCHANGED parts
             \/ ProductOf[o] # None /\ Lock(f, Requirement(ProductOf[o], QtyOf[o]))
    BY <1>3 DEF FactoryOrderOnPayment
  <2> QED BY <1>1, <2>1, <2>2, GenerateRow
<1> QED BY <1>2, <1>3

(* A status change works for its own order, and for none if that order is  *)
(* historical.                                                             *)
Concerned(o) == IF order[o].historical THEN {} ELSE {o}

LEMMA SideEffectRows ==
  ASSUME TablesOK, NEW o \in Orders, NEW target, NEW flags \in SUBSET Exceptions,
         SideEffect(o, target, flags)
  PROVE  Footprint(Concerned(o), Concerned(o)) /\ raised' \subseteq Exceptions
<1>1. CASE NoEffect(flags)
  BY <1>1, NothingHappens DEF NoEffect
<1>2. CASE ~order[o].historical /\ FactoryOrderOnPayment(o, flags)
  BY <1>2, PaymentRows DEF Concerned
<1>3. CASE ~order[o].historical /\ CancelFactoryOrders(o, flags)
  BY <1>3, CancelRows DEF Concerned, CancelFactoryOrders
<1>4. CASE ~order[o].historical /\ ShipFactoryOrders(o, flags)
  BY <1>4, ShipRows DEF Concerned, ShipFactoryOrders
<1> QED BY <1>1, <1>2, <1>3, <1>4 DEF SideEffect

-----------------------------------------------------------------------------
(* Order rows *)

OrdersOK == order \in [Orders -> OrderRow]

(* What a request does, and that it works for no order that it leaves      *)
(* historical.                                                             *)
GoodStep ==
    /\ OrdersOK'
    /\ raised' \subseteq Exceptions
    /\ \E E \in SUBSET (Orders \cup FOs), O \in SUBSET Orders :
         /\ Footprint(E, O)
         /\ \A o \in Orders : order'[o].historical => o \notin E /\ o \notin O

LEMMA TypeOKParts == TypeOK <=> TablesOK /\ OrdersOK /\ raised \subseteq Exceptions
  BY DEF TypeOK, TablesOK, OrdersOK, FOsOK, StockOK, ProductsOK

LEMMA StatusRow ==
  ASSUME NEW r \in OrderRow, NEW s \in Statuses
  PROVE  /\ [r EXCEPT !.status = s] \in OrderRow
         /\ [r EXCEPT !.status = s].status = s
         /\ [r EXCEPT !.status = s].historical = r.historical
         /\ s # "absent"
  BY DEF OrderRow, Statuses

LEMMA NewOrderRow ==
  ASSUME NEW s \in Statuses, NEW h \in BOOLEAN, NEW a \in {"none", "waiting"}
  PROVE  /\ NewOrder(s, h, a) \in OrderRow
         /\ NewOrder(s, h, a).status = s
         /\ NewOrder(s, h, a).historical = h
         /\ s # "absent"
  BY DEF NewOrder, OrderRow, Statuses

(* A request that writes order rows only. *)
LEMMA QuietStep ==
  ASSUME TablesOK, OrdersOK', NoEffect({})
  PROVE  GoodStep
<1>1. Footprint({}, {}) /\ raised' \subseteq Exceptions
  BY NothingHappens DEF NoEffect
<1> QED BY <1>1 DEF GoodStep

LEMMA TransitionStep ==
  ASSUME TypeOK, NEW o \in Orders, NEW target \in Statuses,
         NEW rows \in [Orders -> OrderRow], rows[o].historical = order[o].historical,
         NEW forced, NEW quiet, Transition(o, target, rows, forced, quiet)
  PROVE  GoodStep
<1> DEFINE flags == IF target \in Transitions[order[o].status] \/ quiet
                      THEN {} ELSE {"forced_status_transition"}
<1>1. flags \in SUBSET Exceptions
  BY DEF Exceptions
<1>2. SideEffect(o, target, flags) /\ order' = [rows EXCEPT ![o].status = target]
  BY DEF Transition
<1> HIDE DEF flags
<1>3. order'[o] = [rows[o] EXCEPT !.status = target]
  BY <1>2
<1>4. OrdersOK'
  BY <1>2, <1>3, StatusRow DEF OrdersOK
<1>5. Footprint(Concerned(o), Concerned(o)) /\ raised' \subseteq Exceptions
  BY <1>1, <1>2, SideEffectRows, TypeOKParts
<1>6. order'[o].historical = order[o].historical
  BY <1>3, StatusRow
<1>7. \A x \in Orders : order'[x].historical => x \notin Concerned(o)
  BY <1>6 DEF Concerned
<1>8. Concerned(o) \in SUBSET Orders
  BY DEF Concerned
<1> QED BY <1>4, <1>5, <1>7, <1>8 DEF GoodStep

-----------------------------------------------------------------------------
(* Every request is a good step. *)

LEMMA CreateOrderStep ==
  ASSUME TypeOK, NEW o \in Orders, CreateOrder(o)
  PROVE  GoodStep
<1>1. order' = [order EXCEPT ![o] = NewOrder("pending_payment", FALSE, "none")]
  BY DEF CreateOrder
<1>2. OrdersOK'
  BY <1>1, NewOrderRow, TypeOKParts DEF OrdersOK, Statuses
<1> QED BY <1>2, QuietStep, TypeOKParts DEF CreateOrder

LEMMA ChangeStatusStep ==
  ASSUME TypeOK, NEW o \in Orders, NEW target \in Statuses, NEW quiet \in BOOLEAN,
         ChangeStatus(o, target, quiet)
  PROVE  GoodStep
<1>1. order \in [Orders -> OrderRow]
  BY DEF TypeOK
<1> QED BY <1>1, TransitionStep DEF ChangeStatus

LEMMA CancelToFutureStep ==
  ASSUME TypeOK, NEW o \in Orders, NEW n \in Orders, NEW quiet \in BOOLEAN,
         CancelToFuture(o, n, quiet)
  PROVE  GoodStep
<1> DEFINE rows == [order EXCEPT ![n] = NewOrder("pending_payment", FALSE, "waiting")]
<1>1. Exists(o) /\ ~Exists(n) /\ n # o
  BY DEF CancelToFuture
<1>2. NewOrder("pending_payment", FALSE, "waiting") \in OrderRow
  BY NewOrderRow DEF Statuses
<1>3. rows \in [Orders -> OrderRow]
  BY <1>2, TypeOKParts DEF OrdersOK
<1>4. rows[o] = order[o]
  BY <1>1, TypeOKParts DEF OrdersOK
<1>5. CASE Transition(o, "cancelled", rows, o \in Forced, quiet)
  <2>1. "cancelled" \in Statuses
    BY DEF Statuses
  <2> HIDE DEF rows
  <2> QED BY <1>3, <1>4, <1>5, <2>1, TransitionStep
<1>6. CASE order' = rows /\ NoEffect({})
  BY <1>3, <1>6, QuietStep, TypeOKParts DEF OrdersOK
<1> QED BY <1>5, <1>6 DEF CancelToFuture

LEMMA SignOffStep ==
  ASSUME TypeOK, NEW o \in Orders, NEW row \in OrderRow,
         row.historical = order[o].historical, SignOff(o, row)
  PROVE  GoodStep
<1> DEFINE rows == [order EXCEPT ![o] = row]
<1>1. rows \in [Orders -> OrderRow] /\ rows[o] = row
  BY TypeOKParts DEF OrdersOK
<1>2. CASE Transition(o, "signed", rows, FALSE, FALSE)
  <2>1. "signed" \in Statuses
    BY DEF Statuses
  <2> HIDE DEF rows
  <2> QED BY <1>1, <1>2, <2>1, TransitionStep
<1>3. CASE order' = rows /\ NoEffect({})
  BY <1>1, <1>3, QuietStep, TypeOKParts DEF OrdersOK
<1> QED BY <1>2, <1>3 DEF SignOff

LEMMA ConfirmStep ==
  ASSUME TypeOK, NEW o \in Orders, ConfirmTracking(o) \/ ConfirmManual(o)
  PROVE  GoodStep
<1>1. order[o] \in OrderRow
  BY TypeOKParts DEF OrdersOK
<1>2. /\ [order[o] EXCEPT !.tracking = TRUE] \in OrderRow
      /\ [order[o] EXCEPT !.tracking = TRUE].historical = order[o].historical
  BY <1>1 DEF OrderRow
<1>3. /\ [order[o] EXCEPT !.manual = TRUE] \in OrderRow
      /\ [order[o] EXCEPT !.manual = TRUE].historical = order[o].historical
  BY <1>1 DEF OrderRow
<1> QED BY <1>2, <1>3, SignOffStep DEF ConfirmTracking, ConfirmManual

LEMMA ImportStep ==
  ASSUME TypeOK, NEW o \in Orders, NEW s \in Statuses,
         ImportOrder(o, s) \/ ImportHistory(o, s)
  PROVE  GoodStep
<1>1. PICK h \in BOOLEAN :
        /\ order' = [order EXCEPT ![o] =
                       IF Exists(o) THEN [order[o] EXCEPT !.status = s, !.historical = h]
                                    ELSE NewOrder(s, h, "none")]
        /\ NoEffect({})
  BY DEF ImportOrder, ImportHistory
<1>2. /\ [order[o] EXCEPT !.status = s, !.historical = h] \in OrderRow
      /\ NewOrder(s, h, "none") \in OrderRow
  <2>1. order[o] \in OrderRow /\ s \in Statuses \cup {"absent"}
    BY TypeOKParts DEF OrdersOK
  <2>2. [order[o] EXCEPT !.status = s, !.historical = h] \in OrderRow
    BY <2>1 DEF OrderRow
  <2> QED BY <2>2, NewOrderRow
<1>3. OrdersOK'
  BY <1>1, <1>2, TypeOKParts DEF OrdersOK
<1> QED BY <1>1, <1>3, QuietStep, TypeOKParts

LEMMA BaselineStep ==
  ASSUME TypeOK, NEW older \in SUBSET Imported, SetBaseline(older)
  PROVE  GoodStep
<1>1. \A o \in Orders : order[o] \in OrderRow
  BY TypeOKParts DEF OrdersOK
<1>2. OrdersOK'
  BY <1>1 DEF SetBaseline, OrdersOK, OrderRow
<1> QED BY <1>2, QuietStep, TypeOKParts DEF SetBaseline

(* A request that rewrites the row of one order and nothing else. *)
LEMMA RowRewrite ==
  ASSUME TypeOK, NEW o \in Orders, NEW r \in OrderRow,
         order' = [order EXCEPT ![o] = r], NoEffect({})
  PROVE  GoodStep
<1>1. OrdersOK'
  BY TypeOKParts DEF OrdersOK
<1> QED BY <1>1, QuietStep, TypeOKParts

LEMMA StatusWriteStep ==
  ASSUME TypeOK, NEW o \in Orders, NEW s \in Statuses,
         \/ ImportStatus(o, s)
         \/ s = "shipped" /\ ParcelMoving(o)
         \/ s = "aftersales" /\ CreateReturn(o)
  PROVE  GoodStep
<1>1. order[o] \in OrderRow
  BY TypeOKParts DEF OrdersOK
<1>2. order' = [order EXCEPT ![o] = [order[o] EXCEPT !.status = s]] /\ NoEffect({})
  BY TypeOKParts DEF OrdersOK, ImportStatus, ParcelMoving, CreateReturn
<1> QED BY <1>1, <1>2, StatusRow, RowRewrite

LEMMA ParcelSignedStep ==
  ASSUME TypeOK, NEW o \in Orders, ParcelSigned(o)
  PROVE  GoodStep
<1> DEFINE s == IF order[o].status \in {"paid", "shipped"} THEN "signed" ELSE order[o].status
           r == [order[o] EXCEPT !.status = s, !.tracking = TRUE]
<1>1. order[o] \in OrderRow
  BY TypeOKParts DEF OrdersOK
<1>2. s \in Statuses \cup {"absent"}
  BY <1>1 DEF OrderRow, Statuses
<1>3. order' = [order EXCEPT ![o] = r]
  BY <1>1, TypeOKParts DEF ParcelSigned, OrdersOK, OrderRow
<1> HIDE DEF s
<1>4. r \in OrderRow
  BY <1>1, <1>2 DEF OrderRow
<1> HIDE DEF r
<1> QED BY <1>3, <1>4, RowRewrite DEF ParcelSigned

LEMMA FallsDueStep ==
  ASSUME TypeOK, NEW o \in Orders, FallsDue(o)
  PROVE  GoodStep
<1> DEFINE r == [order[o] EXCEPT !.activate = "due"]
<1>1. r \in OrderRow
  BY TypeOKParts DEF OrdersOK, OrderRow
<1>2. order' = [order EXCEPT ![o] = r] /\ NoEffect({})
  BY TypeOKParts DEF FallsDue, OrdersOK
<1> HIDE DEF r
<1> QED BY <1>1, <1>2, RowRewrite

LEMMA ActivateStep ==
  ASSUME TypeOK, NEW o \in Orders, ActivateFutureOrder(o)
  PROVE  GoodStep
<1> DEFINE r    == [order[o] EXCEPT !.activate = "none"]
           rows == [order EXCEPT ![o] = r]
<1>1. r \in OrderRow /\ r.historical = order[o].historical
  BY TypeOKParts DEF OrdersOK, OrderRow
<1>2. "paid" \in Statuses
  BY DEF Statuses
<1>3. Transition(o, "paid", rows, FALSE, FALSE)
  BY TypeOKParts DEF ActivateFutureOrder, OrdersOK
<1> HIDE DEF r
<1>4. rows \in [Orders -> OrderRow] /\ rows[o] = r
  BY <1>1, TypeOKParts DEF OrdersOK
<1> HIDE DEF rows
<1> QED BY <1>1, <1>2, <1>3, <1>4, TransitionStep

(* Requests that write no order row. *)
LEMMA FactoryStep ==
  ASSUME TypeOK, UNCHANGED order, raised' = {},
         NEW E \in SUBSET (Orders \cup FOs), NEW O \in SUBSET Orders, Footprint(E, O),
         \A o \in Orders : order[o].historical => o \notin E /\ o \notin O
  PROVE  GoodStep
<1>1. OrdersOK'
  BY TypeOKParts DEF OrdersOK
<1> QED BY <1>1 DEF GoodStep

LEMMA GenerateStep ==
  ASSUME TypeOK, NEW o \in Orders, GenerateFactoryOrder(o)
  PROVE  GoodStep
<1>1. PICK f \in Unused : /\ fo' = [fo EXCEPT ![f] = FOFor(o)]
                          /\ Lock(f, Requirement(ProductOf[o], QtyOf[o]))
  BY DEF GenerateFactoryOrder
<1>2. Footprint({}, {o})
  BY <1>1, GenerateRow, TypeOKParts DEF GenerateFactoryOrder
<1>3. ~order[o].historical /\ {o} \in SUBSET Orders /\ {} \in SUBSET (Orders \cup FOs)
  BY DEF GenerateFactoryOrder
<1> QED BY <1>2, <1>3, FactoryStep DEF GenerateFactoryOrder

LEMMA VoidStep ==
  ASSUME TypeOK, NEW f \in FOs, VoidFactoryOrder(f)
  PROVE  GoodStep
<1>1. /\ fo[f].present /\ ~fo[f].voided
      /\ fo' = [fo EXCEPT ![f] = [fo[f] EXCEPT !.voided = TRUE]]
      /\ Release({f}) /\ Reverse("restock_receipt", f)
  BY TypeOKParts DEF VoidFactoryOrder, TablesOK, FOsOK
<1>2. TablesOK
  BY TypeOKParts
<1>3. FOsOK' /\ fo'[f].present = fo[f].present /\ \A g \in FOs \ {f} : fo'[g] = fo[g]
  BY <1>1, <1>2, VoidedRow DEF TablesOK, FOsOK
<1>4. /\ StockOK' /\ \A g \in FOs \ {f} : ledger'[g] = ledger[g]
      /\ \A m \in Materials, kind \in LedgerKinds :
           ledger'[f][m][kind] =
             IF kind = "release" THEN ledger[f][m][kind] + Floor(Held(f, m))
                                 ELSE ledger[f][m][kind]
  <2>1. {f} \in SUBSET FOs
    OBVIOUS
  <2> QED BY <1>1, <1>2, <2>1, ReleaseRows DEF TablesOK
<1>5. ProductsOK' /\ MoveStep({f})
  BY <1>1, <1>2, ReverseRow DEF TablesOK
<1>6. Voided(f)
  BY <1>1, <1>2, <1>4 DEF Voided, SameLedger, LedgerKinds, TablesOK, FOsOK
<1>7. Footprint({f}, {})
  BY <1>3, <1>4, <1>5, <1>6 DEF Footprint, RowStep, Kept, OneEachCreated
<1>8. {f} \in SUBSET (Orders \cup FOs) /\ \A o \in Orders : o # f
  BY ConstantsAssumption DEF ConstantsAssumption
<1> QED BY <1>7, <1>8, FactoryStep DEF VoidFactoryOrder

LEMMA ReceiveStep ==
  ASSUME TypeOK, NEW f \in FOs, ReceiveRestock(f)
  PROVE  GoodStep
<1>1. /\ fo[f].present /\ ~fo[f].voided /\ fo[f].source = None
      /\ fo' = [fo EXCEPT ![f] = [fo[f] EXCEPT !.delivered = TRUE]]
      /\ RecordRestockReceipt(f) /\ UNCHANGED parts
  BY TypeOKParts DEF ReceiveRestock, TablesOK, FOsOK
<1>2. TablesOK
  BY TypeOKParts
<1>3. FOsOK' /\ fo'[f].present = fo[f].present /\ \A g \in FOs \ {f} : fo'[g] = fo[g]
  BY <1>1, <1>2, DeliveredRow DEF TablesOK, FOsOK
<1>4. StockOK' /\ ledger' = ledger
  BY <1>1, <1>2 DEF TablesOK, StockOK, parts
<1>5. ProductsOK' /\ MoveStep({f})
  BY <1>1, <1>2, ReceiptRow DEF TablesOK
<1>6. Noted(f)
  BY <1>1, <1>2, <1>4, DeliveredRow DEF Noted, TablesOK, FOsOK
<1>7. Footprint({f}, {})
  BY <1>3, <1>4, <1>5, <1>6 DEF Footprint, RowStep, Kept, OneEachCreated
<1>8. {f} \in SUBSET (Orders \cup FOs) /\ \A o \in Orders : o # f
  BY ConstantsAssumption DEF ConstantsAssumption
<1> QED BY <1>7, <1>8, FactoryStep DEF ReceiveRestock

LEMMA UpdateFactoryOrderStep ==
  ASSUME TypeOK, NEW f \in FOs, NEW names \in BookNames, NEW p \in Products,
         NEW q \in RestockQty, NEW dated \in BOOLEAN,
         UpdateFactoryOrder(f, names, p, q, dated)
  PROVE  GoodStep
<1> DEFINE n == IF names = None THEN fo[f].names ELSE names
           d == fo[f].delivered \/ dated
           r == [fo[f] EXCEPT !.names = n, !.product = p, !.qty = q, !.delivered = d]
<1>1. fo[f] \in FORow /\ n \in Orders \cup {None} /\ q \in Nat /\ d \in BOOLEAN
  BY TypeOKParts, ConstantsAssumption DEF TablesOK, FOsOK, FORow, ConstantsAssumption
<1>2. fo' = [fo EXCEPT ![f] = r]
  BY Zenon DEF UpdateFactoryOrder
<1> HIDE DEF n, d
<1>3. r \in FORow /\ r.present = fo[f].present /\ r.voided = fo[f].voided
      /\ r.source = fo[f].source
  BY <1>1 DEF FORow
<1> HIDE DEF r
<1>4. TablesOK /\ fo[f].present /\ UNCHANGED <<order, parts, products>> /\ raised' = {}
  BY TypeOKParts DEF UpdateFactoryOrder
<1>5. FOsOK' /\ fo'[f] = r /\ \A g \in FOs \ {f} : fo'[g] = fo[g]
  BY <1>2, <1>3, <1>4 DEF TablesOK, FOsOK
<1>6. StockOK' /\ ProductsOK' /\ ledger' = ledger /\ moves' = moves
  BY <1>4 DEF TablesOK, StockOK, ProductsOK, parts, products
<1>7. Noted(f)
  BY <1>3, <1>4, <1>5, <1>6 DEF Noted
<1>8. Footprint({}, {})
  BY <1>3, <1>4, <1>5, <1>6, <1>7 DEF Footprint, RowStep, Kept, OneEachCreated, MoveStep
<1> QED BY <1>4, <1>8, FactoryStep

LEMMA ImportFactoryOrderStep ==
  ASSUME TypeOK, NEW f \in FOs, NEW names \in BookNames, NEW p \in Products,
         NEW q \in RestockQty, NEW dated \in BOOLEAN,
         ImportFactoryOrder(f, names, p, q, dated)
  PROVE  GoodStep
<1> DEFINE r == [NoFO EXCEPT !.present = TRUE, !.names = names, !.product = p, !.qty = q,
                             !.delivered = dated]
<1>1. q \in Nat /\ names \in Orders \cup {None}
  BY ConstantsAssumption DEF ConstantsAssumption
<1>2. /\ r \in FORow /\ r.present /\ ~r.voided /\ r.source = None
  BY <1>1 DEF NoFO, FORow
<1>3. /\ ~fo[f].present /\ fo' = [fo EXCEPT ![f] = r] /\ UNCHANGED <<parts, products>>
  BY DEF ImportFactoryOrder, Unused
<1> HIDE DEF r
<1>4. TablesOK
  BY TypeOKParts
<1>5. FOsOK' /\ fo'[f] = r /\ \A g \in FOs \ {f} : fo'[g] = fo[g]
  BY <1>2, <1>3, <1>4 DEF TablesOK, FOsOK
<1>6. StockOK' /\ ProductsOK' /\ ledger' = ledger /\ moves' = moves
  BY <1>3, <1>4 DEF TablesOK, StockOK, ProductsOK, parts, products
<1>7. Created(f, {})
  BY <1>2, <1>3, <1>5, <1>6, ConstantsAssumption
     DEF Created, SameLedger, ConstantsAssumption
<1>8. OneEachCreated
  BY <1>2, <1>5 DEF OneEachCreated
<1>9. Footprint({}, {})
  BY <1>5, <1>6, <1>7, <1>8 DEF Footprint, RowStep, Kept, MoveStep
<1> QED BY <1>9, FactoryStep DEF ImportFactoryOrder

LEMMA SyncStep ==
  ASSUME TypeOK, SyncFromOrders
  PROVE  GoodStep
<1>1. PICK row \in [Uncovered -> Unused] :
        /\ \A o1, o2 \in Uncovered : row[o1] = row[o2] => o1 = o2
        /\ fo' = [f \in FOs |->
                    IF \E o \in Uncovered : row[o] = f
                      THEN FOFor(CHOOSE o \in Uncovered : row[o] = f) ELSE fo[f]]
  BY DEF SyncFromOrders
<1>2. TablesOK /\ UNCHANGED <<order, parts, products>> /\ raised' = {}
  BY TypeOKParts DEF SyncFromOrders
<1>3. StockOK' /\ ProductsOK' /\ ledger' = ledger /\ moves' = moves
  BY <1>2 DEF TablesOK, StockOK, ProductsOK, parts, products
<1>4. Uncovered \in SUBSET Orders
  BY DEF Uncovered
<1>5. ASSUME NEW f \in FOs, \E o \in Uncovered : row[o] = f
      PROVE  /\ ~fo[f].present
             /\ \E o \in Uncovered : row[o] = f /\ fo'[f] = FOFor(o)
  <2>1. f \in Unused
    BY <1>1, <1>5
  <2>2. fo'[f] = FOFor(CHOOSE o \in Uncovered : row[o] = f)
    BY <1>1, <1>5
  <2> QED BY <1>5, <2>1, <2>2 DEF Unused
<1>6. ASSUME NEW f \in FOs, ~\E o \in Uncovered : row[o] = f
      PROVE  fo'[f] = fo[f]
  BY <1>1, <1>6
<1>7. ASSUME NEW f \in FOs PROVE fo'[f] \in FORow
  BY <1>2, <1>4, <1>5, <1>6, NewRow DEF TablesOK, FOsOK
<1>8. FOsOK'
  BY <1>1, <1>7 DEF FOsOK
<1>9. ASSUME NEW o \in Uncovered PROVE Active(o) = {}
  BY DEF Uncovered, Active, Linked
<1>10. ASSUME NEW f \in FOs PROVE RowStep(f, Uncovered)
  <2>1. CASE \E o \in Uncovered : row[o] = f
    BY <1>3, <1>4, <1>5, <1>9, <2>1, NewRow DEF RowStep, Created, SameLedger
  <2>2. CASE ~\E o \in Uncovered : row[o] = f
    BY <1>3, <1>6, <2>2 DEF RowStep, Kept
  <2> QED BY <2>1, <2>2
<1>11. OneEachCreated
  <2>1. ASSUME NEW f \in FOs, ~fo[f].present, fo'[f].present
        PROVE  \E o \in Uncovered : row[o] = f /\ fo'[f].source = o
    BY <1>4, <1>5, <1>6, <2>1, NewRow
  <2> QED BY <2>1 DEF OneEachCreated
<1>12. Footprint({}, Uncovered)
  BY <1>3, <1>8, <1>10, <1>11 DEF Footprint, MoveStep
<1>13. \A o \in Uncovered : ~order[o].historical
  BY DEF Uncovered
<1>14. {} \in SUBSET (Orders \cup FOs)
  OBVIOUS
<1> QED BY <1>2, <1>4, <1>12, <1>13, <1>14, FactoryStep

(* Every step of the specification is a good one. *)
LEMMA NextGood ==
  ASSUME TypeOK, Next
  PROVE  GoodStep
<1>1. ASSUME NEW o \in Orders, StatusRequests(o) PROVE GoodStep
  BY <1>1, CreateOrderStep, ChangeStatusStep, CancelToFutureStep, ConfirmStep
     DEF StatusRequests
<1>2. ASSUME NEW o \in Orders, DirectWrites(o) PROVE GoodStep
  BY <1>2, ImportStep, StatusWriteStep, ParcelSignedStep DEF DirectWrites, Statuses
<1>3. ASSUME NEW o \in Orders, Scheduler(o) PROVE GoodStep
  BY <1>3, FallsDueStep, ActivateStep DEF Scheduler
<1>4. ASSUME FactoryRequests PROVE GoodStep
  BY <1>4, GenerateStep, VoidStep, ReceiveStep, ImportFactoryOrderStep, UpdateFactoryOrderStep,
     SyncStep
     DEF FactoryRequests
<1> QED BY <1>1, <1>2, <1>3, <1>4, BaselineStep DEF Next

-----------------------------------------------------------------------------
(* Type correctness *)

(* Every table holds rows of its schema, and no lock, release, consumption *)
(* or reversal drives a quantity below zero, in any catalogue and for any  *)
(* number of orders.                                                       *)
THEOREM TypeCorrect == Spec => []TypeOK
<1>1. Init => TypeOK
  <2> SUFFICES ASSUME Init PROVE TypeOK
    OBVIOUS
  <2>1. NewOrder("absent", FALSE, "none") \in OrderRow
    BY DEF NewOrder, OrderRow
  <2>2. NoFO \in FORow
    BY DEF NoFO, FORow
  <2>3. NoLedger \in [Materials -> LedgerRow]
    BY DEF NoLedger, LedgerRow
  <2> QED BY <2>1, <2>2, <2>3, ConstantsAssumption DEF Init, TypeOK, ConstantsAssumption
<1>2. TypeOK /\ [Next]_vars => TypeOK'
  <2>1. ASSUME TypeOK, Next PROVE TypeOK'
    BY <2>1, NextGood
       DEF GoodStep, Footprint, TypeOK, OrdersOK, FOsOK, StockOK, ProductsOK
  <2>2. ASSUME TypeOK, UNCHANGED vars PROVE TypeOK'
    BY <2>2 DEF TypeOK, vars, parts, products
  <2> QED BY <2>1, <2>2
<1> QED BY <1>1, <1>2, PTL DEF Spec

-----------------------------------------------------------------------------
(* Settlement of locks.  LocksSettleOnce is not inductive: that a release  *)
(* is never followed by a consumption rests on releases happening only     *)
(* when the row is voided and on voided rows never being shipped.          *)

Settled(f, m) == ledger[f][m]["lock"] = ledger[f][m]["release"] + ledger[f][m]["consume"]

RowInv(f) ==
    /\ ~fo[f].present => ~fo[f].voided /\ fo[f].source = None
    /\ \A m \in Materials :
         /\ ~fo[f].present => ledger[f][m]["lock"] = 0
         /\ ledger[f][m]["release"] # 0 =>
              /\ fo[f].voided
              /\ ledger[f][m]["release"] = ledger[f][m]["lock"]
              /\ ledger[f][m]["consume"] = 0
         /\ ledger[f][m]["consume"] # 0 => ledger[f][m]["consume"] = ledger[f][m]["lock"]
         /\ fo[f].voided => Settled(f, m)

LockInv == \A f \in FOs : RowInv(f)

LEMMA LedgerNat ==
  ASSUME TypeOK, NEW f \in FOs, NEW m \in Materials, NEW kind \in LedgerKinds
  PROVE  ledger[f][m][kind] \in Nat
  BY DEF TypeOK, LedgerRow

LEMMA RowInvStep ==
  ASSUME TypeOK, TypeOK', NEW f \in FOs, RowInv(f), NEW O, RowStep(f, O)
  PROVE  RowInv(f)'
<1>1. fo[f] \in FORow
  BY DEF TypeOK
<1>2. \A m \in Materials : /\ ledger[f][m]["lock"] \in Nat
                           /\ ledger[f][m]["release"] \in Nat
                           /\ ledger[f][m]["consume"] \in Nat
  BY LedgerNat DEF LedgerKinds
<1>3. CASE Kept(f)
  BY <1>3 DEF Kept, RowInv, Settled
<1>4. CASE Created(f, O)
  <2>1. ASSUME NEW m \in Materials
        PROVE  ledger'[f][m]["release"] = 0 /\ ledger'[f][m]["consume"] = 0
    BY <1>2, <1>4 DEF Created, SameLedger, RowInv
  <2> QED BY <1>4, <2>1 DEF Created, RowInv
<1>5. CASE Voided(f)
  <2>1. /\ fo'[f].present = fo[f].present /\ fo'[f].voided
        /\ fo'[f].source = fo[f].source
    BY <1>1, <1>5, VoidedRow DEF Voided
  <2>2. ASSUME NEW m \in Materials
        PROVE  /\ ledger'[f][m]["lock"] = ledger[f][m]["lock"]
               /\ ledger'[f][m]["consume"] = ledger[f][m]["consume"]
               /\ ledger'[f][m]["release"] = ledger[f][m]["lock"] - ledger[f][m]["consume"]
    <3>1. ledger[f][m]["release"] = 0
      BY <1>5 DEF Voided, RowInv
    <3>2. Held(f, m) = ledger[f][m]["lock"] - ledger[f][m]["consume"]
      BY <1>2, <3>1 DEF Held
    <3>3. Held(f, m) \in Int /\ Held(f, m) >= 0
      BY <1>2, <3>2 DEF RowInv
    <3> QED BY <1>2, <1>5, <3>1, <3>2, <3>3, FloorId DEF Voided, SameLedger
  <2> QED BY <1>2, <1>5, <2>1, <2>2 DEF RowInv, Settled, Voided
<1>6. CASE Shipped(f, O)
  <2>1. /\ fo'[f].present = fo[f].present /\ fo'[f].voided = fo[f].voided
        /\ fo'[f].source = fo[f].source
    BY <1>1, <1>6, DeliveredRow DEF Shipped
  <2>2. ASSUME NEW m \in Materials
        PROVE  /\ ledger'[f][m]["lock"] = ledger[f][m]["lock"]
               /\ ledger'[f][m]["release"] = 0
               /\ ledger'[f][m]["consume"] = ledger[f][m]["lock"]
    <3>1. ledger[f][m]["release"] = 0
      BY <1>6 DEF Shipped, RowInv
    <3>2. Unshipped(f, m) \in Int /\ Unshipped(f, m) >= 0
      BY <1>2 DEF RowInv, Unshipped
    <3> QED BY <1>2, <1>6, <3>1, <3>2, FloorId DEF Shipped, SameLedger, Unshipped
  <2> QED BY <1>2, <1>6, <2>1, <2>2 DEF RowInv, Settled, Shipped
<1>7. CASE Noted(f)
  BY <1>7 DEF Noted, RowInv, Settled
<1> QED BY <1>3, <1>4, <1>5, <1>6, <1>7 DEF RowStep

LEMMA LockInvInit == Init => LockInv
  BY DEF Init, LockInv, RowInv, Settled, NoFO, NoLedger, LedgerKinds

LEMMA LockInvNext == TypeOK /\ TypeOK' /\ LockInv /\ [Next]_vars => LockInv'
<1>1. ASSUME TypeOK, TypeOK', LockInv, Next PROVE LockInv'
  <2>1. PICK O : \A f \in FOs : RowStep(f, O)
    BY <1>1, NextGood DEF GoodStep, Footprint
  <2> QED BY <1>1, <2>1, RowInvStep DEF LockInv
<1>2. ASSUME LockInv, UNCHANGED vars PROVE LockInv'
  BY <1>2 DEF LockInv, RowInv, Settled, vars, parts
<1> QED BY <1>1, <1>2

LEMMA LockInvSettles == TypeOK /\ LockInv => LocksSettleOnce
<1> SUFFICES ASSUME TypeOK, LockInv, NEW f \in FOs, NEW m \in Materials
             PROVE  /\ Held(f, m) >= 0
                    /\ ledger[f][m]["release"] = 0 \/ ledger[f][m]["consume"] = 0
                    /\ fo[f].voided => Held(f, m) = 0
  BY DEF LocksSettleOnce
<1>1. /\ ledger[f][m]["lock"] \in Nat /\ ledger[f][m]["release"] \in Nat
      /\ ledger[f][m]["consume"] \in Nat
  BY LedgerNat DEF LedgerKinds
<1>2. /\ fo[f].voided => Settled(f, m)
      /\ ledger[f][m]["release"] # 0 =>
           ledger[f][m]["release"] = ledger[f][m]["lock"] /\ ledger[f][m]["consume"] = 0
      /\ ledger[f][m]["consume"] # 0 => ledger[f][m]["consume"] = ledger[f][m]["lock"]
  BY DEF LockInv, RowInv
<1> QED BY <1>1, <1>2 DEF Settled, Held

(* However payment, cancelling, voiding, shipping and batch creation       *)
(* follow each other, the lock of a factory order ends at most once.       *)
THEOREM LocksSettle == Spec => []LocksSettleOnce
<1>1. Spec => []LockInv
  BY TypeCorrect, LockInvInit, LockInvNext, PTL DEF Spec
<1> QED BY <1>1, TypeCorrect, LockInvSettles, PTL

(* A voided factory order stays voided and its ledger stays closed.        *)
THEOREM VoidedFinal == Spec => VoidedIsFinal
<1>1. ASSUME TypeOK, LockInv, [Next]_vars
      PROVE  [\A f \in FOs : fo[f].voided => fo'[f].voided /\ ledger'[f] = ledger[f]]_vars
  <2> SUFFICES ASSUME Next, NEW f \in FOs, fo[f].voided
               PROVE  fo'[f].voided /\ ledger'[f] = ledger[f]
    BY <1>1
  <2>1. PICK O : RowStep(f, O)
    BY <1>1, NextGood DEF GoodStep, Footprint
  <2>2. Kept(f) \/ Noted(f)
    BY <1>1, <2>1 DEF RowStep, Created, Voided, Shipped, LockInv, RowInv
  <2> QED BY <2>2 DEF Kept, Noted
<1>2. Spec => []LockInv
  BY TypeCorrect, LockInvInit, LockInvNext, PTL DEF Spec
<1> QED BY <1>1, <1>2, TypeCorrect, PTL DEF Spec, VoidedIsFinal

-----------------------------------------------------------------------------
(* Historical orders *)

(* No request creates or ships a factory order of an order that is         *)
(* historical afterwards, nor moves product stock for it.                  *)
THEOREM HistoricalOutside == Spec => HistoricalNotAdvanced
<1> DEFINE Left(o) ==
      order'[o].historical =>
        /\ \A mv \in moves' \ moves : mv.entity # o
        /\ \A f \in FOs :
             fo'[f].source = o =>
               fo[f].present /\ (ledger'[f] = ledger[f] \/ fo'[f].voided)
<1>1. ASSUME TypeOK, LockInv, [Next]_vars PROVE [\A o \in Orders : Left(o)]_vars
  <2> SUFFICES ASSUME Next, NEW o \in Orders, order'[o].historical
               PROVE  /\ \A mv \in moves' \ moves : mv.entity # o
                      /\ \A f \in FOs :
                           fo'[f].source = o =>
                             fo[f].present /\ (ledger'[f] = ledger[f] \/ fo'[f].voided)
    BY <1>1
  <2>1. PICK E \in SUBSET (Orders \cup FOs), O \in SUBSET Orders :
          Footprint(E, O) /\ o \notin E /\ o \notin O
    BY <1>1, NextGood DEF GoodStep
  <2>2. \A mv \in moves' \ moves : mv.entity # o
    BY <2>1 DEF Footprint, MoveStep
  <2>3. ASSUME NEW f \in FOs, fo'[f].source = o
        PROVE  fo[f].present /\ (ledger'[f] = ledger[f] \/ fo'[f].voided)
    <3>1. RowStep(f, O) /\ fo[f] \in FORow
      BY <1>1, <2>1 DEF Footprint, TypeOK
    <3>2. CASE Kept(f)
      <4>1. o # None
        BY ConstantsAssumption DEF ConstantsAssumption
      <4> QED BY <1>1, <2>3, <3>2, <4>1 DEF Kept, LockInv, RowInv
    <3>3. CASE Voided(f)
      BY <3>1, <3>3, VoidedRow DEF Voided
    <3>4. ~Created(f, O)
      BY <2>1, <2>3 DEF Created
    <3>5. ~Shipped(f, O)
      BY <2>1, <2>3, <3>1, DeliveredRow DEF Shipped
    <3> QED BY <3>1, <3>2, <3>3, <3>4, <3>5 DEF RowStep, Noted
  <2> QED BY <2>2, <2>3
<1>2. Spec => []LockInv
  BY TypeCorrect, LockInvInit, LockInvNext, PTL DEF Spec
<1> QED BY <1>1, <1>2, TypeCorrect, PTL DEF Spec, HistoricalNotAdvanced

-----------------------------------------------------------------------------
(* Movements *)

LEMMA MirrorNext == TypeOK /\ ReversalMirrorsOriginal /\ [Next]_vars
                      => ReversalMirrorsOriginal'
<1>1. ASSUME ReversalMirrorsOriginal, UNCHANGED moves PROVE ReversalMirrorsOriginal'
  BY <1>1 DEF ReversalMirrorsOriginal
<1>2. ASSUME TypeOK, ReversalMirrorsOriginal, Next PROVE ReversalMirrorsOriginal'
  <2>1. PICK E : MoveStep(E)
    BY <1>2, NextGood DEF GoodStep, Footprint
  <2>2. CASE moves' = moves
    BY <1>1, <1>2, <2>2
  <2>3. CASE moves' # moves
    <3>1. PICK new \in Movement :
            /\ moves' = moves \cup {new}
            /\ ~HasMove(new.reason, new.entity)
            /\ new.reason = "reversal" =>
                 \E orig \in moves :
                    /\ orig.reason \in {"ship", "restock_receipt"}
                    /\ orig.entity = new.entity
                    /\ orig.product = new.product /\ orig.qty = -new.qty
      BY <2>1, <2>3 DEF MoveStep
    <3>2. ASSUME NEW mv \in moves', NEW other \in moves',
                 other.reason = mv.reason, other.entity = mv.entity
          PROVE  other = mv
      BY <1>2, <3>1, <3>2 DEF ReversalMirrorsOriginal, HasMove
    <3>3. ASSUME NEW mv \in moves', mv.reason = "reversal"
          PROVE  \E orig \in moves' :
                    /\ orig.reason \in {"ship", "restock_receipt"}
                    /\ orig.entity = mv.entity
                    /\ orig.product = mv.product /\ orig.qty = -mv.qty
      BY <1>2, <3>1, <3>3 DEF ReversalMirrorsOriginal
    <3> QED BY <3>2, <3>3 DEF ReversalMirrorsOriginal
  <2> QED BY <2>2, <2>3
<1> QED BY <1>1, <1>2 DEF vars, products

(* The movement table is idempotent per event and a reversal undoes        *)
(* exactly the one shipment or receipt of its entity.                      *)
THEOREM ReversalsMirror == Spec => []ReversalMirrorsOriginal
<1>1. Init => ReversalMirrorsOriginal
  BY DEF Init, ReversalMirrorsOriginal
<1> QED BY <1>1, MirrorNext, TypeCorrect, PTL DEF Spec

-----------------------------------------------------------------------------
(* One live factory order per order *)

SingleInv == \A o \in Orders : \A f, g \in Active(o) : f = g

LEMMA SingleNext == TypeOK /\ SingleInv /\ [Next]_vars => SingleInv'
<1>1. ASSUME SingleInv, UNCHANGED vars PROVE SingleInv'
  BY <1>1 DEF SingleInv, Active, Linked, vars
<1>2. ASSUME TypeOK, SingleInv, Next PROVE SingleInv'
  <2>1. PICK E, O : Footprint(E, O)
    BY <1>2, NextGood DEF GoodStep
  <2>2. ASSUME NEW o \in Orders, NEW f \in Active(o)'
        PROVE  f \in Active(o) \/ (~fo[f].present /\ Active(o) = {})
    <3>1. f \in FOs /\ fo[f] \in FORow /\ RowStep(f, O)
      BY <1>2, <2>1 DEF Active, Linked, TypeOK, Footprint
    <3>2. fo'[f].present /\ fo'[f].source = o /\ ~fo'[f].voided
      BY DEF Active, Linked
    <3>3. CASE Kept(f) \/ Noted(f)
      BY <3>1, <3>2, <3>3 DEF Kept, Noted, Active, Linked
    <3>4. CASE Created(f, O)
      BY <3>2, <3>4 DEF Created
    <3>5. ~Voided(f)
      BY <3>1, <3>2, VoidedRow DEF Voided
    <3>6. CASE Shipped(f, O)
      BY <3>1, <3>2, <3>6, DeliveredRow DEF Shipped, Active, Linked
    <3> QED BY <3>1, <3>3, <3>4, <3>5, <3>6 DEF RowStep
  <2>3. ASSUME NEW o \in Orders, NEW f \in Active(o)', NEW g \in Active(o)'
        PROVE  f = g
    <3>1. CASE f \in Active(o) /\ g \in Active(o)
      BY <1>2, <3>1 DEF SingleInv
    <3>2. CASE ~fo[f].present /\ ~fo[g].present
      <4>1. /\ f \in FOs /\ fo'[f].present /\ fo'[f].source = o
            /\ g \in FOs /\ fo'[g].present /\ fo'[g].source = o
        BY DEF Active, Linked
      <4>2. o # None
        BY ConstantsAssumption DEF ConstantsAssumption
      <4> QED BY <2>1, <3>2, <4>1, <4>2 DEF Footprint, OneEachCreated
    <3> QED BY <2>2, <2>3, <3>1, <3>2
  <2> QED BY <2>3 DEF SingleInv
<1> QED BY <1>1, <1>2

LEMMA SingleCardinality == SingleInv => OneLiveFactoryOrder
<1> SUFFICES ASSUME SingleInv, NEW o \in Orders PROVE Cardinality(Active(o)) <= 1
  BY DEF OneLiveFactoryOrder
<1>1. CASE Active(o) = {}
  BY <1>1, FS_EmptySet
<1>2. CASE Active(o) # {}
  <2>1. PICK f \in Active(o) : TRUE
    BY <1>2
  <2>2. Active(o) = {f}
    BY <2>1 DEF SingleInv
  <2>3. Cardinality({f}) = 1
    BY FS_Singleton
  <2> QED BY <2>2, <2>3
<1> QED BY <1>1, <1>2

(* Payment, the generate button and the batch sync create factory orders   *)
(* independently; no order ever has two live ones.                         *)
THEOREM OneLive == Spec => []OneLiveFactoryOrder
<1>1. Init => SingleInv
  BY DEF Init, SingleInv, Active, Linked, NoFO
<1> QED BY <1>1, SingleNext, SingleCardinality, TypeCorrect, PTL DEF Spec

-----------------------------------------------------------------------------
(* Refinement.  A row step is a step of the abstract factory order. *)

LEMMA PromiseInit == Init => Promise!Init
  BY DEF Init, Promise!Init, Promise!Nothing, NoFO, NoLedger, LedgerKinds, Held

LEMMA PromiseRow ==
  ASSUME TypeOK, TypeOK', NEW f \in FOs, RowInv(f), RowInv(f)', NEW O, RowStep(f, O)
  PROVE  Promise!Keep(f) \/ Promise!Open(f) \/ Promise!Deliver(f) \/ Promise!GiveBack(f)
<1>1. \A m \in Materials : /\ ledger[f][m]["lock"] \in Nat /\ ledger'[f][m]["lock"] \in Nat
                           /\ ledger[f][m]["release"] \in Nat /\ ledger'[f][m]["release"] \in Nat
                           /\ ledger[f][m]["consume"] \in Nat /\ ledger'[f][m]["consume"] \in Nat
  BY DEF TypeOK, LedgerRow, LedgerKinds
<1>2. fo[f] \in FORow
  BY DEF TypeOK
<1>3. CASE Kept(f) \/ Noted(f)
  <2>1. /\ fo'[f].present = fo[f].present /\ fo'[f].voided = fo[f].voided
        /\ ledger'[f] = ledger[f]
    BY <1>3 DEF Kept, Noted
  <2> QED BY <2>1 DEF Promise!Keep, Held
<1>4. CASE Created(f, O)
  <2>1. ~fo[f].present /\ fo'[f].present /\ ~fo'[f].voided
    BY <1>4 DEF Created
  <2>2. ASSUME NEW m \in Materials
        PROVE  /\ ledger'[f][m]["consume"] = ledger[f][m]["consume"]
               /\ Held(f, m)' \in Nat
    <3>1. ledger'[f][m]["release"] = 0 /\ ledger'[f][m]["consume"] = ledger[f][m]["consume"]
      BY <1>1, <1>4, <2>1 DEF Created, SameLedger, RowInv
    <3>2. ledger'[f][m]["consume"] = 0
      BY <1>1, <2>1, <3>1 DEF RowInv
    <3> QED BY <1>1, <3>1, <3>2 DEF Held
  <2> QED BY <2>1, <2>2 DEF Promise!Open
<1>5. CASE Voided(f)
  <2>1. fo[f].present /\ ~fo[f].voided /\ fo'[f].present /\ fo'[f].voided
    BY <1>2, <1>5, VoidedRow DEF Voided
  <2>2. ASSUME NEW m \in Materials
        PROVE  /\ ledger'[f][m]["consume"] = ledger[f][m]["consume"]
               /\ Held(f, m)' = 0
    <3>1. ledger'[f][m]["consume"] = ledger[f][m]["consume"]
      BY <1>5 DEF Voided, SameLedger
    <3>2. ledger'[f][m]["lock"] = ledger'[f][m]["release"] + ledger'[f][m]["consume"]
      BY <2>1 DEF RowInv, Settled
    <3> QED BY <1>1, <3>1, <3>2 DEF Held
  <2> QED BY <2>1, <2>2 DEF Promise!GiveBack, Promise!Nothing
<1>6. CASE Shipped(f, O)
  <2>1. fo[f].present /\ ~fo[f].voided /\ fo'[f].present /\ ~fo'[f].voided
    BY <1>2, <1>6, DeliveredRow DEF Shipped
  <2>2. ASSUME NEW m \in Materials
        PROVE  /\ ledger'[f][m]["consume"] = ledger[f][m]["consume"] + Held(f, m)
               /\ Held(f, m)' = 0
    <3>1. /\ ledger'[f][m]["lock"] = ledger[f][m]["lock"]
          /\ ledger'[f][m]["release"] = ledger[f][m]["release"]
          /\ ledger'[f][m]["consume"] = ledger[f][m]["consume"] + Floor(Unshipped(f, m))
      BY <1>6 DEF Shipped, SameLedger
    <3>2. ledger[f][m]["release"] = 0
      BY <2>1 DEF RowInv
    <3>3. Unshipped(f, m) \in Int /\ Unshipped(f, m) >= 0
      BY <1>1 DEF RowInv, Unshipped
    <3>4. Floor(Unshipped(f, m)) = Unshipped(f, m)
      BY <3>3, FloorId
    <3> QED BY <1>1, <3>1, <3>2, <3>4 DEF Held, Unshipped
  <2> QED BY <2>1, <2>2 DEF Promise!Deliver, Promise!Nothing
<1> QED BY <1>3, <1>4, <1>5, <1>6 DEF RowStep

(* The detailed life cycle implements the abstract factory order: every    *)
(* request opens, delivers or gives back, in one piece and only once, or   *)
(* leaves the parts of a factory order alone.                              *)
THEOREM KeepsPromise == Spec => PartPromiseKept
<1>1. ASSUME TypeOK, TypeOK', LockInv, LockInv', [Next]_vars
      PROVE  [Promise!Next]_(Promise!vars)
  <2>1. CASE Next
    <3>1. PICK O : \A f \in FOs : RowStep(f, O)
      BY <1>1, <2>1, NextGood DEF GoodStep, Footprint
    <3> QED BY <1>1, <3>1, PromiseRow DEF Promise!Next, LockInv
  <2>2. CASE UNCHANGED vars
    BY <2>2 DEF vars, parts, Promise!vars, Held
  <2> QED BY <1>1, <2>1, <2>2
<1>2. Spec => []LockInv
  BY TypeCorrect, LockInvInit, LockInvNext, PTL DEF Spec
<1> QED BY <1>1, <1>2, TypeCorrect, PromiseInit, PTL DEF Spec, PartPromiseKept, Promise!Spec

=============================================================================
